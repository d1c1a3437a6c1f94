---------------------------- MODULE RetrievalProofs ----------------------------
(***************************************************************************)
(* A collection, for every set of tasks, jobs, documents, chunk sizes and   *)
(* scores: its stores are dictionaries that agree, they hold what was       *)
(* indexed last, and a search answers in the order of both its lists.       *)
(* The operators come first, then the invariant and its steps.              *)
(***************************************************************************)
EXTENDS Retrieval, WellFoundedInduction, FiniteSetTheorems, SequenceTheorems, TLAPS

-------------------------------------------------------------------------------
(***************************************************************************)
(* Numbers: a set of naturals has a least one, and induction over the       *)
(* places of a list, both from the library's well-founded order.            *)
(***************************************************************************)
LEMMA LeastExists ==
  ASSUME NEW S \in SUBSET Nat, S # {}
  PROVE  \E x \in S : \A y \in S : x <= y
<1> DEFINE R == OpToRel(<, Nat)
<1>1. IsWellFoundedOn(R, Nat)
  BY NatLessThanWellFounded
<1>2. ASSUME NEW x \in Nat, NEW y \in Nat, y < x
      PROVE  <<y, x>> \in R
  BY <1>2 DEF OpToRel
<1> HIDE DEF R
<1>3. PICK x \in S : \A y \in S : <<y, x>> \notin R
  BY <1>1, WFMin
<1>4. ASSUME NEW y \in S
      PROVE  x <= y
  <2>1. x \in Nat /\ y \in Nat
    OBVIOUS
  <2>2. ~(y < x)
    BY <1>2, <1>3, <2>1
  <2> QED  BY <2>1, <2>2
<1> QED  BY <1>4

LEMMA UpTo ==
  ASSUME NEW n \in Nat, NEW Good, 0 \in Good,
         \A k \in 0 .. n - 1 : k \in Good => k + 1 \in Good
  PROVE  \A k \in 0 .. n : k \in Good
<1> DEFINE Bad == {k \in 0 .. n : k \notin Good}
<1>1. SUFFICES ASSUME Bad # {}
               PROVE  FALSE
  OBVIOUS
<1>2. Bad \in SUBSET Nat
  OBVIOUS
<1>3. PICK x \in Bad : \A y \in Bad : x <= y
  <2> HIDE DEF Bad
  <2> QED  BY <1>1, <1>2, LeastExists
<1>4. x # 0
  OBVIOUS
<1>5. x - 1 \in 0 .. n - 1 /\ x - 1 \notin Bad
  BY <1>3, <1>4
<1>6. x - 1 \in Good
  BY <1>5
<1> QED  BY <1>5, <1>6

-------------------------------------------------------------------------------
(***************************************************************************)
(* The order of places: each place has a rank of its own, the number of     *)
(* those before it, so that the ranks are all the numbers there are.        *)
(***************************************************************************)
Ahead(places, score, i) == {j \in places : Before(score, j, i)}

LEMMA RanksAreBijective ==
  ASSUME NEW S \in SUBSET Nat, IsFiniteSet(S), NEW score \in [S -> Int]
  PROVE  /\ \A i, j \in S : Before(score, i, j)
              => Cardinality(Ahead(S, score, i)) < Cardinality(Ahead(S, score, j))
         /\ \A i \in S : Cardinality(Ahead(S, score, i)) \in 0 .. Cardinality(S) - 1
         /\ \A k \in 1 .. Cardinality(S) :
              \E i \in S : Cardinality(Ahead(S, score, i)) = k - 1
<1> DEFINE A(i) == Ahead(S, score, i)
           C(i) == Cardinality(A(i))
           N == Cardinality(S)
<1>1. N \in Nat
  BY FS_CardinalityType
<1>2. ASSUME NEW i \in S
      PROVE  A(i) \subseteq S /\ i \notin A(i) /\ IsFiniteSet(A(i)) /\ C(i) \in 0 .. N - 1
  <2>1. A(i) \subseteq S /\ i \notin A(i)
    BY DEF Ahead, Before
  <2>2. IsFiniteSet(A(i)) /\ C(i) <= N /\ (N = C(i) => S = A(i)) /\ C(i) \in Nat
    <3> HIDE DEF A
    <3> QED  BY <2>1, FS_Subset, FS_CardinalityType
  <2> QED  BY <1>1, <2>1, <2>2
<1>3. ASSUME NEW i \in S, NEW j \in S, Before(score, i, j)
      PROVE  C(i) < C(j)
  <2>1. A(i) \subseteq A(j) /\ i \in A(j)
    <3>1. ASSUME NEW k \in S, Before(score, k, i)
          PROVE  Before(score, k, j)
      <4>1. score[i] \in Int /\ score[j] \in Int /\ score[k] \in Int /\ i \in Nat /\ j \in Nat /\ k \in Nat
        OBVIOUS
      <4> QED  BY <1>3, <3>1, <4>1 DEF Before
    <3> QED  BY <1>3, <3>1 DEF Ahead
  <2>2. C(i) <= C(j) /\ (C(j) = C(i) => A(j) = A(i))
    <3> HIDE DEF A
    <3> QED  BY <1>2, <2>1, FS_Subset
  <2> HIDE DEF A
  <2> QED  BY <1>1, <1>2, <2>1, <2>2
<1>4. ASSUME NEW i \in S, NEW j \in S, C(i) = C(j)
      PROVE  i = j
  <2>1. i = j \/ Before(score, i, j) \/ Before(score, j, i)
    BY DEF Before
  <2> HIDE DEF C
  <2> QED  BY <1>1, <1>2, <1>3, <1>4, <2>1
<1>5. \A k \in 0 .. N - 1 : \E i \in S : C(i) = k
  <2> DEFINE f == [i \in S |-> C(i)]
             T == 0 .. N - 1
  <2>1. f \in [S -> T] /\ \A i, j \in S : f[i] = f[j] => i = j
    <3> HIDE DEF C, N
    <3> QED  BY <1>2, <1>4
  <2>2. IsFiniteSet(T) /\ Cardinality(T) = N
    BY <1>1, FS_Interval
  <2>3. f \in Injection(S, T)
    <3> HIDE DEF f, T
    <3> QED  BY <2>1 DEF Injection, IsInjective
  <2>4. f \in Surjection(S, T)
    <3> HIDE DEF f, T
    <3> QED  BY <2>2, <2>3, FS_Injection
  <2>5. \A k \in T : \E i \in S : f[i] = k
    <3> HIDE DEF f, T
    <3> QED  BY <2>4 DEF Surjection
  <2> QED  BY <2>5
<1> HIDE DEF C
<1>6. \A k \in 1 .. N : k - 1 \in 0 .. N - 1
  BY <1>1
<1> QED  BY <1>2, <1>3, <1>5, <1>6 DEF C

LEMMA InOrderLists ==
  ASSUME NEW S \in SUBSET Nat, IsFiniteSet(S), NEW score \in [S -> Int],
         NEW o, o = InOrder(S, score)
  PROVE  /\ Cardinality(S) \in Nat
         /\ o \in [1 .. Cardinality(S) -> S]
         /\ \A i \in S : \E k \in 1 .. Cardinality(S) : o[k] = i
         /\ \A j, k \in 1 .. Cardinality(S) : j < k => Before(score, o[j], o[k])
<1> DEFINE C(i) == Cardinality(Ahead(S, score, i))
           N == Cardinality(S)
<1>1. N \in Nat
  BY FS_CardinalityType
<1>2. /\ \A i, j \in S : Before(score, i, j) => C(i) < C(j)
      /\ \A i \in S : C(i) \in 0 .. N - 1
      /\ \A k \in 1 .. N : \E i \in S : C(i) = k - 1
  BY RanksAreBijective
<1>3. o = [k \in 1 .. N |-> CHOOSE i \in S : C(i) = k - 1]
  BY DEF InOrder, Ahead
<1> HIDE DEF C, N
<1>4. \A k \in 1 .. N : o[k] \in S /\ C(o[k]) = k - 1
  BY <1>2, <1>3
<1>5. o \in [1 .. N -> S]
  BY <1>3, <1>4
<1>6. ASSUME NEW i \in S, NEW j \in S, C(i) = C(j)
      PROVE  i = j
  <2>1. i = j \/ Before(score, i, j) \/ Before(score, j, i)
    BY DEF Before
  <2>2. C(i) \in Int /\ C(j) \in Int
    BY <1>1, <1>2
  <2> QED  BY <1>2, <1>6, <2>1, <2>2
<1>7. ASSUME NEW i \in S
      PROVE  \E k \in 1 .. N : o[k] = i
  <2>1. C(i) + 1 \in 1 .. N /\ C(o[C(i) + 1]) = C(i) /\ o[C(i) + 1] \in S
    BY <1>1, <1>2, <1>4
  <2> QED  BY <1>6, <2>1
<1>8. ASSUME NEW j \in 1 .. N, NEW k \in 1 .. N, j < k
      PROVE  Before(score, o[j], o[k])
  <2>1. o[j] \in S /\ o[k] \in S /\ C(o[j]) = j - 1 /\ C(o[k]) = k - 1
    BY <1>4
  <2>2. \A x, y \in S : x = y \/ Before(score, x, y) \/ Before(score, y, x)
    BY DEF Before
  <2>3. ~ Before(score, o[k], o[j])
    <3>1. ~ (C(o[k]) < C(o[j]))
      BY <1>1, <1>8, <2>1
    <3> QED  BY <1>2, <2>1, <3>1
  <2>4. o[j] # o[k]
    BY <1>1, <1>8, <2>1
  <2> QED  BY <2>1, <2>2, <2>3, <2>4
<1> QED  BY <1>1, <1>5, <1>7, <1>8 DEF N

(* At takes what a list has at the places, in the order it has it.          *)
Picks(a, list, places, o) ==
  /\ o \in [1 .. Len(a) -> places]
  /\ \A k \in 1 .. Len(a) : a[k] = list[o[k]]
  /\ \A i \in places : \E k \in 1 .. Len(a) : o[k] = i

LEMMA AscendingLists ==
  ASSUME NEW S \in SUBSET Nat, IsFiniteSet(S)
  PROVE  LET o == Ascending(S)
         IN  /\ Cardinality(S) \in Nat
             /\ o \in [1 .. Cardinality(S) -> S]
             /\ \A i \in S : \E k \in 1 .. Cardinality(S) : o[k] = i
             /\ \A j, k \in 1 .. Cardinality(S) : j < k => o[j] < o[k]
<1> DEFINE zero == [i \in S |-> 0]
           o == InOrder(S, zero)
<1>1. zero \in [S -> Int]
  OBVIOUS
<1>2. \A i, j \in S : Before(zero, i, j) => i < j
  BY DEF Before
<1>3. o = Ascending(S)
  BY DEF Ascending
<1> HIDE DEF zero, o
<1>4. /\ Cardinality(S) \in Nat
      /\ o \in [1 .. Cardinality(S) -> S]
      /\ \A i \in S : \E k \in 1 .. Cardinality(S) : o[k] = i
      /\ \A j, k \in 1 .. Cardinality(S) : j < k => Before(zero, o[j], o[k])
  BY <1>1, InOrderLists DEF o
<1> QED  BY <1>2, <1>3, <1>4

LEMMA PlacesAreFinite ==
  ASSUME NEW R, NEW list \in Seq(R), NEW S \in SUBSET (DOMAIN list)
  PROVE  S \in SUBSET Nat /\ IsFiniteSet(S)
<1>1. DOMAIN list = 1 .. Len(list) /\ Len(list) \in Nat
  OBVIOUS
<1>2. IsFiniteSet(1 .. Len(list))
  BY <1>1, FS_Interval
<1> QED  BY <1>1, <1>2, FS_Subset

LEMMA AtPicks ==
  ASSUME NEW R, NEW list \in Seq(R), NEW S \in SUBSET (DOMAIN list), NEW a, a = At(list, S)
  PROVE  /\ a \in Seq(R)
         /\ \E o : Picks(a, list, S, o) /\ \A j, k \in 1 .. Len(a) : j < k => o[j] < o[k]
<1> DEFINE o == Ascending(S)
           N == Cardinality(S)
<1>1. S \in SUBSET Nat /\ IsFiniteSet(S)
  BY PlacesAreFinite
<1>2. /\ N \in Nat /\ o \in [1 .. N -> S]
      /\ \A i \in S : \E k \in 1 .. N : o[k] = i
      /\ \A j, k \in 1 .. N : j < k => o[j] < o[k]
  BY <1>1, AscendingLists
<1>3. a = [k \in DOMAIN o |-> list[o[k]]]
  BY DEF At
<1> HIDE DEF o, N
<1>4. DOMAIN o = 1 .. N /\ \A k \in 1 .. N : list[o[k]] \in R
  BY <1>2
<1>5. a \in Seq(R) /\ Len(a) = N
  <2>1. a = [k \in 1 .. N |-> list[o[k]]]
    BY <1>3, <1>4
  <2> QED  BY <1>2, <1>4, <2>1
<1>6. Picks(a, list, S, o)
  BY <1>2, <1>3, <1>4, <1>5 DEF Picks
<1> QED  BY <1>2, <1>5, <1>6

LEMMA SortedArranges ==
  ASSUME NEW R, NEW hits \in Seq(R), \A i \in DOMAIN hits : hits[i].score \in Int,
         NEW s, s = Sorted(hits)
  PROVE  /\ s \in Seq(R)
         /\ \E o : /\ Picks(s, hits, DOMAIN hits, o)
                   /\ \A j, k \in 1 .. Len(s) : j < k =>
                        \/ s[j].score > s[k].score
                        \/ s[j].score = s[k].score /\ o[j] < o[k]
<1> DEFINE S == DOMAIN hits
           score == [i \in S |-> hits[i].score]
           o == InOrder(S, score)
           N == Cardinality(S)
<1>1. S \in SUBSET Nat /\ IsFiniteSet(S)
  BY PlacesAreFinite
<1>2. score \in [S -> Int] /\ \A i \in S : score[i] = hits[i].score
  OBVIOUS
<1>3. s = [k \in DOMAIN o |-> hits[o[k]]]
  BY DEF Sorted
<1> HIDE DEF score, S, o, N
<1>4. /\ N \in Nat /\ o \in [1 .. N -> S]
      /\ \A i \in S : \E k \in 1 .. N : o[k] = i
      /\ \A j, k \in 1 .. N : j < k => Before(score, o[j], o[k])
  <2>1. o = InOrder(S, score)
    BY DEF o
  <2>2. /\ Cardinality(S) \in Nat /\ o \in [1 .. Cardinality(S) -> S]
        /\ \A i \in S : \E k \in 1 .. Cardinality(S) : o[k] = i
        /\ \A j, k \in 1 .. Cardinality(S) : j < k => Before(score, o[j], o[k])
    BY ONLY <1>1, <1>2, <2>1, InOrderLists
  <2> QED  BY <2>2 DEF N
<1>5. DOMAIN o = 1 .. N /\ \A k \in 1 .. N : hits[o[k]] \in R
  BY <1>4 DEF S
<1>6. s \in Seq(R) /\ Len(s) = N
  <2>1. s = [k \in 1 .. N |-> hits[o[k]]]
    BY <1>3, <1>5
  <2> QED  BY <1>4, <1>5, <2>1
<1>7. Picks(s, hits, S, o)
  BY <1>3, <1>4, <1>5, <1>6 DEF Picks
<1>8. ASSUME NEW j \in 1 .. N, NEW k \in 1 .. N, j < k
      PROVE  s[j].score > s[k].score \/ (s[j].score = s[k].score /\ o[j] < o[k])
  <2>1. s[j] = hits[o[j]] /\ s[k] = hits[o[k]] /\ o[j] \in S /\ o[k] \in S
    BY <1>3, <1>4, <1>5
  <2>2. Before(score, o[j], o[k])
    BY <1>4, <1>8
  <2> QED  BY <1>2, <2>1, <2>2 DEF Before
<1> QED  BY <1>6, <1>7, <1>8 DEF S

-------------------------------------------------------------------------------
(***************************************************************************)
(* Lists of hits.  An id has one place in a list, its rank, and cutting a   *)
(* list that descends, by length or by score, puts none behind another.     *)
(***************************************************************************)
Listed(hits) ==
  /\ hits \in Hits
  /\ \A i, j \in DOMAIN hits : hits[i].id = hits[j].id => i = j

Descending(hits) ==
  \A i, j \in DOMAIN hits : i < j => hits[i].score >= hits[j].score

LEMMA HitsAreLists ==
  ASSUME NEW hits \in Hits
  PROVE  /\ Len(hits) \in Nat /\ DOMAIN hits = 1 .. Len(hits)
         /\ \A i \in 1 .. Len(hits) : hits[i] \in [id : Ids, score : Int]
<1> DEFINE R == [id : Ids, score : Int]
<1>1. hits \in Seq(R)
  BY DEF Hits
<1> HIDE DEF R
<1>2. Len(hits) \in Nat /\ DOMAIN hits = 1 .. Len(hits) /\ \A i \in 1 .. Len(hits) : hits[i] \in R
  BY <1>1
<1> QED  BY <1>2 DEF R

LEMMA RankIsThePlace ==
  ASSUME NEW hits, Listed(hits)
  PROVE  /\ \A id : Rank(hits, id) \in 1 .. Len(hits) + 1
         /\ \A id : Rank(hits, id) <= Len(hits) <=> id \in IdsOf(hits)
         /\ \A id \in IdsOf(hits) : hits[Rank(hits, id)].id = id
         /\ \A i \in DOMAIN hits : hits[i].id \in IdsOf(hits) /\ Rank(hits, hits[i].id) = i
<1>1. Len(hits) \in Nat /\ DOMAIN hits = 1 .. Len(hits)
  BY HitsAreLists DEF Listed
<1>2. ASSUME NEW id, id \in IdsOf(hits)
      PROVE  Rank(hits, id) \in DOMAIN hits /\ hits[Rank(hits, id)].id = id
  <2>1. \E i \in DOMAIN hits : hits[i].id = id
    BY <1>2 DEF IdsOf
  <2>2. Rank(hits, id) = CHOOSE i \in DOMAIN hits : hits[i].id = id
    BY <1>2 DEF Rank
  <2> QED  BY <2>1, <2>2
<1>3. ASSUME NEW id, id \notin IdsOf(hits)
      PROVE  Rank(hits, id) = Len(hits) + 1
  BY <1>3 DEF Rank
<1>4. \A i \in DOMAIN hits : hits[i].id \in IdsOf(hits)
  BY DEF IdsOf
<1>5. \A i \in DOMAIN hits : Rank(hits, hits[i].id) = i
  BY <1>2, <1>4 DEF Listed
<1>6. \A id : Rank(hits, id) \in 1 .. Len(hits) + 1
  BY <1>1, <1>2, <1>3
<1>7. \A id : Rank(hits, id) <= Len(hits) <=> id \in IdsOf(hits)
  BY <1>1, <1>2, <1>3
<1> QED  BY <1>2, <1>4, <1>5, <1>6, <1>7

LEMMA TopKeepsTheOrder ==
  ASSUME NEW hits, Listed(hits), Descending(hits), NEW k \in Nat, NEW top, top = Top(hits, k)
  PROVE  /\ Listed(top) /\ Descending(top)
         /\ \A a, b : Rank(hits, a) <= Rank(hits, b) => Rank(top, a) <= Rank(top, b)
<1> DEFINE n == Min({k, Len(hits)})
<1>1. /\ Len(hits) \in Nat /\ DOMAIN hits = 1 .. Len(hits)
      /\ \A i \in 1 .. Len(hits) : hits[i] \in [id : Ids, score : Int]
  BY HitsAreLists DEF Listed
<1>2. n \in 0 .. Len(hits)
  BY <1>1 DEF Min
<1>3. top = [i \in 1 .. n |-> hits[i]]
  BY <1>1, <1>2 DEF Top, Listed, Hits
<1> HIDE DEF n
<1>4. top \in Hits /\ Len(top) = n /\ DOMAIN top = 1 .. n
  BY <1>1, <1>2, <1>3 DEF Hits
<1>5. Listed(top)
  BY <1>1, <1>2, <1>3, <1>4 DEF Listed
<1>6. Descending(top)
  BY <1>1, <1>2, <1>3, <1>4 DEF Descending
<1>7. \A id : Rank(top, id) = IF Rank(hits, id) <= n THEN Rank(hits, id) ELSE n + 1
  <2> TAKE id
  <2>1. CASE Rank(hits, id) <= n
    <3>1. Rank(hits, id) \in 1 .. n /\ top[Rank(hits, id)].id = id
      BY <1>1, <1>2, <1>3, <2>1, RankIsThePlace
    <3> QED  BY <1>4, <1>5, <2>1, <3>1, RankIsThePlace
  <2>2. CASE ~(Rank(hits, id) <= n)
    <3>1. id \notin IdsOf(top)
      <4>1. SUFFICES ASSUME NEW i \in 1 .. n, top[i].id = id
                     PROVE  FALSE
        BY <1>4 DEF IdsOf
      <4>2. hits[i].id = id /\ i \in DOMAIN hits
        BY <1>1, <1>2, <1>3, <4>1
      <4>3. Rank(hits, id) = i
        BY <4>2, RankIsThePlace
      <4> QED  BY <1>2, <2>2, <4>3
    <3> QED  BY <1>4, <2>2, <3>1 DEF Rank
  <2> QED  BY <2>1, <2>2
<1>8. \A id : Rank(hits, id) \in Nat
  BY <1>1, RankIsThePlace
<1>9. ASSUME NEW a, NEW b, Rank(hits, a) <= Rank(hits, b)
      PROVE  Rank(top, a) <= Rank(top, b)
  BY <1>1, <1>2, <1>7, <1>8, <1>9
<1> QED  BY <1>5, <1>6, <1>9

IdsAt(hits, places) == {hits[i].id : i \in places}

ComesFrom(hits, a, o) == \A k \in 1 .. Len(a) : Rank(hits, a[k].id) = o[k]

LEMMA PickedIsListed ==
  ASSUME NEW hits, Listed(hits), NEW places \in SUBSET (DOMAIN hits), NEW a, NEW o,
         a \in Hits, Picks(a, hits, places, o),
         \A j, k \in 1 .. Len(a) : o[j] = o[k] => j = k
  PROVE  /\ Listed(a)
         /\ IdsOf(a) = IdsAt(hits, places)
         /\ ComesFrom(hits, a, o)
<1>1. DOMAIN a = 1 .. Len(a)
  BY HitsAreLists
<1>2. \A k \in DOMAIN a : o[k] \in places /\ o[k] \in DOMAIN hits /\ a[k] = hits[o[k]]
  BY <1>1 DEF Picks
<1>3. \A k \in DOMAIN a : Rank(hits, a[k].id) = o[k]
  BY <1>2, RankIsThePlace
<1>4. Listed(a)
  BY <1>1, <1>2 DEF Listed
<1>5. \A i \in places : \E k \in DOMAIN a : a[k].id = hits[i].id
  BY <1>1 DEF Picks
<1>6. IdsOf(a) = IdsAt(hits, places)
  BY <1>2, <1>5 DEF IdsOf, IdsAt
<1> QED  BY <1>1, <1>3, <1>4, <1>6 DEF ComesFrom

LEMMA AtKeepsTheOrder ==
  ASSUME NEW hits, Listed(hits), NEW S \in SUBSET (DOMAIN hits), NEW a, a = At(hits, S)
  PROVE  /\ Listed(a) /\ (Descending(hits) => Descending(a))
         /\ IdsOf(a) = IdsAt(hits, S)
         /\ \A x, y \in IdsOf(a) : Rank(hits, x) <= Rank(hits, y) => Rank(a, x) <= Rank(a, y)
<1>1. /\ Len(hits) \in Nat /\ DOMAIN hits = 1 .. Len(hits)
      /\ \A i \in 1 .. Len(hits) : hits[i] \in [id : Ids, score : Int]
  BY HitsAreLists DEF Listed
<1>2. a \in Hits /\ \E o : Picks(a, hits, S, o) /\ \A j, k \in 1 .. Len(a) : j < k => o[j] < o[k]
  <2>1. hits \in Seq([id : Ids, score : Int])
    BY DEF Listed, Hits
  <2> QED  BY <2>1, AtPicks DEF Hits
<1>3. PICK o : Picks(a, hits, S, o) /\ \A j, k \in 1 .. Len(a) : j < k => o[j] < o[k]
  BY <1>2
<1>4. Len(a) \in Nat /\ DOMAIN a = 1 .. Len(a)
  BY <1>2, HitsAreLists
<1>5. \A k \in 1 .. Len(a) : o[k] \in S /\ o[k] \in 1 .. Len(hits) /\ a[k] = hits[o[k]]
  BY <1>1, <1>3 DEF Picks
<1>6. \A j, k \in 1 .. Len(a) : o[j] = o[k] => j = k
  <2> TAKE j, k \in 1 .. Len(a)
  <2>1. (j < k => o[j] < o[k]) /\ (k < j => o[k] < o[j]) /\ o[j] \in Nat /\ o[k] \in Nat
    BY <1>3, <1>5
  <2> QED  BY <1>4, <2>1
<1>7. Listed(a) /\ IdsOf(a) = IdsAt(hits, S) /\ ComesFrom(hits, a, o)
  <2>1. Listed(hits) /\ S \in SUBSET (DOMAIN hits) /\ Picks(a, hits, S, o) /\ a \in Hits
    BY <1>2, <1>3
  <2> QED  BY ONLY <1>6, <2>1, PickedIsListed
<1>8. ASSUME Descending(hits)
      PROVE  Descending(a)
  <2> SUFFICES ASSUME NEW j \in 1 .. Len(a), NEW k \in 1 .. Len(a), j < k
               PROVE  a[j].score >= a[k].score
    BY <1>4 DEF Descending
  <2>1. o[j] < o[k]
    BY <1>3
  <2> QED  BY <1>1, <1>5, <1>8, <2>1 DEF Descending
<1>9. ASSUME NEW x \in IdsOf(a), NEW y \in IdsOf(a), Rank(hits, x) <= Rank(hits, y)
      PROVE  Rank(a, x) <= Rank(a, y)
  <2> DEFINE p == Rank(a, x)
             q == Rank(a, y)
  <2>1. p \in 1 .. Len(a) /\ a[p].id = x /\ q \in 1 .. Len(a) /\ a[q].id = y
    BY <1>4, <1>7, RankIsThePlace
  <2> HIDE DEF p, q
  <2>2. o[p] <= o[q] /\ o[p] \in Nat /\ o[q] \in Nat
    BY <1>5, <1>7, <1>9, <2>1 DEF ComesFrom
  <2>3. ~(q < p)
    BY <1>3, <2>1, <2>2
  <2>4. p <= q
    BY <1>4, <2>1, <2>3
  <2> QED  BY <2>4 DEF p, q
<1> QED  BY <1>7, <1>8, <1>9

LEMMA AtLeastKeepsTheOrder ==
  ASSUME NEW hits, Listed(hits), Descending(hits), NEW m \in Int, NEW a, a = AtLeast(hits, m)
  PROVE  /\ Listed(a) /\ Descending(a)
         /\ \A x, y : Rank(hits, x) <= Rank(hits, y) => Rank(a, x) <= Rank(a, y)
<1> DEFINE S == {i \in DOMAIN hits : hits[i].score >= m}
<1>1. /\ Len(hits) \in Nat /\ DOMAIN hits = 1 .. Len(hits)
      /\ \A i \in 1 .. Len(hits) : hits[i] \in [id : Ids, score : Int]
  BY HitsAreLists DEF Listed
<1>2. S \in SUBSET (DOMAIN hits) /\ a = At(hits, S)
  BY DEF AtLeast
<1>3. /\ Listed(a) /\ Descending(a) /\ IdsOf(a) = IdsAt(hits, S)
      /\ \A x, y \in IdsOf(a) : Rank(hits, x) <= Rank(hits, y) => Rank(a, x) <= Rank(a, y)
  <2> HIDE DEF S
  <2> QED  BY <1>2, AtKeepsTheOrder
<1>4. ASSUME NEW x, NEW y, Rank(hits, x) <= Rank(hits, y)
      PROVE  Rank(a, x) <= Rank(a, y)
  <2>1. Len(a) \in Nat /\ Rank(a, x) \in 1 .. Len(a) + 1
    BY <1>3, RankIsThePlace, HitsAreLists DEF Listed
  <2>2. CASE y \notin IdsOf(a)
    <3>1. Rank(a, y) = Len(a) + 1
      BY <2>2 DEF Rank
    <3> QED  BY <2>1, <3>1
  <2>3. CASE y \in IdsOf(a)
    <3> DEFINE p == Rank(hits, x)
    <3>1. PICK q \in S : hits[q].id = y
      BY <1>3, <2>3 DEF IdsAt
    <3>2. Rank(hits, y) = q /\ q \in 1 .. Len(hits)
      BY <1>1, <3>1, RankIsThePlace
    <3>3. p \in 1 .. Len(hits) + 1 /\ p <= q
      BY <1>4, <3>2, RankIsThePlace
    <3>4. p \in 1 .. Len(hits) /\ p <= Len(hits)
      BY <1>1, <3>2, <3>3
    <3>5. hits[p].id = x
      BY <3>4, RankIsThePlace
    <3> HIDE DEF p
    <3>6. hits[p].score >= hits[q].score
      <4>1. CASE p = q
        BY <1>1, <3>4, <4>1
      <4>2. CASE p < q
        BY <1>1, <3>2, <3>4, <4>2 DEF Descending
      <4> QED  BY <1>1, <3>2, <3>3, <4>1, <4>2
    <3>7. p \in S
      BY <1>1, <3>1, <3>2, <3>4, <3>6
    <3>8. x \in IdsOf(a)
      BY <1>3, <3>5, <3>7 DEF IdsAt
    <3> QED  BY <1>3, <1>4, <2>3, <3>8
  <2> QED  BY <2>2, <2>3
<1> QED  BY <1>3, <1>4

(* Sorting lists the same hits, the better ones and earlier ones first.     *)
LEMMA SortedIsListed ==
  ASSUME NEW hits, Listed(hits), NEW s, s = Sorted(hits)
  PROVE  /\ Listed(s) /\ Descending(s) /\ IdsOf(s) = IdsOf(hits)
         /\ \A i, j \in DOMAIN hits :
              hits[i].score >= hits[j].score /\ i <= j
                => Rank(s, hits[i].id) <= Rank(s, hits[j].id)
<1> DEFINE D == DOMAIN hits
<1>1. /\ Len(hits) \in Nat /\ D = 1 .. Len(hits)
      /\ \A i \in 1 .. Len(hits) : hits[i] \in [id : Ids, score : Int]
  BY HitsAreLists DEF Listed
<1>2. s \in Hits
      /\ \E o : /\ Picks(s, hits, D, o)
                /\ \A j, k \in 1 .. Len(s) : j < k =>
                        \/ s[j].score > s[k].score
                        \/ s[j].score = s[k].score /\ o[j] < o[k]
  <2> DEFINE R == [id : Ids, score : Int]
  <2>1. hits \in Seq(R) /\ s = Sorted(hits)
    BY DEF Listed, Hits
  <2>2. \A i \in DOMAIN hits : hits[i].score \in Int
    BY <1>1
  <2>3. Seq(R) = Hits
    BY DEF Hits
  <2> HIDE DEF R
  <2>4. s \in Seq(R)
        /\ \E o : /\ Picks(s, hits, DOMAIN hits, o)
                  /\ \A j, k \in 1 .. Len(s) : j < k =>
                        \/ s[j].score > s[k].score
                        \/ s[j].score = s[k].score /\ o[j] < o[k]
    BY ONLY <2>1, <2>2, SortedArranges
  <2> QED  BY <2>3, <2>4
<1>3. PICK o : /\ Picks(s, hits, D, o)
               /\ \A j, k \in 1 .. Len(s) : j < k =>
                        \/ s[j].score > s[k].score
                        \/ s[j].score = s[k].score /\ o[j] < o[k]
  BY <1>2
<1>4. /\ Len(s) \in Nat /\ DOMAIN s = 1 .. Len(s)
      /\ \A i \in 1 .. Len(s) : s[i] \in [id : Ids, score : Int]
  BY <1>2, HitsAreLists
<1>5. \A k \in 1 .. Len(s) : o[k] \in D /\ o[k] \in Nat /\ s[k] = hits[o[k]] /\ s[k].score \in Int
  <2> TAKE k \in 1 .. Len(s)
  <2>1. o[k] \in D /\ s[k] = hits[o[k]]
    BY <1>3 DEF Picks
  <2> QED  BY <1>1, <2>1
<1>6. \A j, k \in 1 .. Len(s) : o[j] = o[k] => j = k
  <2> SUFFICES ASSUME NEW j \in 1 .. Len(s), NEW k \in 1 .. Len(s), o[j] = o[k], j < k
               PROVE  FALSE
    BY <1>4
  <2>1. s[j] = s[k] /\ s[j].score \in Int /\ o[j] \in Nat
    BY <1>5
  <2> QED  BY <1>3, <2>1
<1>7. Listed(s) /\ IdsOf(s) = IdsAt(hits, D) /\ ComesFrom(hits, s, o)
  <2>1. D \in SUBSET (DOMAIN hits) /\ Listed(hits) /\ Picks(s, hits, D, o) /\ s \in Hits
    BY <1>2, <1>3
  <2> HIDE DEF D
  <2> QED  BY ONLY <1>6, <2>1, PickedIsListed
<1>8. Descending(s)
  <2> SUFFICES ASSUME NEW j \in 1 .. Len(s), NEW k \in 1 .. Len(s), j < k
               PROVE  s[j].score >= s[k].score
    BY <1>4 DEF Descending
  <2> QED  BY <1>3, <1>5
<1>9. ASSUME NEW i \in D, NEW j \in D, hits[i].score >= hits[j].score, i <= j
      PROVE  Rank(s, hits[i].id) <= Rank(s, hits[j].id)
  <2>1. PICK p \in 1 .. Len(s) : o[p] = i
    BY <1>3 DEF Picks
  <2>2. PICK q \in 1 .. Len(s) : o[q] = j
    BY <1>3 DEF Picks
  <2>3. s[p] = hits[i] /\ s[q] = hits[j]
    BY <1>5, <2>1, <2>2
  <2>4. Rank(s, hits[i].id) = p /\ Rank(s, hits[j].id) = q
    <3>1. Rank(s, s[p].id) = p /\ Rank(s, s[q].id) = q
      BY <1>4, <1>7, RankIsThePlace
    <3> QED  BY <2>3, <3>1
  <2>5. ~(q < p)
    <3>1. s[p].score \in Int /\ s[q].score \in Int /\ i \in Nat /\ j \in Nat
      BY <1>1, <1>5
    <3> QED  BY <1>3, <1>9, <2>1, <2>2, <2>3, <3>1
  <2> QED  BY <1>4, <2>1, <2>2, <2>4, <2>5
<1> QED  BY <1>7, <1>8, <1>9 DEF IdsOf, IdsAt

-------------------------------------------------------------------------------
(***************************************************************************)
(* Fusion.  The scores of an id in two lists that descend follow its ranks, *)
(* so that their sum does; ties fall to the order in which the dictionary   *)
(* lists the ids, which follows the ranks too.                              *)
(***************************************************************************)
Rescored(hits, score) == [i \in DOMAIN hits |-> [hits[i] EXCEPT !.score = score[i]]]

LEMMA RescoredIsListed ==
  ASSUME NEW u, Listed(u), NEW score \in [DOMAIN u -> Int], NEW w, w = Rescored(u, score)
  PROVE  /\ Listed(w) /\ DOMAIN w = DOMAIN u /\ IdsOf(w) = IdsOf(u)
         /\ \A i \in DOMAIN u : w[i].id = u[i].id /\ w[i].score = score[i]
         /\ \A id : Rank(w, id) = Rank(u, id)
<1>1. /\ Len(u) \in Nat /\ DOMAIN u = 1 .. Len(u)
      /\ \A i \in 1 .. Len(u) : u[i] \in [id : Ids, score : Int]
  BY HitsAreLists DEF Listed
<1>2. \A i \in DOMAIN u : /\ w[i] \in [id : Ids, score : Int]
                          /\ w[i].id = u[i].id /\ w[i].score = score[i]
  BY <1>1 DEF Rescored
<1>3. w \in Hits /\ Len(w) = Len(u) /\ DOMAIN w = DOMAIN u
  <2> DEFINE R == [id : Ids, score : Int]
  <2>1. \A i \in DOMAIN u : w[i] \in R
    BY <1>2
  <2>2. Hits = Seq(R)
    BY DEF Hits
  <2> HIDE DEF R
  <2>3. w \in [1 .. Len(u) -> R]
    BY <1>1, <2>1 DEF Rescored
  <2> QED  BY <1>1, <2>2, <2>3
<1>4. Listed(w)
  BY <1>2, <1>3 DEF Listed
<1>5. IdsOf(w) = IdsOf(u)
  BY <1>2, <1>3 DEF IdsOf
<1>6. ASSUME NEW id
      PROVE  Rank(w, id) = Rank(u, id)
  <2>1. CASE id \in IdsOf(u)
    <3> DEFINE i == Rank(u, id)
    <3>1. i \in DOMAIN u /\ u[i].id = id
      BY <1>1, <2>1, RankIsThePlace
    <3>2. w[i].id = id /\ i \in DOMAIN w
      BY <1>2, <1>3, <3>1
    <3> HIDE DEF i
    <3>3. Rank(w, id) = i
      BY <1>4, <3>2, RankIsThePlace
    <3> QED  BY <3>3 DEF i
  <2>2. CASE id \notin IdsOf(u)
    BY <1>3, <1>5, <2>2 DEF Rank
  <2> QED  BY <2>1, <2>2
<1> QED  BY <1>2, <1>3, <1>4, <1>5, <1>6

LEMMA ScoreIsThatOfItsPlace ==
  ASSUME NEW hits, Listed(hits)
  PROVE  /\ \A i \in DOMAIN hits : ScoreIn(hits, hits[i].id) = hits[i].score
         /\ \A id : id \notin IdsOf(hits) => ScoreIn(hits, id) = 0
         /\ \A id : ScoreIn(hits, id) \in Int
<1>1. /\ Len(hits) \in Nat /\ DOMAIN hits = 1 .. Len(hits)
      /\ \A i \in 1 .. Len(hits) : hits[i] \in [id : Ids, score : Int]
  BY HitsAreLists DEF Listed
<1>2. ASSUME NEW i \in DOMAIN hits
      PROVE  ScoreIn(hits, hits[i].id) = hits[i].score
  <2>1. hits[i].id \in IdsOf(hits)
    BY DEF IdsOf
  <2>2. hits[i] \in ToSet(hits) /\ \A h \in ToSet(hits) : h.id = hits[i].id => h = hits[i]
    BY DEF ToSet, Listed
  <2>3. (CHOOSE h \in ToSet(hits) : h.id = hits[i].id) = hits[i]
    BY <2>2
  <2> QED  BY <2>1, <2>3 DEF ScoreIn
<1>3. \A id : id \notin IdsOf(hits) => ScoreIn(hits, id) = 0
  BY DEF ScoreIn
<1>4. ASSUME NEW id
      PROVE  ScoreIn(hits, id) \in Int
  <2>1. CASE id \in IdsOf(hits)
    <3>1. PICK i \in DOMAIN hits : hits[i].id = id
      BY <2>1 DEF IdsOf
    <3> QED  BY <1>1, <1>2, <3>1
  <2> QED  BY <1>3, <2>1
<1> QED  BY <1>2, <1>3, <1>4

Rewarding(hits) ==
  Listed(hits) /\ Descending(hits) /\ \A i \in DOMAIN hits : hits[i].score >= 0

LEMMA ScoresFollowRanks ==
  ASSUME NEW hits, Rewarding(hits), NEW a, NEW b, Rank(hits, a) <= Rank(hits, b)
  PROVE  ScoreIn(hits, a) >= ScoreIn(hits, b)
<1>1. /\ Len(hits) \in Nat /\ DOMAIN hits = 1 .. Len(hits)
      /\ \A i \in 1 .. Len(hits) : hits[i] \in [id : Ids, score : Int]
  BY HitsAreLists DEF Listed, Rewarding
<1>2. Rank(hits, a) \in 1 .. Len(hits) + 1 /\ Rank(hits, b) \in 1 .. Len(hits) + 1
  BY RankIsThePlace DEF Rewarding
<1>3. CASE b \notin IdsOf(hits)
  <2>1. ScoreIn(hits, b) = 0
    BY <1>3, ScoreIsThatOfItsPlace DEF Rewarding
  <2>2. CASE a \in IdsOf(hits)
    <3>1. PICK i \in DOMAIN hits : hits[i].id = a
      BY <2>2 DEF IdsOf
    <3>2. ScoreIn(hits, a) = hits[i].score
      BY <3>1, ScoreIsThatOfItsPlace DEF Rewarding
    <3> QED  BY <2>1, <3>2 DEF Rewarding
  <2>3. CASE a \notin IdsOf(hits)
    BY <2>1, <2>3, ScoreIsThatOfItsPlace DEF Rewarding
  <2> QED  BY <2>2, <2>3
<1>4. CASE b \in IdsOf(hits)
  <2> DEFINE p == Rank(hits, a)
             q == Rank(hits, b)
  <2>1. q <= Len(hits)
    BY <1>4, RankIsThePlace DEF Rewarding
  <2>2. p <= Len(hits)
    BY <1>1, <1>2, <2>1
  <2>3. a \in IdsOf(hits)
    BY <2>2, RankIsThePlace DEF Rewarding
  <2>4. hits[p].id = a /\ hits[q].id = b
    BY <1>4, <2>3, RankIsThePlace DEF Rewarding
  <2>5. p \in DOMAIN hits /\ q \in DOMAIN hits /\ p <= q
    BY <1>1, <1>2, <2>1, <2>2
  <2> HIDE DEF p, q
  <2>6. ScoreIn(hits, a) = hits[p].score /\ ScoreIn(hits, b) = hits[q].score
    BY <2>4, <2>5, ScoreIsThatOfItsPlace DEF Rewarding
  <2>7. p = q \/ p < q
    BY <1>1, <2>5
  <2>8. hits[p].score >= hits[q].score
    BY <1>1, <2>5, <2>7 DEF Rewarding, Descending
  <2> QED  BY <2>6, <2>8
<1> QED  BY <1>3, <1>4

Better(v, f, a, b) ==
  a # b /\ Rank(v, a) <= Rank(v, b) /\ Rank(f, a) <= Rank(f, b)

LEMMA MergedIsListed ==
  ASSUME NEW v, Listed(v), NEW f, Listed(f), NEW m, m = Merged(v, f)
  PROVE  /\ Listed(m) /\ IdsOf(m) = IdsOf(v) \cup IdsOf(f)
         /\ \A a, b \in IdsOf(m) : Better(v, f, a, b) => Rank(m, a) <= Rank(m, b)
<1> DEFINE S == {i \in DOMAIN f : f[i].id \notin IdsOf(v)}
           r == At(f, S)
<1>1. /\ Len(v) \in Nat /\ DOMAIN v = 1 .. Len(v)
      /\ \A i \in 1 .. Len(v) : v[i] \in [id : Ids, score : Int]
  BY HitsAreLists DEF Listed
<1>2. S \in SUBSET (DOMAIN f) /\ m = v \o r
  BY DEF Merged
<1>3. /\ Listed(r) /\ IdsOf(r) = IdsAt(f, S)
      /\ \A x, y \in IdsOf(r) : Rank(f, x) <= Rank(f, y) => Rank(r, x) <= Rank(r, y)
  <2> HIDE DEF S
  <2> QED  BY <1>2, AtKeepsTheOrder
<1>4. \A id : id \in IdsOf(r) <=> id \in IdsOf(f) /\ id \notin IdsOf(v)
  BY <1>3 DEF IdsAt, IdsOf
<1> HIDE DEF S, r
<1>5. /\ Len(r) \in Nat /\ DOMAIN r = 1 .. Len(r)
      /\ \A i \in 1 .. Len(r) : r[i] \in [id : Ids, score : Int]
  BY <1>3, HitsAreLists DEF Listed
<1>6. /\ m \in Hits /\ DOMAIN m = 1 .. Len(v) + Len(r)
      /\ \A i \in 1 .. Len(v) : m[i] = v[i]
      /\ \A i \in 1 .. Len(r) : m[Len(v) + i] = r[i]
  <2> DEFINE R == [id : Ids, score : Int]
  <2>1. v \in Seq(R) /\ r \in Seq(R) /\ Hits = Seq(R)
    BY <1>3 DEF Listed, Hits
  <2> HIDE DEF R
  <2>2. m \in Seq(R) /\ Len(m) = Len(v) + Len(r)
    BY <1>2, <2>1
  <2>3. DOMAIN m = 1 .. Len(v) + Len(r)
    BY <2>2
  <2>4. \A i \in 1 .. Len(v) : m[i] = v[i]
    BY <1>1, <1>2, <1>5, <2>1
  <2>5. \A i \in 1 .. Len(r) : m[Len(v) + i] = r[i]
    BY <1>1, <1>2, <1>5, <2>1
  <2> QED  BY <2>1, <2>2, <2>3, <2>4, <2>5
<1>7. \A i \in DOMAIN m : \/ i \in 1 .. Len(v) /\ m[i] = v[i] /\ m[i].id \in IdsOf(v)
                          \/ /\ i > Len(v) /\ i - Len(v) \in 1 .. Len(r)
                             /\ m[i] = r[i - Len(v)] /\ m[i].id \in IdsOf(r)
  <2> TAKE i \in DOMAIN m
  <2>1. CASE i \in 1 .. Len(v)
    BY <1>1, <1>6, <2>1 DEF IdsOf
  <2>2. CASE i \notin 1 .. Len(v)
    <3>1. i > Len(v) /\ i - Len(v) \in 1 .. Len(r) /\ Len(v) + (i - Len(v)) = i
      BY <1>1, <1>5, <1>6, <2>2
    <3>2. m[i] = r[i - Len(v)]
      BY <1>6, <3>1
    <3> QED  BY <1>5, <3>1, <3>2 DEF IdsOf
  <2> QED  BY <2>1, <2>2
<1>8. Listed(m)
  <2>1. ASSUME NEW i \in DOMAIN m, NEW j \in DOMAIN m, m[i].id = m[j].id
        PROVE  i = j
    <3>1. CASE m[i].id \in IdsOf(v)
      BY <1>1, <1>4, <1>7, <2>1, <3>1 DEF Listed
    <3>2. CASE m[i].id \notin IdsOf(v)
      <4>1. r[i - Len(v)].id = r[j - Len(v)].id /\ i - Len(v) \in DOMAIN r /\ j - Len(v) \in DOMAIN r
        BY <1>5, <1>7, <2>1, <3>2
      <4>2. i - Len(v) = j - Len(v)
        BY <1>3, <4>1 DEF Listed
      <4> QED  BY <1>1, <1>5, <1>6, <4>2
    <3> QED  BY <3>1, <3>2
  <2> QED  BY <1>6, <2>1 DEF Listed
<1>9. \A id \in IdsOf(v) : id \in IdsOf(m) /\ Rank(m, id) = Rank(v, id)
  <2> TAKE id \in IdsOf(v)
  <2> DEFINE i == Rank(v, id)
  <2>1. i \in 1 .. Len(v) /\ v[i].id = id
    BY <1>1, RankIsThePlace
  <2> HIDE DEF i
  <2>2. i \in DOMAIN m /\ m[i].id = id
    BY <1>1, <1>5, <1>6, <2>1
  <2>3. Rank(m, id) = i /\ id \in IdsOf(m)
    BY <1>8, <2>2, RankIsThePlace
  <2> QED  BY <2>3 DEF i
<1>10. \A id \in IdsOf(r) : id \in IdsOf(m) /\ Rank(m, id) = Len(v) + Rank(r, id)
  <2> TAKE id \in IdsOf(r)
  <2> DEFINE i == Rank(r, id)
  <2>1. i \in 1 .. Len(r) /\ r[i].id = id
    BY <1>3, <1>5, RankIsThePlace
  <2> HIDE DEF i
  <2>2. Len(v) + i \in DOMAIN m /\ m[Len(v) + i].id = id
    BY <1>1, <1>5, <1>6, <2>1
  <2>3. Rank(m, id) = Len(v) + i /\ id \in IdsOf(m)
    BY <1>8, <2>2, RankIsThePlace
  <2> QED  BY <2>3 DEF i
<1>11. IdsOf(m) = IdsOf(v) \cup IdsOf(f)
  <2>1. \A id \in IdsOf(m) : id \in IdsOf(v) \/ id \in IdsOf(r)
    BY <1>7 DEF IdsOf
  <2> QED  BY <1>4, <1>9, <1>10, <2>1
<1>12. ASSUME NEW a \in IdsOf(m), NEW b \in IdsOf(m), Better(v, f, a, b)
       PROVE  Rank(m, a) <= Rank(m, b)
  <2>1. a # b /\ Rank(v, a) <= Rank(v, b) /\ Rank(f, a) <= Rank(f, b)
    BY <1>12 DEF Better
  <2>2. Rank(v, a) \in 1 .. Len(v) + 1 /\ Rank(v, b) \in 1 .. Len(v) + 1
    BY RankIsThePlace
  <2>3. Rank(r, a) \in 1 .. Len(r) + 1 /\ Rank(r, b) \in 1 .. Len(r) + 1
    BY <1>3, RankIsThePlace
  <2>4. CASE a \in IdsOf(v) /\ b \in IdsOf(v)
    BY <1>9, <2>1, <2>4
  <2>5. CASE a \in IdsOf(v) /\ b \notin IdsOf(v)
    <3>1. Rank(v, a) <= Len(v) /\ b \in IdsOf(r)
      BY <1>4, <1>11, <2>5, RankIsThePlace
    <3> QED  BY <1>1, <1>5, <1>9, <1>10, <2>2, <2>3, <2>5, <3>1
  <2>6. CASE a \notin IdsOf(v)
    <3>1. Rank(v, a) = Len(v) + 1
      BY <2>6 DEF Rank
    <3>2. ~(Rank(v, b) <= Len(v))
      BY <1>1, <2>1, <2>2, <3>1
    <3>3. b \notin IdsOf(v)
      BY <3>2, RankIsThePlace
    <3>4. a \in IdsOf(r) /\ b \in IdsOf(r)
      BY <1>4, <1>11, <2>6, <3>3
    <3>5. Rank(r, a) <= Rank(r, b)
      BY <1>3, <2>1, <3>4
    <3> QED  BY <1>1, <1>5, <1>10, <2>3, <3>4, <3>5
  <2> QED  BY <2>4, <2>5, <2>6
<1> QED  BY <1>8, <1>11, <1>12

LEMMA SumsKeepTheOrder ==
  ASSUME NEW v, Rewarding(v), NEW f, Rewarding(f), NEW s, s = Summed(v, f)
  PROVE  /\ Listed(s) /\ Descending(s) /\ IdsOf(s) = IdsOf(v) \cup IdsOf(f)
         /\ \A a, b \in IdsOf(s) : Better(v, f, a, b) => Rank(s, a) <= Rank(s, b)
<1> DEFINE all == Merged(v, f)
           score == [i \in DOMAIN all |-> Accumulated(v, f, all[i].id)]
           w == Rescored(all, score)
<1>1. Listed(v) /\ Listed(f)
  BY DEF Rewarding
<1>2. /\ Listed(all) /\ IdsOf(all) = IdsOf(v) \cup IdsOf(f)
      /\ \A a, b \in IdsOf(all) : Better(v, f, a, b) => Rank(all, a) <= Rank(all, b)
  BY <1>1, MergedIsListed
<1> HIDE DEF all
<1>3. \A id : Accumulated(v, f, id) \in Int
  BY <1>1, ScoreIsThatOfItsPlace DEF Accumulated
<1>4. score \in [DOMAIN all -> Int]
  BY <1>3
<1>5. s = Sorted(w)
  BY DEF Summed, Rescored, all
<1> HIDE DEF score, w
<1>6. /\ Listed(w) /\ DOMAIN w = DOMAIN all /\ IdsOf(w) = IdsOf(all)
      /\ \A i \in DOMAIN all : w[i].id = all[i].id /\ w[i].score = score[i]
      /\ \A id : Rank(w, id) = Rank(all, id)
  <2>1. Listed(all) /\ w = Rescored(all, score)
    BY <1>2 DEF w
  <2> QED  BY ONLY <1>4, <2>1, RescoredIsListed
<1>7. /\ Listed(s) /\ Descending(s) /\ IdsOf(s) = IdsOf(w)
      /\ \A i, j \in DOMAIN w :
           w[i].score >= w[j].score /\ i <= j => Rank(s, w[i].id) <= Rank(s, w[j].id)
  BY <1>5, <1>6, SortedIsListed
<1>8. ASSUME NEW a \in IdsOf(s), NEW b \in IdsOf(s), Better(v, f, a, b)
      PROVE  Rank(s, a) <= Rank(s, b)
  <2> DEFINE i == Rank(w, a)
             j == Rank(w, b)
  <2>1. i <= j
    BY <1>2, <1>6, <1>7, <1>8
  <2>2. i \in DOMAIN w /\ w[i].id = a /\ j \in DOMAIN w /\ w[j].id = b
    <3>1. \A id \in IdsOf(w) : Rank(w, id) \in DOMAIN w /\ w[Rank(w, id)].id = id
      <4>1. Len(w) \in Nat /\ DOMAIN w = 1 .. Len(w)
        BY <1>6, HitsAreLists DEF Listed
      <4> QED  BY <1>6, <4>1, RankIsThePlace
    <3> QED  BY <1>7, <3>1
  <2> HIDE DEF i, j
  <2>3. w[i].score = Accumulated(v, f, a) /\ w[j].score = Accumulated(v, f, b)
    BY <1>6, <2>2 DEF score
  <2>4. ScoreIn(v, a) >= ScoreIn(v, b) /\ ScoreIn(f, a) >= ScoreIn(f, b)
    BY <1>8, ScoresFollowRanks DEF Better
  <2>5. Accumulated(v, f, a) >= Accumulated(v, f, b)
    BY <1>1, <2>4, ScoreIsThatOfItsPlace DEF Accumulated
  <2> QED  BY <1>7, <2>1, <2>2, <2>3, <2>5
<1> QED  BY <1>2, <1>6, <1>7, <1>8

LEMMA LargerQuotients ==
  ASSUME NEW x \in Nat, NEW y \in Nat, x >= y, NEW c \in Nat \ {0}, NEW d \in Nat \ {0}, c <= d
  PROVE  x \div c \in Nat /\ x \div c >= y \div d
<1> DEFINE p == x \div c
           q == y \div d
<1>1. p \in Nat /\ q \in Nat /\ x < c * (p + 1) /\ d * q <= y
  OBVIOUS
<1> HIDE DEF p, q
<1>2. c * q <= d * q
  BY <1>1
<1>3. c * q < c * (p + 1)
  <2>1. c * q \in Int /\ d * q \in Int /\ c * (p + 1) \in Int
    BY <1>1
  <2> QED  BY <1>1, <1>2, <2>1
<1>4. ~(p + 1 <= q)
  <2>1. p + 1 <= q => c * (p + 1) <= c * q
    BY <1>1
  <2>2. c * q \in Int /\ c * (p + 1) \in Int
    BY <1>1
  <2> QED  BY <1>3, <2>1, <2>2
<1> QED  BY <1>1, <1>4 DEF p, q

(* What fusion makes of a list keeps its ids where they are.                *)
SamePlaces(w, u) == IdsOf(w) = IdsOf(u) /\ \A id : Rank(w, id) = Rank(u, id)

LEMMA ReciprocalRewards ==
  ASSUME NEW u, Listed(u), NEW w, w = Reciprocal(u)
  PROVE  Rewarding(w) /\ SamePlaces(w, u)
<1> DEFINE score == [i \in DOMAIN u |-> Unit \div (K + i)]
<1>1. Len(u) \in Nat /\ DOMAIN u = 1 .. Len(u)
  BY HitsAreLists DEF Listed
<1>2. \A i, j \in 1 .. Len(u) : i <= j => /\ Unit \div (K + i) \in Nat
                                          /\ Unit \div (K + i) >= Unit \div (K + j)
  <2> TAKE i, j \in 1 .. Len(u)
  <2> SUFFICES ASSUME i <= j
               PROVE  Unit \div (K + i) \in Nat /\ Unit \div (K + i) >= Unit \div (K + j)
    OBVIOUS
  <2> DEFINE c == K + i
             d == K + j
  <2>1. Unit \in Nat /\ Unit >= Unit /\ c \in Nat \ {0} /\ d \in Nat \ {0} /\ c <= d
    BY <1>1, FusionAssumption
  <2> HIDE DEF c, d
  <2>2. Unit \div c \in Nat /\ Unit \div c >= Unit \div d
    BY ONLY <2>1, LargerQuotients
  <2> QED  BY <2>2 DEF c, d
<1>3. score \in [DOMAIN u -> Int]
  BY <1>1, <1>2
<1>4. w = Rescored(u, score)
  BY DEF Reciprocal, Rescored
<1>5. \A i, j \in DOMAIN u : i <= j => score[i] >= 0 /\ score[i] >= score[j]
  BY <1>1, <1>2
<1> HIDE DEF score
<1>6. /\ Listed(w) /\ DOMAIN w = DOMAIN u /\ IdsOf(w) = IdsOf(u)
      /\ \A i \in DOMAIN u : w[i].id = u[i].id /\ w[i].score = score[i]
      /\ \A id : Rank(w, id) = Rank(u, id)
  BY <1>3, <1>4, RescoredIsListed
<1>7. Descending(w)
  BY <1>1, <1>5, <1>6 DEF Descending
<1>8. \A i \in DOMAIN w : w[i].score >= 0
  BY <1>1, <1>5, <1>6
<1> QED  BY <1>6, <1>7, <1>8 DEF Rewarding, SamePlaces

LEMMA NormalisedRewards ==
  ASSUME NEW u, Listed(u), Descending(u), NEW w, w = Normalised(u)
  PROVE  Rewarding(w) /\ SamePlaces(w, u)
<1> DEFINE scores == {u[i].score : i \in DOMAIN u}
           span == IF Cardinality(scores) > 1 THEN Max(scores) - Min(scores) ELSE 1
           score == [i \in DOMAIN u |-> ((u[i].score - Min(scores)) * Unit) \div span]
<1>1. /\ Len(u) \in Nat /\ DOMAIN u = 1 .. Len(u)
      /\ \A i \in 1 .. Len(u) : u[i] \in [id : Ids, score : Int]
  BY HitsAreLists DEF Listed
<1>2. w = Rescored(u, score)
  BY DEF Normalised, Rescored
<1>3. ASSUME NEW i \in DOMAIN u
      PROVE  /\ span \in Nat \ {0} /\ Min(scores) \in Int /\ u[i].score - Min(scores) \in Nat
  <2> DEFINE low == u[Len(u)].score
             high == u[1].score
  <2>1. /\ low \in scores /\ high \in scores /\ low \in Int /\ high \in Int
        /\ \A x \in scores : x \in Int /\ low <= x /\ x <= high
    <3>1. 1 \in DOMAIN u /\ Len(u) \in DOMAIN u
      BY <1>1
    <3>2. \A j \in DOMAIN u : /\ u[j].score \in Int /\ u[Len(u)].score <= u[j].score
                              /\ u[j].score <= u[1].score
      <4> TAKE j \in DOMAIN u
      <4>1. u[j].score \in Int /\ u[1].score \in Int /\ u[Len(u)].score \in Int
        BY <1>1, <3>1
      <4>2. (j = 1 \/ 1 < j) /\ (j = Len(u) \/ j < Len(u))
        BY <1>1
      <4> QED  BY <3>1, <4>1, <4>2 DEF Descending
    <3> QED  BY <3>1, <3>2
  <2> HIDE DEF low, high
  <2>2. Min(scores) = low /\ Max(scores) = high
    <3> HIDE DEF scores
    <3>1. \A x \in scores : (\A y \in scores : x <= y) => x = low
      BY <2>1
    <3>2. \A x \in scores : (\A y \in scores : x >= y) => x = high
      BY <2>1
    <3>3. \A y \in scores : low <= y /\ high >= y
      BY <2>1
    <3>4. Min(scores) = low
      BY <2>1, <3>1, <3>3 DEF Min
    <3>5. Max(scores) = high
      BY <2>1, <3>2, <3>3 DEF Max
    <3> QED  BY <3>4, <3>5
  <2>3. u[i].score \in scores
    OBVIOUS
  <2>4. Cardinality(scores) > 1 => low # high
    <3>1. SUFFICES ASSUME low = high
                   PROVE  Cardinality(scores) = 1
      OBVIOUS
    <3> HIDE DEF scores
    <3>2. \A x \in scores : x = low
      BY <2>1, <3>1
    <3>3. scores = {low}
      BY <2>1, <3>2
    <3> QED  BY <3>3, FS_Singleton
  <2>5. span \in Nat \ {0}
    <3>1. span = IF Cardinality(scores) > 1 THEN high - low ELSE 1
      BY <2>2
    <3> HIDE DEF span, scores
    <3>2. CASE Cardinality(scores) > 1
      BY <2>1, <2>4, <3>1, <3>2
    <3>3. CASE ~(Cardinality(scores) > 1)
      BY <3>1, <3>3
    <3> QED  BY <3>2, <3>3
  <2>6. Min(scores) \in Int /\ u[i].score - Min(scores) \in Nat
    <3> HIDE DEF scores
    <3>1. u[i].score \in Int /\ low \in Int /\ low <= u[i].score
      BY <2>1, <2>3
    <3>2. Min(scores) = low
      BY <2>2
    <3> QED  BY <3>1, <3>2
  <2> QED  BY <2>5, <2>6
<1>4. ASSUME NEW i \in DOMAIN u, NEW j \in DOMAIN u, i <= j
      PROVE  score[i] \in Nat /\ score[j] \in Nat /\ score[i] >= score[j]
  <2> DEFINE x == u[i].score - Min(scores)
             y == u[j].score - Min(scores)
  <2>1. span \in Nat \ {0} /\ x \in Nat /\ y \in Nat /\ Unit \in Nat
    BY <1>3, FusionAssumption
  <2>2. x >= y
    <3>1. u[i].score \in Int /\ u[j].score \in Int /\ Min(scores) \in Int /\ (i = j \/ i < j)
      BY <1>1, <1>3, <1>4
    <3>2. u[i].score >= u[j].score
      BY <1>4, <3>1 DEF Descending
    <3> HIDE DEF scores
    <3> QED  BY <3>1, <3>2
  <2>3. score[i] = (x * Unit) \div span /\ score[j] = (y * Unit) \div span
    OBVIOUS
  <2> HIDE DEF x, y, span, score, scores
  <2>4. x * Unit \in Nat /\ y * Unit \in Nat /\ x * Unit >= y * Unit
    BY <2>1, <2>2
  <2>5. (x * Unit) \div span \in Nat /\ (y * Unit) \div span \in Nat
    BY <2>1, <2>4, LargerQuotients
  <2>6. (x * Unit) \div span >= (y * Unit) \div span
    BY <2>1, <2>4, LargerQuotients
  <2> QED  BY <2>3, <2>5, <2>6
<1>5. score \in [DOMAIN u -> Int]
  <2>1. \A i \in DOMAIN u : score[i] \in Int
    <3> HIDE DEF score
    <3> QED  BY <1>1, <1>4
  <2> QED  BY <2>1
<1> HIDE DEF score, scores, span
<1>6. /\ Listed(w) /\ DOMAIN w = DOMAIN u /\ IdsOf(w) = IdsOf(u)
      /\ \A i \in DOMAIN u : w[i].id = u[i].id /\ w[i].score = score[i]
      /\ \A id : Rank(w, id) = Rank(u, id)
  BY <1>2, <1>5, RescoredIsListed
<1>7. Descending(w)
  BY <1>1, <1>4, <1>6 DEF Descending
<1>8. \A i \in DOMAIN w : w[i].score >= 0
  BY <1>1, <1>4, <1>6
<1> QED  BY <1>6, <1>7, <1>8 DEF Rewarding, SamePlaces

(* An answer keeps the order of two lists if better in both is not behind.  *)
KeepsTheOrder(answer, v, f) ==
  \A a, b \in IdsOf(v) \cup IdsOf(f) : Better(v, f, a, b) => Rank(answer, a) <= Rank(answer, b)

LEMMA FusionKeepsTheOrder ==
  ASSUME config.fusion \in Fusions \ {"cascade"}, NEW k \in Nat,
         NEW v, Listed(v), Descending(v), NEW f, Listed(f), Descending(f),
         NEW fused, fused = Fuse(v, f, k)
  PROVE  Listed(fused) /\ Descending(fused) /\ KeepsTheOrder(fused, v, f)
<1> DEFINE vv == IF config.fusion = "rrf" THEN Reciprocal(v) ELSE Normalised(v)
           ff == IF config.fusion = "rrf" THEN Reciprocal(f) ELSE Normalised(f)
           s == Summed(vv, ff)
<1>1. fused = Top(s, k)
  BY DEF Fuse, Fusions
<1>2. Rewarding(vv) /\ SamePlaces(vv, v) /\ Rewarding(ff) /\ SamePlaces(ff, f)
  BY ReciprocalRewards, NormalisedRewards
<1> HIDE DEF vv, ff
<1>3. /\ Listed(s) /\ Descending(s) /\ IdsOf(s) = IdsOf(vv) \cup IdsOf(ff)
      /\ \A a, b \in IdsOf(s) : Better(vv, ff, a, b) => Rank(s, a) <= Rank(s, b)
  BY <1>2, SumsKeepTheOrder
<1> HIDE DEF s
<1>4. /\ Listed(fused) /\ Descending(fused)
      /\ \A a, b : Rank(s, a) <= Rank(s, b) => Rank(fused, a) <= Rank(fused, b)
  BY <1>1, <1>3, TopKeepsTheOrder
<1>5. ASSUME NEW a \in IdsOf(v) \cup IdsOf(f), NEW b \in IdsOf(v) \cup IdsOf(f), Better(v, f, a, b)
      PROVE  Rank(fused, a) <= Rank(fused, b)
  <2>1. a \in IdsOf(s) /\ b \in IdsOf(s) /\ Better(vv, ff, a, b)
    BY <1>2, <1>3, <1>5 DEF SamePlaces, Better
  <2> QED  BY <1>3, <1>4, <2>1
<1> QED  BY <1>4, <1>5 DEF KeepsTheOrder

-------------------------------------------------------------------------------
(***************************************************************************)
(* What the recursive definitions compute: a fold goes through the states   *)
(* of a dictionary, flattening through the lists joined so far.             *)
(***************************************************************************)
Folds(g, store, recs, n) ==
  g = [s \in SUBSET (1 .. n) |-> IF s = {} THEN store ELSE Put(g[s \ {Max(s)}], recs[Max(s)])]

LEMMA FoldsExist ==
  ASSUME NEW store, NEW recs, NEW n \in Nat
  PROVE  \E g : Folds(g, store, recs, n)
<1> DEFINE Good == {k \in 0 .. n : \E g : Folds(g, store, recs, k)}
<1>1. 0 \in Good
  <2> DEFINE g == [s \in SUBSET (1 .. 0) |-> store]
  <2>1. \A s \in SUBSET (1 .. 0) : s = {}
    OBVIOUS
  <2>2. g = [s \in SUBSET (1 .. 0) |-> IF s = {} THEN store ELSE Put(g[s \ {Max(s)}], recs[Max(s)])]
    BY <2>1
  <2>3. Folds(g, store, recs, 0)
    BY <2>2 DEF Folds
  <2> QED  BY <2>3
<1>2. ASSUME NEW k \in 0 .. n - 1, k \in Good
      PROVE  k + 1 \in Good
  <2>1. PICK g : Folds(g, store, recs, k)
    BY <1>2
  <2> DEFINE S == SUBSET (1 .. k + 1)
             h == [s \in S |-> IF k + 1 \in s THEN Put(g[s \ {k + 1}], recs[k + 1]) ELSE g[s]]
  <2>2. ASSUME NEW s \in S
        PROVE  h[s] = IF s = {} THEN store ELSE Put(h[s \ {Max(s)}], recs[Max(s)])
    <3>1. CASE k + 1 \in s
      <4>1. Max(s) = k + 1
        <5>1. \A x \in s : k + 1 >= x /\ x \in Int
          OBVIOUS
        <5>2. \A x \in s : (\A y \in s : x >= y) => x = k + 1
          BY <3>1, <5>1
        <5> QED  BY <3>1, <5>1, <5>2 DEF Max
      <4>2. s \ {k + 1} \in S /\ k + 1 \notin s \ {k + 1} /\ s # {}
        BY <3>1
      <4>3. h[s \ {k + 1}] = g[s \ {k + 1}]
        BY <4>2
      <4> QED  BY <3>1, <4>1, <4>2, <4>3
    <3>2. CASE k + 1 \notin s
      <4>1. s \in SUBSET (1 .. k)
        BY <3>2
      <4>2. g[s] = IF s = {} THEN store ELSE Put(g[s \ {Max(s)}], recs[Max(s)])
        BY <2>1, <4>1 DEF Folds
      <4> DEFINE r == s \ {Max(s)}
      <4>3. r \in S /\ k + 1 \notin r
        BY <3>2
      <4>4. h[r] = g[r] /\ h[s] = g[s]
        BY <3>2, <4>3
      <4> QED  BY <4>2, <4>4
    <3> QED  BY <3>1, <3>2
  <2>3. h = [s \in S |-> h[s]]
    OBVIOUS
  <2> HIDE DEF h
  <2>4. h = [s \in S |-> IF s = {} THEN store ELSE Put(h[s \ {Max(s)}], recs[Max(s)])]
    BY <2>2, <2>3
  <2>5. Folds(h, store, recs, k + 1)
    BY <2>4 DEF Folds
  <2> QED  BY <2>5
<1>3. \A k \in 0 .. n : k \in Good
  <2> HIDE DEF Good
  <2> QED  BY <1>1, <1>2, UpTo
<1> QED  BY <1>3

(* The states of a dictionary while records are put into it.                *)
Puts(p, store, recs) ==
  /\ p[0] = store
  /\ \A n \in 1 .. Len(recs) : p[n] = Put(p[n - 1], recs[n])
  /\ PutAll(store, recs) = p[Len(recs)]

LEMMA PutAllPuts ==
  ASSUME NEW store, NEW recs, Len(recs) \in Nat, DOMAIN recs = 1 .. Len(recs)
  PROVE  \E p : Puts(p, store, recs)
<1> DEFINE N == Len(recs)
           g == CHOOSE g : Folds(g, store, recs, N)
           p == [n \in 0 .. N |-> g[1 .. n]]
<1>1. PutAll(store, recs) = g[1 .. N]
  BY DEF PutAll, FoldLeft, MapThenFoldSet, Folds
<1>2. Folds(g, store, recs, N)
  BY FoldsExist
<1> HIDE DEF g
<1>3. \A s \in SUBSET (1 .. N) : g[s] = IF s = {} THEN store ELSE Put(g[s \ {Max(s)}], recs[Max(s)])
  BY <1>2 DEF Folds
<1>4. p[0] = store
  <2>1. 1 .. 0 = {} /\ p[0] = g[1 .. 0]
    OBVIOUS
  <2> QED  BY <1>3, <2>1
<1>5. ASSUME NEW n \in 1 .. N
      PROVE  p[n] = Put(p[n - 1], recs[n])
  <2> DEFINE s == 1 .. n
  <2>1. n \in s /\ \A x \in s : n >= x /\ x \in Int
    OBVIOUS
  <2>2. Max(s) = n
    <3>1. \A x \in s : (\A y \in s : x >= y) => x = n
      BY <2>1
    <3> HIDE DEF s
    <3> QED  BY <2>1, <3>1 DEF Max
  <2>3. s \ {n} = 1 .. n - 1 /\ s # {} /\ s \in SUBSET (1 .. N)
    <3>1. \A x : x \in s \ {n} <=> x \in 1 .. n - 1
      OBVIOUS
    <3>2. s \ {n} = 1 .. n - 1
      BY <3>1
    <3>3. s \in SUBSET (1 .. N)
      OBVIOUS
    <3> QED  BY <2>1, <3>2, <3>3
  <2>4. g[s] = Put(g[1 .. n - 1], recs[n])
    <3> HIDE DEF s
    <3> QED  BY <1>3, <2>2, <2>3
  <2>5. p[n] = g[s] /\ p[n - 1] = g[1 .. n - 1]
    OBVIOUS
  <2> QED  BY <2>4, <2>5
<1>6. PutAll(store, recs) = p[N]
  BY <1>1
<1> HIDE DEF p
<1> QED  BY <1>4, <1>5, <1>6 DEF Puts

Flattens(g, seqs, n) ==
  g = [i \in 1 .. n |-> IF i = 1 THEN seqs[i] ELSE g[i - 1] \o seqs[i]]

LEMMA FlattensExist ==
  ASSUME NEW seqs, NEW n \in Nat
  PROVE  \E g : Flattens(g, seqs, n)
<1> DEFINE Good == {k \in 0 .. n : \E g : Flattens(g, seqs, k)}
<1>1. 0 \in Good
  <2> DEFINE g == [i \in 1 .. 0 |-> seqs[i]]
  <2>1. g = [i \in 1 .. 0 |-> IF i = 1 THEN seqs[i] ELSE g[i - 1] \o seqs[i]]
    OBVIOUS
  <2>2. Flattens(g, seqs, 0)
    BY <2>1 DEF Flattens
  <2> QED  BY <2>2
<1>2. ASSUME NEW k \in 0 .. n - 1, k \in Good
      PROVE  k + 1 \in Good
  <2>1. PICK g : Flattens(g, seqs, k)
    BY <1>2
  <2> DEFINE I == 1 .. k + 1
             h == [i \in I |-> IF i = k + 1 /\ i # 1 THEN g[k] \o seqs[i] ELSE IF i = 1 THEN seqs[i] ELSE g[i]]
  <2>2. ASSUME NEW i \in I
        PROVE  h[i] = IF i = 1 THEN seqs[i] ELSE h[i - 1] \o seqs[i]
    <3>1. CASE i = 1
      BY <3>1
    <3>2. CASE i # 1
      <4>1. i - 1 \in 1 .. k /\ i - 1 \in I /\ i - 1 # k + 1
        BY <3>2
      <4>2. \A j \in 1 .. k : g[j] = IF j = 1 THEN seqs[j] ELSE g[j - 1] \o seqs[j]
        BY <2>1 DEF Flattens
      <4>3. h[i - 1] = g[i - 1]
        <5>1. \A j \in 1 .. k : j \in I /\ j # k + 1
          OBVIOUS
        <5>2. \A j \in 1 .. k : h[j] = IF j = 1 THEN seqs[j] ELSE g[j]
          BY <5>1
        <5>3. \A j \in 1 .. k : h[j] = g[j]
          BY <4>2, <5>2
        <5> QED  BY <4>1, <5>3
      <4>4. CASE i = k + 1
        <5>1. h[i] = g[k] \o seqs[i]
          BY <3>2, <4>4
        <5>2. k = i - 1
          BY <4>4
        <5> QED  BY <3>2, <4>3, <5>1, <5>2
      <4>5. CASE i # k + 1
        <5>1. i \in 1 .. k /\ h[i] = g[i]
          BY <3>2, <4>5
        <5>2. g[i] = g[i - 1] \o seqs[i]
          BY <3>2, <4>2, <5>1
        <5> QED  BY <3>2, <4>3, <5>1, <5>2
      <4> QED  BY <4>4, <4>5
    <3> QED  BY <3>1, <3>2
  <2>3. h = [i \in I |-> h[i]]
    OBVIOUS
  <2> HIDE DEF h
  <2>4. h = [i \in I |-> IF i = 1 THEN seqs[i] ELSE h[i - 1] \o seqs[i]]
    BY <2>2, <2>3
  <2>5. Flattens(h, seqs, k + 1)
    BY <2>4 DEF Flattens
  <2> QED  BY <2>5
<1>3. \A k \in 0 .. n : k \in Good
  <2> HIDE DEF Good
  <2> QED  BY <1>1, <1>2, UpTo
<1> QED  BY <1>3

Joins(p, seqs) ==
  /\ p[0] = <<>>
  /\ \A n \in 1 .. Len(seqs) : p[n] = p[n - 1] \o seqs[n]
  /\ FlattenSeq(seqs) = p[Len(seqs)]

LEMMA FlattenSeqJoins ==
  ASSUME NEW R, NEW seqs \in Seq(Seq(R))
  PROVE  \E p : Joins(p, seqs) /\ \A n \in 0 .. Len(seqs) : p[n] \in Seq(R)
<1> DEFINE N == Len(seqs)
           g == CHOOSE g : Flattens(g, seqs, N)
           p == [n \in 0 .. N |-> IF n = 0 THEN <<>> ELSE g[n]]
<1>1. N \in Nat /\ \A i \in 1 .. N : seqs[i] \in Seq(R)
  OBVIOUS
<1>2. FlattenSeq(seqs) = IF N = 0 THEN seqs ELSE g[N]
  BY DEF FlattenSeq, Flattens
<1>3. Flattens(g, seqs, N)
  BY <1>1, FlattensExist
<1> HIDE DEF g
<1>4. \A i \in 1 .. N : g[i] = IF i = 1 THEN seqs[i] ELSE g[i - 1] \o seqs[i]
  BY <1>3 DEF Flattens
<1>5. p[0] = <<>>
  BY <1>1
<1>6. ASSUME NEW n \in 1 .. N
      PROVE  p[n] = p[n - 1] \o seqs[n]
  <2>1. CASE n = 1
    <3>1. p[n - 1] = <<>> /\ p[n] = seqs[n]
      BY <1>1, <1>4, <2>1
    <3>2. <<>> \o seqs[n] = seqs[n]
      BY <1>1, ConcatEmptySeq
    <3> QED  BY <3>1, <3>2
  <2>2. CASE n # 1
    <3>1. n - 1 \in 1 .. N /\ p[n] = g[n] /\ p[n - 1] = g[n - 1]
      BY <1>1, <2>2
    <3> QED  BY <1>4, <2>2, <3>1
  <2> QED  BY <2>1, <2>2
<1>7. FlattenSeq(seqs) = p[N]
  BY <1>1, <1>2
<1> DEFINE Good == {n \in 0 .. N : p[n] \in Seq(R)}
<1>8. \A n \in 0 .. N : n \in Good
  <2>1. 0 \in Good
    BY <1>1, <1>5
  <2>2. ASSUME NEW n \in 0 .. N - 1, n \in Good
        PROVE  n + 1 \in Good
    <3>1. n + 1 \in 1 .. N /\ (n + 1) - 1 = n /\ n + 1 \in 0 .. N
      BY <1>1
    <3>2. p[n + 1] = p[n] \o seqs[n + 1] /\ p[n] \in Seq(R) /\ seqs[n + 1] \in Seq(R)
      BY <1>1, <1>6, <2>2, <3>1
    <3> HIDE DEF p
    <3>3. p[n + 1] \in Seq(R)
      BY <3>2
    <3> QED  BY <3>1, <3>3
  <2> HIDE DEF Good
  <2> QED  BY <1>1, <2>1, <2>2, UpTo
<1> HIDE DEF p
<1> QED  BY <1>5, <1>6, <1>7, <1>8 DEF Joins

-------------------------------------------------------------------------------
(***************************************************************************)
(* Dictionaries.  Putting a list of records keeps one record for an id:     *)
(* the last of them, or the one that was there if the list has none.        *)
(***************************************************************************)
Dictionary(store) ==
  /\ store \in Seq(Records)
  /\ \A i, j \in DOMAIN store : store[i].id = store[j].id => i = j

LEMMA PutKeepsTheOthers ==
  ASSUME NEW store, Dictionary(store), NEW rec \in Records, NEW d, d = Put(store, rec)
  PROVE  /\ Dictionary(d) /\ rec \in ToSet(d)
         /\ \A r \in ToSet(store) : r.id # rec.id => r \in ToSet(d)
<1>1. store \in Seq(Records) /\ Len(store) \in Nat /\ DOMAIN store = 1 .. Len(store)
  BY DEF Dictionary
<1>2. CASE \E i \in DOMAIN store : store[i].id = rec.id
  <2>1. PICK i \in DOMAIN store : store[i].id = rec.id
    BY <1>2
  <2>2. d = [j \in 1 .. Len(store) |-> IF store[j].id = rec.id THEN rec ELSE store[j]]
    BY <1>1, <1>2 DEF Put
  <2>3. d \in Seq(Records) /\ DOMAIN d = 1 .. Len(store)
    <3> HIDE DEF Records
    <3>1. \A j \in 1 .. Len(store) : d[j] \in Records
      BY <1>1, <2>2
    <3> QED  BY <1>1, <2>2, <3>1
  <2>4. \A j \in 1 .. Len(store) : d[j].id = store[j].id
    BY <2>2
  <2>5. Dictionary(d)
    BY <1>1, <2>3, <2>4 DEF Dictionary
  <2>6. rec \in ToSet(d)
    BY <1>1, <2>1, <2>2, <2>3 DEF ToSet
  <2>7. \A r \in ToSet(store) : r.id # rec.id => r \in ToSet(d)
    BY <1>1, <2>2, <2>3 DEF ToSet
  <2> QED  BY <2>5, <2>6, <2>7
<1>3. CASE ~(\E i \in DOMAIN store : store[i].id = rec.id)
  <2>1. d = Append(store, rec)
    BY <1>3 DEF Put
  <2>2. /\ d \in Seq(Records) /\ DOMAIN d = 1 .. Len(store) + 1
        /\ \A j \in 1 .. Len(store) : d[j] = store[j]
        /\ d[Len(store) + 1] = rec
    <3> HIDE DEF Records
    <3> QED  BY <1>1, <2>1
  <2>3. \A j \in DOMAIN d : j \in DOMAIN store \/ j = Len(store) + 1
    BY <1>1, <2>2
  <2>4. Dictionary(d)
    BY <1>1, <1>3, <2>2, <2>3 DEF Dictionary
  <2>5. rec \in ToSet(d)
    <3>1. Len(store) + 1 \in DOMAIN d
      BY <1>1, <2>2
    <3> QED  BY <2>2, <3>1 DEF ToSet
  <2>6. \A r \in ToSet(store) : r \in ToSet(d)
    BY <1>1, <2>2 DEF ToSet
  <2> QED  BY <2>4, <2>5, <2>6
<1> QED  BY <1>2, <1>3

(* The last record of a list with its id.                                   *)
LastWithItsId(recs, r) ==
  \E n \in DOMAIN recs : recs[n] = r /\ \A m \in DOMAIN recs : m > n => recs[m].id # r.id

LEMMA PutAllKeepsTheLast ==
  ASSUME NEW store, Dictionary(store), NEW recs \in Seq(Records), NEW d, d = PutAll(store, recs)
  PROVE  /\ Dictionary(d)
         /\ \A r \in ToSet(store) : (\A i \in DOMAIN recs : recs[i].id # r.id) => r \in ToSet(d)
         /\ \A r : LastWithItsId(recs, r) => r \in ToSet(d)
<1> DEFINE N == Len(recs)
           Kept(s) == \A r \in ToSet(store) : (\A i \in 1 .. N : recs[i].id # r.id) => r \in ToSet(s)
           Has(s, k) == \A n \in 1 .. k : (\A m \in 1 .. N : m > n => recs[m].id # recs[n].id)
                                            => recs[n] \in ToSet(s)
<1>1. N \in Nat /\ DOMAIN recs = 1 .. N /\ \A n \in 1 .. N : recs[n] \in Records
  OBVIOUS
<1>2. PICK p : Puts(p, store, recs)
  BY <1>1, PutAllPuts
<1> DEFINE Good == {k \in 0 .. N : Dictionary(p[k]) /\ Kept(p[k]) /\ Has(p[k], k)}
<1>3. \A k \in 0 .. N : k \in Good
  <2>1. 0 \in Good
    BY <1>1, <1>2 DEF Puts
  <2>2. ASSUME NEW k \in 0 .. N - 1, k \in Good
        PROVE  k + 1 \in Good
    <3>1. k + 1 \in 1 .. N /\ (k + 1) - 1 = k /\ k + 1 \in 0 .. N /\ k \in 0 .. N
      BY <1>1
    <3>2. p[k + 1] = Put(p[k], recs[k + 1]) /\ recs[k + 1] \in Records
      BY <1>1, <1>2, <3>1 DEF Puts
    <3>3. /\ Dictionary(p[k + 1]) /\ recs[k + 1] \in ToSet(p[k + 1])
          /\ \A r \in ToSet(p[k]) : r.id # recs[k + 1].id => r \in ToSet(p[k + 1])
      <4>1. Dictionary(p[k])
        BY <2>2
      <4> QED  BY <3>2, <4>1, PutKeepsTheOthers
    <3>4. Kept(p[k + 1])
      <4>1. Kept(p[k])
        BY <2>2
      <4> QED  BY <3>1, <3>3, <4>1
    <3>5. Has(p[k + 1], k + 1)
      <4> SUFFICES ASSUME NEW n \in 1 .. k + 1, \A m \in 1 .. N : m > n => recs[m].id # recs[n].id
                   PROVE  recs[n] \in ToSet(p[k + 1])
        OBVIOUS
      <4>1. CASE n = k + 1
        BY <3>3, <4>1
      <4>2. CASE n # k + 1
        <5>1. n \in 1 .. k /\ k + 1 > n
          BY <3>1, <4>2
        <5>2. recs[n] \in ToSet(p[k])
          <6>1. Has(p[k], k)
            BY <2>2
          <6> QED  BY <5>1, <6>1
        <5>3. recs[k + 1].id # recs[n].id
          BY <3>1, <5>1
        <5> QED  BY <3>3, <5>2, <5>3
      <4> QED  BY <4>1, <4>2
    <3> HIDE DEF Kept, Has
    <3> QED  BY <3>1, <3>3, <3>4, <3>5
  <2> HIDE DEF Good
  <2> QED  BY <1>1, <2>1, <2>2, UpTo
<1>4. Dictionary(p[N]) /\ Kept(p[N]) /\ Has(p[N], N) /\ d = p[N]
  <2>1. N \in 0 .. N
    BY <1>1
  <2> HIDE DEF Kept, Has
  <2> QED  BY <1>2, <1>3, <2>1 DEF Puts
<1>5. ASSUME NEW r, LastWithItsId(recs, r)
      PROVE  r \in ToSet(d)
  BY <1>1, <1>4, <1>5 DEF LastWithItsId
<1> QED  BY <1>1, <1>4, <1>5

(* What a dictionary has at some of its places is a dictionary.             *)
LEMMA AtIsADictionary ==
  ASSUME NEW store, Dictionary(store), NEW S \in SUBSET (DOMAIN store), NEW d, d = At(store, S)
  PROVE  /\ Dictionary(d)
         /\ \A k \in DOMAIN d : \E i \in S : d[k] = store[i]
<1>1. store \in Seq(Records) /\ Len(store) \in Nat /\ DOMAIN store = 1 .. Len(store)
  BY DEF Dictionary
<1>2. d \in Seq(Records)
      /\ \E o : Picks(d, store, S, o) /\ \A j, k \in 1 .. Len(d) : j < k => o[j] < o[k]
  <2> HIDE DEF Records
  <2> QED  BY <1>1, AtPicks
<1>3. PICK o : Picks(d, store, S, o) /\ \A j, k \in 1 .. Len(d) : j < k => o[j] < o[k]
  BY <1>2
<1>4. Len(d) \in Nat /\ DOMAIN d = 1 .. Len(d)
  BY <1>2
<1>5. \A k \in 1 .. Len(d) : o[k] \in S /\ o[k] \in 1 .. Len(store) /\ d[k] = store[o[k]]
  BY <1>1, <1>3 DEF Picks
<1>6. ASSUME NEW j \in 1 .. Len(d), NEW k \in 1 .. Len(d), d[j].id = d[k].id
      PROVE  j = k
  <2>1. o[j] = o[k] /\ o[j] \in Nat
    BY <1>1, <1>5, <1>6 DEF Dictionary
  <2>2. ~(j < k) /\ ~(k < j)
    BY <1>3, <1>5, <2>1
  <2> QED  BY <1>4, <2>2
<1>7. Dictionary(d)
  BY <1>2, <1>4, <1>6 DEF Dictionary
<1> QED  BY <1>4, <1>5, <1>7

-------------------------------------------------------------------------------
(***************************************************************************)
(* Splitting.  The chunks of a text cover it: the last multiple of the step *)
(* up to a character begins a chunk that reaches it, or an earlier chunk    *)
(* reaches the end.                                                         *)
(***************************************************************************)
LEMMA QuotientsAndRemainders ==
  ASSUME NEW s \in Nat \ {0}, NEW x \in Nat
  PROVE  x \div s \in Nat /\ x % s \in 0 .. s - 1 /\ x = s * (x \div s) + (x % s)
OBVIOUS

LEMMA MultiplesDivide ==
  ASSUME NEW s \in Nat \ {0}, NEW x \in Nat, NEW m, m = s * (x \div s)
  PROVE  m \in 0 .. x /\ x < m + s /\ m % s = 0
<1> DEFINE q == x \div s
           p == m \div s
           r == m % s
<1>1. q \in Nat /\ x = s * q + (x % s) /\ x % s \in 0 .. s - 1
  BY QuotientsAndRemainders
<1>2. m = s * q /\ s * q \in Nat
  <2>1. m = s * q
    OBVIOUS
  <2> HIDE DEF q
  <2>2. s * q \in Nat
    BY <1>1
  <2> QED  BY <2>1, <2>2
<1>3. p \in Nat /\ m = s * p + r /\ r \in 0 .. s - 1
  BY <1>2
<1> HIDE DEF p, q, r
<1>4. s * q = s * p + r
  BY <1>2, <1>3
<1>5. ~(q >= p + 1)
  <2>1. q >= p + 1 => s * q >= s * (p + 1)
    BY <1>1, <1>3
  <2>2. s * (p + 1) = s * p + s /\ s * p \in Nat /\ s * q \in Nat
    BY <1>1, <1>3
  <2> QED  BY <1>3, <1>4, <2>1, <2>2
<1>6. ~(p >= q + 1)
  <2>1. p >= q + 1 => s * p >= s * (q + 1)
    BY <1>1, <1>3
  <2>2. s * (q + 1) = s * q + s /\ s * p \in Nat /\ s * q \in Nat
    BY <1>1, <1>3
  <2> QED  BY <1>3, <1>4, <2>1, <2>2
<1>7. r = 0
  <2>1. p = q
    BY <1>1, <1>3, <1>5, <1>6
  <2>2. s * p \in Nat
    BY <1>3
  <2> QED  BY <1>3, <1>4, <2>1, <2>2
<1>8. m \in 0 .. x /\ x < m + s
  BY <1>1, <1>2
<1> QED  BY <1>7, <1>8 DEF r

LEMMA StepsAreSmall ==
  ASSUME config \in Configs
  PROVE  /\ config.size \in Nat \ {0} /\ config.overlap \in Nat
         /\ Step \in Nat \ {0} /\ Step <= config.size
BY ConfigsAssumption DEF Step

LEMMA StartsCover ==
  ASSUME config \in Configs, NEW length \in Nat, NEW c \in 0 .. length - 1
  PROVE  \E i \in 0 .. length - 1 :
           IsStart(i, length) /\ i <= c /\ (c < i + config.size \/ length <= i + config.size)
<1>1. config.size \in Nat \ {0} /\ Step \in Nat \ {0} /\ Step <= config.size
  BY StepsAreSmall
<1> DEFINE m == Step * (c \div Step)
<1>2. m \in 0 .. c /\ c < m + Step /\ m % Step = 0
  <2>1. c \in Nat /\ Step \in Nat \ {0}
    BY <1>1
  <2> QED  BY <2>1, MultiplesDivide
<1> HIDE DEF m
<1>3. CASE IsStart(m, length)
  BY <1>1, <1>2, <1>3
<1>4. CASE ~IsStart(m, length)
  <2> DEFINE Reaching == {j \in 0 .. length - 1 : j % Step = 0 /\ j <= c /\ length <= j + config.size}
  <2>1. PICK j \in 0 .. m - 1 : j % Step = 0 /\ ~(j + config.size < length)
    BY <1>1, <1>2, <1>4 DEF IsStart
  <2>2. j \in Reaching
    BY <1>1, <1>2, <2>1
  <2>3. PICK i \in Reaching : \A k \in Reaching : i <= k
    <3>1. Reaching \in SUBSET Nat /\ Reaching # {}
      BY <2>2
    <3> HIDE DEF Reaching
    <3> QED  BY <3>1, LeastExists
  <2>4. ASSUME NEW k \in 0 .. i - 1, k % Step = 0
        PROVE  k + config.size < length
    <3>1. k \notin Reaching
      BY <2>3
    <3>2. k \in 0 .. length - 1 /\ k <= c
      BY <2>3
    <3> QED  BY <1>1, <2>4, <3>1, <3>2
  <2>5. IsStart(i, length)
    BY <2>3, <2>4 DEF IsStart
  <2> QED  BY <2>3, <2>5
<1> QED  BY <1>3, <1>4

(* The records of a document have its id and version, and an id each.       *)
Splits(s, doc) ==
  /\ s \in Seq(Records) /\ s # <<>>
  /\ \A k \in DOMAIN s : /\ s[k].id[1] = doc.id
                         /\ s[k].text.doc = doc.id /\ s[k].text.version = doc.version
  /\ \A j, k \in DOMAIN s : s[j].id = s[k].id => j = k
  /\ \A c \in 0 .. doc.length - 1 : \E k \in DOMAIN s : s[k].text.from <= c /\ c < s[k].text.to

LEMMA RecordsAreTyped ==
  ASSUME NEW doc \in Documents, NEW k \in Int, NEW from \in 0 .. doc.length, NEW to \in 0 .. doc.length,
         NEW parent \in {"none"} \cup DocumentIds
  PROVE  Record(doc, k, from, to, parent) \in Records
<1>1. doc.id \in DocumentIds
  BY DEF DocumentIds
<1>2. Text(doc, from, to) \in Texts
  BY DEF Texts, TextsOf
<1> QED  BY <1>1, <1>2 DEF Record, Records, Ids

LEMMA SplitCovers ==
  ASSUME config \in Configs, NEW doc \in Documents
  PROVE  Splits(Split(doc), doc)
<1> DEFINE S == {i \in 0 .. doc.length - 1 : IsStart(i, doc.length)}
           starts == Ascending(S)
           end(i) == IF i + config.size < doc.length THEN i + config.size ELSE doc.length
           N == Cardinality(S)
           s == Split(doc)
<1>1. doc.length \in Nat /\ config.size \in Nat \ {0}
  BY DocumentsAssumption, StepsAreSmall
<1>2. S \in SUBSET Nat /\ IsFiniteSet(S)
  <2>1. S \in SUBSET (0 .. doc.length - 1)
    OBVIOUS
  <2>2. IsFiniteSet(0 .. doc.length - 1)
    <3>1. 0 \in Int /\ doc.length - 1 \in Int
      BY <1>1
    <3> QED  BY <3>1, FS_Interval
  <2> HIDE DEF S
  <2>3. IsFiniteSet(S)
    BY <2>1, <2>2, FS_Subset
  <2> QED  BY <2>1, <2>3
<1>3. /\ N \in Nat /\ starts \in [1 .. N -> S]
      /\ \A i \in S : \E k \in 1 .. N : starts[k] = i
      /\ \A j, k \in 1 .. N : j < k => starts[j] < starts[k]
  <2> HIDE DEF S
  <2> QED  BY <1>2, AscendingLists
<1>4. s = IF ~config.split \/ starts = <<>> THEN <<Record(doc, Whole, 0, doc.length, "none")>>
          ELSE [k \in DOMAIN starts |-> Record(doc, k - 1, starts[k], end(starts[k]), doc.id)]
  BY DEF Split
<1>5. \A c \in 0 .. doc.length - 1 :
        \E i \in S : i <= c /\ (c < i + config.size \/ doc.length <= i + config.size)
  BY <1>1, StartsCover
<1>6. \A i \in S : i \in 0 .. doc.length - 1
  OBVIOUS
<1> HIDE DEF S, starts, N, s
<1>7. CASE ~config.split \/ starts = <<>>
  <2> DEFINE rec == Record(doc, Whole, 0, doc.length, "none")
  <2>1. s = <<rec>>
    BY <1>4, <1>7
  <2>2. rec \in Records
    BY <1>1, RecordsAreTyped DEF Whole
  <2>3. /\ rec.id[1] = doc.id /\ rec.text.doc = doc.id /\ rec.text.version = doc.version
        /\ rec.text.from = 0 /\ rec.text.to = doc.length
    BY DEF Record, Text
  <2> HIDE DEF rec
  <2>4. s \in Seq(Records) /\ s # <<>> /\ DOMAIN s = {1} /\ s[1] = rec
    <3> HIDE DEF Records
    <3> QED  BY <2>1, <2>2
  <2>5. \A c \in 0 .. doc.length - 1 : \E k \in DOMAIN s : s[k].text.from <= c /\ c < s[k].text.to
    BY <1>1, <2>3, <2>4
  <2>6. \A j, k \in DOMAIN s : j = k
    BY <2>4
  <2> QED  BY <2>3, <2>4, <2>5, <2>6 DEF Splits, s
<1>8. CASE config.split /\ starts # <<>>
  <2>1. s = [k \in 1 .. N |-> Record(doc, k - 1, starts[k], end(starts[k]), doc.id)]
    BY <1>3, <1>4, <1>8
  <2>2. \A k \in 1 .. N : /\ starts[k] \in S /\ starts[k] \in 0 .. doc.length
                          /\ end(starts[k]) \in 0 .. doc.length
    <3>1. \A i \in S : i \in 0 .. doc.length /\ end(i) \in 0 .. doc.length
      BY <1>1, <1>6
    <3> HIDE DEF end
    <3> QED  BY <1>3, <3>1
  <2>3. \A k \in 1 .. N : s[k] \in Records
    <3>1. doc.id \in {"none"} \cup DocumentIds
      BY DEF DocumentIds
    <3> HIDE DEF end
    <3> TAKE k \in 1 .. N
    <3>2. k - 1 \in Int /\ starts[k] \in 0 .. doc.length /\ end(starts[k]) \in 0 .. doc.length
      BY <1>3, <2>2
    <3>3. Record(doc, k - 1, starts[k], end(starts[k]), doc.id) \in Records
      BY ONLY <3>1, <3>2, doc \in Documents, RecordsAreTyped
    <3> QED  BY <2>1, <3>3
  <2>4. \A k \in 1 .. N : /\ s[k].id = <<doc.id, k - 1>>
                          /\ s[k].text.doc = doc.id /\ s[k].text.version = doc.version
                          /\ s[k].text.from = starts[k] /\ s[k].text.to = end(starts[k])
    <3> HIDE DEF end
    <3> QED  BY <2>1 DEF Record, Text
  <2>5. N # 0
    <3>1. N = 0 => starts = <<>>
      BY <1>3
    <3> QED  BY <1>8, <3>1
  <2>6. s \in Seq(Records) /\ DOMAIN s = 1 .. N /\ s # <<>>
    <3> HIDE DEF Records, end
    <3>1. s \in Seq(Records) /\ Len(s) = N
      BY <1>3, <2>1, <2>3
    <3> QED  BY <1>3, <2>5, <3>1
  <2>7. \A k \in DOMAIN s : /\ s[k].id[1] = doc.id
                            /\ s[k].text.doc = doc.id /\ s[k].text.version = doc.version
    BY <2>4, <2>6
  <2>8. \A j, k \in DOMAIN s : s[j].id = s[k].id => j = k
    <3> TAKE j, k \in DOMAIN s
    <3>1. s[j].id[2] = j - 1 /\ s[k].id[2] = k - 1 /\ j \in Int /\ k \in Int
      BY <1>3, <2>4, <2>6
    <3> QED  BY <3>1
  <2>9. ASSUME NEW c \in 0 .. doc.length - 1
        PROVE  \E k \in DOMAIN s : s[k].text.from <= c /\ c < s[k].text.to
    <3>1. PICK i \in S : i <= c /\ (c < i + config.size \/ doc.length <= i + config.size)
      BY <1>5
    <3>2. PICK k \in 1 .. N : starts[k] = i
      BY <1>3
    <3>3. c < end(i)
      BY <1>1, <1>6, <3>1
    <3> HIDE DEF end
    <3> QED  BY <2>4, <2>6, <3>1, <3>2, <3>3
  <2> QED  BY <2>6, <2>7, <2>8, <2>9 DEF Splits, s
<1> QED  BY <1>7, <1>8

Both(ab, a, b) == a \in Seq(Records) /\ b \in Seq(Records) /\ ab = a \o b

LEMMA LastOfBoth ==
  ASSUME NEW a, NEW b, NEW ab, Both(ab, a, b), NEW r
  PROVE  /\ \A n \in DOMAIN ab : ab[n] \in ToSet(a) \cup ToSet(b)
         /\ LastWithItsId(b, r) => LastWithItsId(ab, r)
         /\ LastWithItsId(a, r) /\ (\A m \in DOMAIN b : b[m].id # r.id) => LastWithItsId(ab, r)
<1> DEFINE A == Len(a)
           B == Len(b)
<1>1. A \in Nat /\ B \in Nat /\ DOMAIN a = 1 .. A /\ DOMAIN b = 1 .. B
  BY DEF Both
<1>2. /\ DOMAIN ab = 1 .. A + B
      /\ \A n \in 1 .. A : ab[n] = a[n]
      /\ \A n \in 1 .. B : ab[A + n] = b[n]
  <2> HIDE DEF Records
  <2>1. ab \in Seq(Records) /\ Len(ab) = A + B
    BY DEF Both
  <2>2. DOMAIN ab = 1 .. A + B
    BY <2>1
  <2>3. \A n \in 1 .. A : ab[n] = a[n]
    BY <1>1 DEF Both
  <2>4. \A n \in 1 .. B : ab[A + n] = b[n]
    BY <1>1 DEF Both
  <2> QED  BY <2>2, <2>3, <2>4
<1> HIDE DEF A, B
<1>3. \A n \in DOMAIN ab : \/ n \in 1 .. A /\ ab[n] = a[n]
                           \/ n > A /\ n - A \in 1 .. B /\ ab[n] = b[n - A]
  <2> TAKE n \in DOMAIN ab
  <2>1. CASE n \in 1 .. A
    BY <1>2, <2>1
  <2>2. CASE n \notin 1 .. A
    <3>1. n > A /\ n - A \in 1 .. B /\ A + (n - A) = n
      BY <1>1, <1>2, <2>2
    <3> QED  BY <1>2, <3>1
  <2> QED  BY <2>1, <2>2
<1>4. \A n \in DOMAIN ab : ab[n] \in ToSet(a) \cup ToSet(b)
  BY <1>1, <1>3 DEF ToSet
<1>5. ASSUME LastWithItsId(b, r)
      PROVE  LastWithItsId(ab, r)
  <2>1. PICK n \in 1 .. B : b[n] = r /\ \A m \in 1 .. B : m > n => b[m].id # r.id
    BY <1>1, <1>5 DEF LastWithItsId
  <2>2. A + n \in DOMAIN ab /\ ab[A + n] = r
    BY <1>1, <1>2, <2>1
  <2>3. ASSUME NEW m \in DOMAIN ab, m > A + n
        PROVE  ab[m].id # r.id
    <3>1. m - A \in 1 .. B /\ m - A > n /\ ab[m] = b[m - A]
      BY <1>1, <1>2, <1>3, <2>3
    <3> QED  BY <2>1, <3>1
  <2> QED  BY <2>2, <2>3 DEF LastWithItsId
<1>6. ASSUME LastWithItsId(a, r), \A m \in DOMAIN b : b[m].id # r.id
      PROVE  LastWithItsId(ab, r)
  <2>1. PICK n \in 1 .. A : a[n] = r /\ \A m \in 1 .. A : m > n => a[m].id # r.id
    BY <1>1, <1>6 DEF LastWithItsId
  <2>2. n \in DOMAIN ab /\ ab[n] = r
    BY <1>1, <1>2, <2>1
  <2>3. ASSUME NEW m \in DOMAIN ab, m > n
        PROVE  ab[m].id # r.id
    BY <1>1, <1>3, <1>6, <2>1, <2>3
  <2> QED  BY <2>2, <2>3 DEF LastWithItsId
<1> QED  BY <1>4, <1>5, <1>6

(* Of the documents of a batch, those no later one replaces are written     *)
(* whole: each of their records is the last with its id.                    *)
LEMMA SplitAllKeepsTheLatest ==
  ASSUME config \in Configs, NEW docs \in Seq(Documents), NEW recs, recs = SplitAll(docs)
  PROVE  /\ recs \in Seq(Records)
         /\ \A n \in DOMAIN recs : \E i \in DOMAIN docs : recs[n].id[1] = docs[i].id
         /\ \A i \in DOMAIN docs : IsLatest(docs, i)
              => \A r \in ToSet(Split(docs[i])) : LastWithItsId(recs, r)
<1> DEFINE N == Len(docs)
           seqs == [i \in DOMAIN docs |-> Split(docs[i])]
<1>1. N \in Nat /\ DOMAIN docs = 1 .. N /\ \A i \in 1 .. N : docs[i] \in Documents
  OBVIOUS
<1>2. \A i \in 1 .. N : Splits(Split(docs[i]), docs[i])
  BY <1>1, SplitCovers
<1>3. \A i \in 1 .. N : /\ seqs[i] = Split(docs[i]) /\ seqs[i] \in Seq(Records)
                        /\ \A k \in DOMAIN seqs[i] : seqs[i][k].id[1] = docs[i].id
                        /\ \A j, k \in DOMAIN seqs[i] : seqs[i][j].id = seqs[i][k].id => j = k
  BY <1>1, <1>2 DEF Splits
<1>4. seqs \in Seq(Seq(Records)) /\ Len(seqs) = N
  <2> DEFINE R == Seq(Records)
  <2>1. seqs \in [1 .. N -> R]
    BY <1>1, <1>3
  <2> HIDE DEF R, seqs
  <2>2. seqs \in Seq(R) /\ Len(seqs) = N
    BY <1>1, <2>1
  <2> QED  BY <2>2 DEF R
<1>5. recs = FlattenSeq(seqs)
  BY DEF SplitAll
<1> HIDE DEF seqs
<1>6. PICK p : Joins(p, seqs) /\ \A n \in 0 .. N : p[n] \in Seq(Records)
  BY <1>4, FlattenSeqJoins
<1>7. /\ p[0] = <<>> /\ recs = p[N]
      /\ \A k \in 0 .. N - 1 : p[k + 1] = p[k] \o seqs[k + 1]
  <2>1. \A n \in 1 .. N : p[n] = p[n - 1] \o seqs[n]
    BY <1>4, <1>6 DEF Joins
  <2>2. \A k \in 0 .. N - 1 : k + 1 \in 1 .. N /\ (k + 1) - 1 = k
    BY <1>1
  <2>3. \A k \in 0 .. N - 1 : p[k + 1] = p[k] \o seqs[k + 1]
    BY <2>1, <2>2
  <2> QED  BY <1>4, <1>5, <1>6, <2>3 DEF Joins
<1>8. recs \in Seq(Records)
  BY <1>1, <1>6, <1>7
<1>9. \A n \in DOMAIN recs : \E i \in DOMAIN docs : recs[n].id[1] = docs[i].id
  <2> DEFINE Good == {k \in 0 .. N : \A n \in DOMAIN p[k] : \E i \in 1 .. N : p[k][n].id[1] = docs[i].id}
  <2>1. 0 \in Good
    <3>1. DOMAIN p[0] = {}
      BY <1>7
    <3> QED  BY <1>1, <3>1
  <2>2. ASSUME NEW k \in 0 .. N - 1, k \in Good
        PROVE  k + 1 \in Good
    <3>1. k + 1 \in 1 .. N /\ k + 1 \in 0 .. N /\ k \in 0 .. N
      BY <1>1
    <3>2. Both(p[k + 1], p[k], seqs[k + 1])
      BY <1>3, <1>6, <1>7, <3>1 DEF Both
    <3>3. \A n \in DOMAIN p[k + 1] : p[k + 1][n] \in ToSet(p[k]) \cup ToSet(seqs[k + 1])
      BY ONLY <3>2, LastOfBoth
    <3>4. \A r \in ToSet(p[k]) : \E i \in 1 .. N : r.id[1] = docs[i].id
      BY <2>2 DEF ToSet
    <3>5. \A r \in ToSet(seqs[k + 1]) : r.id[1] = docs[k + 1].id
      BY <1>3, <3>1 DEF ToSet
    <3> QED  BY <3>1, <3>3, <3>4, <3>5
  <2>3. \A k \in 0 .. N : k \in Good
    <3> HIDE DEF Good
    <3> QED  BY <1>1, <2>1, <2>2, UpTo
  <2>4. N \in Good
    BY <1>1, <2>3
  <2> QED  BY <1>1, <1>7, <2>4
<1>10. ASSUME NEW i \in DOMAIN docs, IsLatest(docs, i), NEW r \in ToSet(Split(docs[i]))
       PROVE  LastWithItsId(recs, r)
  <2> DEFINE Good == {k \in 0 .. N : k >= i => LastWithItsId(p[k], r)}
  <2>1. i \in 1 .. N /\ r.id[1] = docs[i].id
    BY <1>1, <1>2 DEF ToSet, Splits
  <2>2. LastWithItsId(seqs[i], r)
    <3>1. PICK n \in DOMAIN seqs[i] : seqs[i][n] = r
      BY <1>3, <2>1 DEF ToSet
    <3>2. \A m \in DOMAIN seqs[i] : m > n => seqs[i][m].id # r.id
      <4> TAKE m \in DOMAIN seqs[i]
      <4>1. m \in Int /\ n \in Int
        BY <1>3, <2>1
      <4>2. seqs[i][m].id = seqs[i][n].id => m = n
        BY <1>3, <2>1
      <4> QED  BY <3>1, <4>1, <4>2
    <3> QED  BY <3>1, <3>2 DEF LastWithItsId
  <2>3. 0 \in Good
    BY <1>1, <2>1
  <2>4. ASSUME NEW k \in 0 .. N - 1, k \in Good
        PROVE  k + 1 \in Good
    <3>1. k + 1 \in 1 .. N /\ k + 1 \in 0 .. N /\ k \in 0 .. N
      BY <1>1
    <3>2. Both(p[k + 1], p[k], seqs[k + 1])
      BY <1>3, <1>6, <1>7, <3>1 DEF Both
    <3>3. CASE k + 1 < i
      BY <2>1, <3>1, <3>3
    <3>4. CASE k + 1 = i
      <4>1. LastWithItsId(seqs[k + 1], r)
        BY <2>2, <3>4
      <4>2. LastWithItsId(p[k + 1], r)
        BY ONLY <3>2, <4>1, LastOfBoth
      <4> QED  BY <3>1, <4>2
    <3>5. CASE k + 1 > i
      <4>1. LastWithItsId(p[k], r)
        BY <2>1, <2>4, <3>5
      <4>2. docs[k + 1].id # docs[i].id
        BY <1>1, <1>10, <3>1, <3>5 DEF IsLatest
      <4>3. \A m \in DOMAIN seqs[k + 1] : seqs[k + 1][m].id # r.id
        BY <1>3, <2>1, <3>1, <4>2
      <4>4. LastWithItsId(p[k + 1], r)
        BY ONLY <3>2, <4>1, <4>3, LastOfBoth
      <4> QED  BY <3>1, <4>4
    <3> QED  BY <2>1, <3>1, <3>3, <3>4, <3>5
  <2>5. \A k \in 0 .. N : k \in Good
    <3> HIDE DEF Good
    <3> QED  BY <1>1, <2>3, <2>4, UpTo
  <2>6. N \in Good /\ N >= i
    <3> HIDE DEF Good
    <3> QED  BY <1>1, <2>1, <2>5
  <2> QED  BY <1>7, <2>6
<1> QED  BY <1>8, <1>9, <1>10

-------------------------------------------------------------------------------
(***************************************************************************)
(* What is stored is held: each record of a version that was indexed last   *)
(* and not deleted is in the store, through every write and deletion.       *)
(***************************************************************************)
Holds(store, versions) ==
  \A d \in Documents : [doc |-> d.id, version |-> d.version] \in versions =>
    \A r \in ToSet(Split(d)) : r \in ToSet(store)

LEMMA BatchHolds ==
  ASSUME config \in Configs, NEW store, Dictionary(store), NEW versions, Holds(store, versions),
         NEW docs \in Seq(Documents), NEW written, written = PutAll(store, SplitAll(docs)),
         NEW after,
         after = {s \in versions : \A i \in DOMAIN docs : s.doc # docs[i].id} \cup VersionsOf(docs)
  PROVE  Dictionary(written) /\ Holds(written, after)
<1> DEFINE recs == SplitAll(docs)
<1>1. /\ recs \in Seq(Records)
      /\ \A n \in DOMAIN recs : \E i \in DOMAIN docs : recs[n].id[1] = docs[i].id
      /\ \A i \in DOMAIN docs : IsLatest(docs, i)
              => \A r \in ToSet(Split(docs[i])) : LastWithItsId(recs, r)
  BY SplitAllKeepsTheLatest
<1> HIDE DEF recs
<1>2. /\ Dictionary(written)
      /\ \A r \in ToSet(store) : (\A i \in DOMAIN recs : recs[i].id # r.id) => r \in ToSet(written)
      /\ \A r : LastWithItsId(recs, r) => r \in ToSet(written)
  BY <1>1, PutAllKeepsTheLast DEF recs
<1>3. ASSUME NEW d \in Documents, NEW r \in ToSet(Split(d)),
             [doc |-> d.id, version |-> d.version] \in after
      PROVE  r \in ToSet(written)
  <2>1. r.id[1] = d.id
    BY SplitCovers DEF ToSet, Splits
  <2>2. CASE [doc |-> d.id, version |-> d.version] \in VersionsOf(docs)
    <3>1. PICK i \in DOMAIN docs : IsLatest(docs, i) /\ docs[i].id = d.id /\ docs[i].version = d.version
      BY <2>2 DEF VersionsOf
    <3>2. docs[i] = d
      <4>1. docs[i] \in Documents
        BY <3>1
      <4> QED  BY <3>1, <4>1, DocumentsAssumption
    <3>3. LastWithItsId(recs, r)
      BY <1>1, <3>1, <3>2
    <3> QED  BY <1>2, <3>3
  <2>3. CASE [doc |-> d.id, version |-> d.version] \notin VersionsOf(docs)
    <3>1. /\ [doc |-> d.id, version |-> d.version] \in versions
          /\ \A i \in DOMAIN docs : d.id # docs[i].id
      BY <1>3, <2>3
    <3>2. r \in ToSet(store)
      BY <3>1 DEF Holds
    <3>3. \A n \in DOMAIN recs : recs[n].id # r.id
      BY <1>1, <2>1, <3>1
    <3> QED  BY <1>2, <3>2, <3>3
  <2> QED  BY <2>2, <2>3
<1> QED  BY <1>2, <1>3 DEF Holds

LEMMA WithoutIsADictionary ==
  ASSUME NEW store, Dictionary(store), NEW ids, NEW filter, NEW rest, rest = Without(store, ids, filter)
  PROVE  Dictionary(rest) /\ (store = <<>> => rest = <<>>)
<1> DEFINE S == {i \in DOMAIN store : IF ids # {} THEN store[i].id \notin ids
                                      ELSE ~Matches(store[i], filter)}
<1>1. S \in SUBSET (DOMAIN store) /\ rest = At(store, S)
  BY DEF Without
<1> HIDE DEF S
<1>2. Dictionary(rest) /\ \A k \in DOMAIN rest : \E i \in S : rest[k] = store[i]
  BY <1>1, AtIsADictionary
<1>3. ASSUME store = <<>>
      PROVE  rest = <<>>
  <2>1. S = {}
    BY <1>1, <1>3
  <2>2. DOMAIN rest = {} /\ rest \in Seq(Records)
    BY <1>2, <2>1 DEF Dictionary
  <2> QED  BY <2>2
<1> QED  BY <1>2, <1>3

(* A version counts as deleted once one of its records is in neither store: *)
(* the stores that remain hold the others.                                  *)
LEMMA RestHolds ==
  ASSUME config \in Configs, NEW store, NEW versions, Holds(store, versions),
         NEW all, ToSet(store) \subseteq all, NEW rest, NEW left, left = ToSet(rest),
         NEW after, after = {s \in versions : \A rec \in all \ left :
                               rec.text.doc = s.doc => rec.text.version # s.version}
  PROVE  Holds(rest, after)
<1>1. ASSUME NEW d \in Documents, NEW r \in ToSet(Split(d)),
             [doc |-> d.id, version |-> d.version] \in after
      PROVE  r \in ToSet(rest)
  <2>1. r.text.doc = d.id /\ r.text.version = d.version
    BY SplitCovers DEF ToSet, Splits
  <2>2. r \in all
    BY <1>1 DEF Holds
  <2>3. r \notin all \ left
    BY <1>1, <2>1
  <2> QED  BY <2>2, <2>3
<1> QED  BY <1>1 DEF Holds

(* What is held is found whole.                                             *)
LEMMA HeldIsFindable ==
  ASSUME config \in Configs, NEW store, Holds(store, stored), NEW doc \in Documents,
         [doc |-> doc.id, version |-> doc.version] \in stored,
         NEW recs, recs = {r \in ToSet(store) : r.text.doc = doc.id /\ r.text.version = doc.version}
  PROVE  /\ recs # {}
         /\ \A c \in 0 .. doc.length - 1 : \E r \in recs : r.text.from <= c /\ c < r.text.to
<1> DEFINE s == Split(doc)
<1>1. Splits(s, doc)
  BY SplitCovers
<1>2. \A r \in ToSet(s) : r \in ToSet(store)
  BY DEF Holds
<1> HIDE DEF s
<1>3. \A k \in DOMAIN s : s[k] \in recs
  BY <1>1, <1>2 DEF Splits, ToSet
<1>4. DOMAIN s # {}
  BY <1>1 DEF Splits
<1>5. \A c \in 0 .. doc.length - 1 : \E k \in DOMAIN s : s[k].text.from <= c /\ c < s[k].text.to
  BY <1>1 DEF Splits
<1> QED  BY <1>3, <1>4, <1>5

-------------------------------------------------------------------------------
(***************************************************************************)
(* The two stores of a hybrid store.                                        *)
(***************************************************************************)
(* A batch that is written is written to both stores.                       *)
LEMMA BatchesAgree ==
  ASSUME NEW recs, config.kind = "hybrid", vector = fulltext,
         UpsertVectors(recs), UpsertTerms(recs)
  PROVE  vector' = fulltext'
BY DEF UpsertVectors, UpsertTerms, HasVectors, HasTerms

(* No step makes the stores of a hybrid store differ: what is upserted goes *)
(* to both once it is embedded, what is deleted goes from both, and a       *)
(* failure between batches changes neither.                                 *)
LEMMA StepsAgree ==
  ASSUME StoresAgree, [Next]_vars
  PROVE  StoresAgree'
<1>1. SUFFICES ASSUME config'.kind = "hybrid"
               PROVE  vector' = fulltext'
  BY DEF StoresAgree
<1>2. CASE UNCHANGED vars
  BY <1>1, <1>2 DEF vars, StoresAgree
<1>3. ASSUME NEW t \in Tasks,
             StartIndex(t) \/ WriteBatch(t) \/ EmbeddingFails(t) \/ Delete(t)
               \/ StartSearch(t) \/ Search(t)
      PROVE  vector' = fulltext'
  <2>1. config' = config /\ config.kind = "hybrid" /\ vector = fulltext
    BY <1>1, <1>3 DEF StoresAgree, StartIndex, WriteBatch, EmbeddingFails, Delete, StartSearch,
      Search
  <2>2. CASE StartIndex(t)
    BY <2>1, <2>2 DEF StartIndex, StartsBatch, BeforeEmbedding
  <2>3. CASE WriteBatch(t)
    <3>1. PICK recs : UpsertVectors(recs) /\ UpsertTerms(recs)
      BY <2>3 DEF WriteBatch
    <3> QED  BY <2>1, <3>1, BatchesAgree
  <2>4. CASE EmbeddingFails(t)
    BY <2>1, <2>4 DEF EmbeddingFails
  <2>5. CASE Delete(t)
    BY <2>1, <2>5 DEF Delete, DeleteVectors, DeleteTerms
  <2>6. CASE StartSearch(t)
    BY <2>1, <2>6 DEF StartSearch
  <2>7. CASE Search(t)
    BY <2>1, <2>7 DEF Search
  <2> QED  BY <1>3, <2>2, <2>3, <2>4, <2>5, <2>6, <2>7
<1> QED  BY <1>2, <1>3 DEF Next

(* The stores of a hybrid store hold the same records at all times: every   *)
(* hit of one can be fused with the other's, and a record found by its      *)
(* terms is never missing its vector (HybridSearchProvider.upsert, delete). *)
THEOREM HybridStoresAgree == Spec => []StoresAgree
<1>1. Init => StoresAgree
  BY DEF Init, StoresAgree
<1> QED  BY <1>1, StepsAgree, PTL DEF Spec

-------------------------------------------------------------------------------
(***************************************************************************)
(* The inductive invariant.  A store that the kind lacks stays empty, and   *)
(* each of the others holds what is stored.                                 *)
(***************************************************************************)
StoresHold ==
  /\ ~HasVectors => vector = <<>>
  /\ ~HasTerms => fulltext = <<>>
  /\ HasVectors => Holds(vector, stored)
  /\ HasTerms => Holds(fulltext, stored)

Inv ==
  /\ config \in Configs /\ TypeOK
  /\ StoresAgree /\ StoresHold

Stored == {[doc |-> d.id, version |-> d.version] : d \in Documents}

Tasked(states, jobs) ==
  /\ states \in [Tasks -> TaskStates]
  /\ \A t \in Tasks : states[t].state = "embedding" /\ jobs[t].kind = "index"
                        => "batch" \in DOMAIN states[t]

LEMMA TypeOKInParts ==
  TypeOK <=> /\ Tasked(task, config.jobs)
             /\ Dictionary(vector) /\ Dictionary(fulltext)
             /\ stored \subseteq Stored
BY DEF TypeOK, Tasked, Dictionary, IsInjective, Stored

LEMMA StatesAreRecords ==
  /\ [state |-> "idle"] \in TaskStates /\ [state |-> "embedding"] \in TaskStates
  /\ [state |-> "done"] \in TaskStates /\ [state |-> "failed"] \in TaskStates
  /\ \A n \in Nat \ {0} : [state |-> "embedding", batch |-> n] \in TaskStates
  /\ \A v, f, chunks \in Hits : [state |-> "done", v |-> v, f |-> f, chunks |-> chunks] \in TaskStates
  /\ \A s \in TaskStates : "batch" \in DOMAIN s => s.batch \in Nat \ {0}
BY DEF TaskStates

LEMMA TasksStayTyped ==
  ASSUME NEW states, NEW jobs, Tasked(states, jobs), NEW t \in Tasks, NEW s \in TaskStates,
         s.state = "embedding" /\ jobs[t].kind = "index" => "batch" \in DOMAIN s,
         NEW after, after = [states EXCEPT ![t] = s]
  PROVE  Tasked(after, jobs) /\ after[t] = s /\ \A u \in Tasks \ {t} : after[u] = states[u]
BY DEF Tasked

LEMMA BatchesAreDocuments ==
  ASSUME config \in Configs, NEW t \in Tasks, Job(t).kind = "index", NEW n \in Nat \ {0}
  PROVE  Batch(t, n) \in Seq(Documents)
<1> DEFINE docs == Job(t).docs
           first == (n - 1) * config.batch + 1
           last == Min({n * config.batch, Len(docs)})
<1>1. docs \in Seq(Documents) /\ config.batch \in Nat \ {0}
  BY ConfigsAssumption DEF Job
<1>2. first \in Nat \ {0} /\ n * config.batch \in Nat
  BY <1>1
<1> HIDE DEF docs, first
<1>3. last \in Nat /\ last <= Len(docs)
  <2> DEFINE b == n * config.batch
             l == Len(docs)
  <2>1. b \in Nat /\ l \in Nat
    BY <1>1, <1>2
  <2> HIDE DEF b, l
  <2>2. Min({b, l}) \in Nat /\ Min({b, l}) <= l
    BY <2>1 DEF Min
  <2> QED  BY <2>2 DEF b, l
<1> HIDE DEF last
<1>4. SubSeq(docs, first, last) \in Seq(Documents)
  <2>1. first \in 1 .. Len(docs) + 1 \/ first > Len(docs) + 1
    BY <1>1, <1>2
  <2>2. \A i \in first .. last : i \in 1 .. Len(docs)
    BY <1>1, <1>2, <1>3
  <2> QED  BY <1>1, <1>2, <1>3, <2>2
<1> QED  BY <1>4 DEF Batch, docs, first, last

-------------------------------------------------------------------------------
(***************************************************************************)
(* A search.  Its hits are those of a dictionary, sorted and cut, so that   *)
(* an id has one of them; the answer is made of the hits.                   *)
(***************************************************************************)
Scored(recs, score) == [i \in DOMAIN recs |-> Hit(recs[i], score[i])]

LEMMA ScoredIsListed ==
  ASSUME NEW recs, Dictionary(recs), NEW score \in [DOMAIN recs -> Int], NEW k \in Nat,
         NEW top, top = Top(Sorted(Scored(recs, score)), k)
  PROVE  Listed(top) /\ Descending(top)
<1> DEFINE hits == Scored(recs, score)
           R == [id : Ids, score : Int]
<1>1. Len(recs) \in Nat /\ DOMAIN recs = 1 .. Len(recs) /\ \A i \in 1 .. Len(recs) : recs[i] \in Records
  <2> HIDE DEF Records
  <2> QED  BY DEF Dictionary
<1>2. \A i \in 1 .. Len(recs) : hits[i] \in R /\ hits[i].id = recs[i].id
  BY <1>1 DEF Scored, Hit, Records
<1>3. Listed(hits)
  <2>1. hits = [i \in 1 .. Len(recs) |-> hits[i]]
    BY <1>1 DEF Scored
  <2> HIDE DEF hits, R
  <2>2. hits \in Seq(R) /\ DOMAIN hits = 1 .. Len(recs)
    BY <1>1, <1>2, <2>1
  <2>3. hits \in Hits
    BY <2>2 DEF R, Hits
  <2> QED  BY <1>1, <1>2, <2>2, <2>3 DEF Listed, Dictionary
<1> HIDE DEF hits
<1>4. Listed(Sorted(hits)) /\ Descending(Sorted(hits))
  BY <1>3, SortedIsListed
<1>5. top = Top(Sorted(hits), k)
  BY DEF hits
<1> HIDE DEF R
<1> QED  BY <1>4, <1>5, TopKeepsTheOrder

LEMMA MatchingIsADictionary ==
  ASSUME NEW store, Dictionary(store), NEW filter
  PROVE  Dictionary(Matching(store, filter))
<1> DEFINE S == {i \in DOMAIN store : Matches(store[i], filter)}
<1>1. S \in SUBSET (DOMAIN store) /\ Matching(store, filter) = At(store, S)
  BY DEF Matching
<1> HIDE DEF S
<1> QED  BY <1>1, AtIsADictionary

LEMMA TextsAreScored ==
  ASSUME NEW recs, Dictionary(recs), NEW i \in DOMAIN recs
  PROVE  VectorScore(recs[i].text) \in Int /\ TermScore(recs[i].text) \in Int
<1>1. recs[i] \in Records
  <2> HIDE DEF Records
  <2> QED  BY DEF Dictionary
<1>2. PICK d \in Documents : recs[i].text \in TextsOf(d)
  BY <1>1 DEF Records, Texts
<1> QED  BY <1>2, ScoresAssumption

LEMMA VectorHitsAreListed ==
  ASSUME Dictionary(vector), NEW filter, NEW k \in Nat
  PROVE  Listed(VectorHits(filter, k)) /\ Descending(VectorHits(filter, k))
<1> DEFINE recs == Matching(vector, filter)
           score == [i \in DOMAIN recs |-> VectorScore(recs[i].text)]
<1>1. Dictionary(recs)
  BY MatchingIsADictionary
<1>2. VectorHits(filter, k) = Top(Sorted(Scored(recs, score)), k)
  <2>1. Scored(recs, score) = [i \in DOMAIN recs |-> Hit(recs[i], VectorScore(recs[i].text))]
    BY DEF Scored
  <2> QED  BY <2>1 DEF VectorHits
<1> HIDE DEF recs
<1>3. score \in [DOMAIN recs -> Int]
  BY <1>1, TextsAreScored
<1> HIDE DEF score
<1> QED  BY <1>1, <1>2, <1>3, ScoredIsListed

LEMMA TermHitsAreListed ==
  ASSUME Dictionary(fulltext), NEW filter, NEW k \in Nat
  PROVE  Listed(TermHits(filter, k)) /\ Descending(TermHits(filter, k))
<1> DEFINE matching == Matching(fulltext, filter)
           S == {i \in DOMAIN matching : TermScore(matching[i].text) > 0}
           recs == At(matching, S)
           score == [i \in DOMAIN recs |-> TermScore(recs[i].text)]
<1>1. Dictionary(matching)
  BY MatchingIsADictionary
<1>2. TermHits(filter, k) = Top(Sorted(Scored(recs, score)), k)
  <2>1. Scored(recs, score) = [i \in DOMAIN recs |-> Hit(recs[i], TermScore(recs[i].text))]
    BY DEF Scored
  <2> QED  BY <2>1 DEF TermHits
<1> HIDE DEF matching
<1>3. Dictionary(recs)
  <2>1. S \in SUBSET (DOMAIN matching)
    OBVIOUS
  <2> HIDE DEF S
  <2> QED  BY <1>1, <2>1, AtIsADictionary
<1> HIDE DEF recs
<1>4. score \in [DOMAIN recs -> Int]
  BY <1>3, TextsAreScored
<1> HIDE DEF score
<1> QED  BY <1>2, <1>3, <1>4, ScoredIsListed

LEMMA CascadeIsListed ==
  ASSUME NEW v, Listed(v), NEW f, Listed(f)
  PROVE  Listed(Cascade(v, f)) /\ Descending(Cascade(v, f))
<1> DEFINE all == Merged(IF f = <<>> THEN v ELSE f, v)
           score == [i \in DOMAIN all |-> ScoreIn(v, all[i].id)]
           w == Rescored(all, score)
<1>1. Listed(all)
  <2>1. CASE f = <<>>
    BY <2>1, MergedIsListed
  <2>2. CASE f # <<>>
    BY <2>2, MergedIsListed
  <2> QED  BY <2>1, <2>2
<1>2. Cascade(v, f) = Sorted(w)
  BY DEF Cascade, Rescored
<1> HIDE DEF all
<1>3. score \in [DOMAIN all -> Int]
  BY ScoreIsThatOfItsPlace
<1> HIDE DEF score
<1>4. Listed(w)
  BY <1>1, <1>3, RescoredIsListed
<1> HIDE DEF w
<1> QED  BY <1>2, <1>4, SortedIsListed

(* What a search keeps: its hits and an answer that, unless recall and      *)
(* ranking are left to one list each, keeps the order of both.              *)
Answers(answer, v, f) ==
  /\ Listed(v) /\ Listed(f)
  /\ Listed(answer) /\ Descending(answer)
  /\ config.fusion # "cascade" => KeepsTheOrder(answer, v, f)

LEMMA FusionAnswers ==
  ASSUME config \in Configs, NEW k \in Nat,
         NEW v, Listed(v), Descending(v), NEW f, Listed(f), Descending(f)
  PROVE  Answers(Fuse(v, f, k), v, f)
<1>1. config.fusion \in Fusions
  BY ConfigsAssumption
<1>2. CASE config.fusion = "cascade"
  <2>1. Fuse(v, f, k) = Top(Cascade(v, f), k)
    BY <1>2 DEF Fuse
  <2>2. Listed(Fuse(v, f, k)) /\ Descending(Fuse(v, f, k))
    BY <2>1, CascadeIsListed, TopKeepsTheOrder
  <2> QED  BY <1>2, <2>2 DEF Answers
<1>3. CASE config.fusion # "cascade"
  <2>1. config.fusion \in Fusions \ {"cascade"}
    BY <1>1, <1>3
  <2>2. /\ Listed(Fuse(v, f, k)) /\ Descending(Fuse(v, f, k)) /\ KeepsTheOrder(Fuse(v, f, k), v, f)
    BY <2>1, FusionKeepsTheOrder
  <2> QED  BY <2>2 DEF Answers
<1> QED  BY <1>2, <1>3

LEMMA OneListAnswers ==
  ASSUME NEW hits, Listed(hits), Descending(hits)
  PROVE  Answers(hits, hits, <<>>) /\ Answers(hits, <<>>, hits)
<1>1. Listed(<<>>)
  <2>1. <<>> \in Hits
    BY DEF Hits
  <2> QED  BY <2>1 DEF Listed
<1> QED  BY <1>1 DEF Answers, KeepsTheOrder, Better

LEMMA AtLeastAnswers ==
  ASSUME NEW v, NEW f, NEW hits, Answers(hits, v, f), NEW m \in Int
  PROVE  Answers(AtLeast(hits, m), v, f)
<1> DEFINE a == AtLeast(hits, m)
<1>1. /\ Listed(a) /\ Descending(a)
      /\ \A x, y : Rank(hits, x) <= Rank(hits, y) => Rank(a, x) <= Rank(a, y)
  BY AtLeastKeepsTheOrder DEF Answers
<1> HIDE DEF a
<1>2. Answers(a, v, f)
  BY <1>1 DEF Answers, KeepsTheOrder
<1> QED  BY <1>2 DEF a

LEMMA SearchAnswers ==
  ASSUME config \in Configs, Dictionary(vector), Dictionary(fulltext),
         NEW t \in Tasks, Job(t).kind = "search", Search(t)
  PROVE  \E v, f, chunks :
           /\ task' = [task EXCEPT ![t] = [state |-> "done", v |-> v, f |-> f, chunks |-> chunks]]
           /\ Answers(chunks, v, f)
<1> DEFINE k == Job(t).topK
           filter == Job(t).filter
           found == CASE config.kind = "hybrid" -> SearchBoth(filter, k)
                      [] config.kind = "vector" -> SearchVectors(filter, k)
                      [] config.kind = "fulltext" -> SearchTerms(filter, k)
           chunks == KnowledgeChunks(t, found.chunks)
<1>1. k \in Nat /\ 2 * k \in Nat /\ Job(t).minScore \in Int /\ config.kind \in Kinds
  BY ConfigsAssumption DEF Job
<1>2. task' = [task EXCEPT ![t] = [found EXCEPT !.chunks = KnowledgeChunks(t, @)]]
  BY DEF Search
<1> HIDE DEF k, filter
<1>3. \E hits, v, f : found = Found(hits, v, f) /\ Answers(hits, v, f)
  <2>1. CASE config.kind = "hybrid"
    <3> DEFINE v == VectorHits(filter, 2 * k)
               f == TermHits(filter, 2 * k)
    <3>1. found = Found(Fuse(v, f, k), v, f)
      BY <2>1 DEF SearchBoth
    <3>2. Listed(v) /\ Descending(v) /\ Listed(f) /\ Descending(f)
      BY <1>1, VectorHitsAreListed, TermHitsAreListed
    <3> HIDE DEF v, f, found
    <3>3. Answers(Fuse(v, f, k), v, f)
      BY <1>1, <3>2, FusionAnswers
    <3> QED  BY <3>1, <3>3
  <2>2. CASE config.kind = "vector"
    <3> DEFINE v == VectorHits(filter, k)
    <3>1. found = Found(v, v, <<>>)
      BY <2>2 DEF SearchVectors
    <3>2. Listed(v) /\ Descending(v)
      BY <1>1, VectorHitsAreListed
    <3> HIDE DEF v, found
    <3> QED  BY <3>1, <3>2, OneListAnswers
  <2>3. CASE config.kind = "fulltext"
    <3> DEFINE f == TermHits(filter, k)
    <3>1. found = Found(f, <<>>, f)
      BY <2>3 DEF SearchTerms
    <3>2. Listed(f) /\ Descending(f)
      BY <1>1, TermHitsAreListed
    <3> HIDE DEF f, found
    <3> QED  BY <3>1, <3>2, OneListAnswers
  <2> HIDE DEF found
  <2> QED  BY <1>1, <2>1, <2>2, <2>3 DEF Kinds
<1> HIDE DEF found
<1>4. PICK hits, v, f : found = Found(hits, v, f) /\ Answers(hits, v, f)
  BY <1>3
<1>5. Answers(found.chunks, v, f)
  <2>1. found.chunks = AtLeast(hits, 0)
    BY <1>4 DEF Found
  <2>2. 0 \in Int
    OBVIOUS
  <2> QED  BY <1>4, <2>1, <2>2, AtLeastAnswers
<1>6. Answers(chunks, v, f)
  <2>1. CASE Job(t).minScore = 0
    BY <1>5, <2>1 DEF KnowledgeChunks
  <2>2. CASE Job(t).minScore # 0
    <3>1. chunks = AtLeast(found.chunks, Job(t).minScore)
      BY <2>2 DEF KnowledgeChunks
    <3> HIDE DEF chunks
    <3> QED  BY <1>1, <1>5, <3>1, AtLeastAnswers
  <2> QED  BY <2>1, <2>2
<1>7. [found EXCEPT !.chunks = KnowledgeChunks(t, @)]
        = [state |-> "done", v |-> v, f |-> f, chunks |-> chunks]
  BY <1>4 DEF Found
<1> QED  BY <1>2, <1>6, <1>7

-------------------------------------------------------------------------------
(***************************************************************************)
(* Each step keeps the invariant.                                           *)
(***************************************************************************)
LEMMA SplitStays ==
  ASSUME config' = config, NEW d
  PROVE  Split(d)' = Split(d)
BY DEF Split, IsStart, Step

LEMMA InvStays ==
  ASSUME config' = config, config \in Configs,
         Tasked(task', config.jobs), stored' \subseteq Stored,
         Dictionary(vector'), Dictionary(fulltext'), StoresAgree',
         ~HasVectors => vector' = <<>>, ~HasTerms => fulltext' = <<>>,
         HasVectors => Holds(vector', stored'), HasTerms => Holds(fulltext', stored')
  PROVE  Inv'
<1>1. TypeOK'
  BY DEF TypeOK, Tasked, Dictionary, IsInjective, Stored
<1>2. HasVectors' = HasVectors /\ HasTerms' = HasTerms
  BY DEF HasVectors, HasTerms
<1>3. Holds(vector', stored') => Holds(vector, stored)'
  BY SplitStays DEF Holds
<1>4. Holds(fulltext', stored') => Holds(fulltext, stored)'
  BY SplitStays DEF Holds
<1>5. StoresHold'
  BY <1>2, <1>3, <1>4 DEF StoresHold
<1> QED  BY <1>1, <1>5 DEF Inv

LEMMA InvInParts ==
  ASSUME Inv
  PROVE  /\ config \in Configs /\ config.kind \in Kinds
         /\ Tasked(task, config.jobs) /\ stored \subseteq Stored
         /\ Dictionary(vector) /\ Dictionary(fulltext) /\ StoresAgree /\ StoresHold
BY TypeOKInParts, ConfigsAssumption DEF Inv

(* A step of a task that changes neither store nor what is stored.          *)
LEMMA StoresStay ==
  ASSUME Inv, config' = config, vector' = vector, fulltext' = fulltext, stored' = stored,
         Tasked(task', config.jobs)
  PROVE  Inv'
<1>1. /\ config \in Configs /\ stored' \subseteq Stored
      /\ Dictionary(vector') /\ Dictionary(fulltext')
  BY InvInParts
<1>2. StoresAgree'
  BY InvInParts DEF StoresAgree
<1>3. /\ ~HasVectors => vector' = <<>>
      /\ ~HasTerms => fulltext' = <<>>
      /\ HasVectors => Holds(vector', stored')
      /\ HasTerms => Holds(fulltext', stored')
  BY InvInParts DEF StoresHold
<1> QED  BY <1>1, <1>2, <1>3, InvStays

LEMMA InitInv == Init => Inv
<1> SUFFICES ASSUME Init
             PROVE  Inv
  OBVIOUS
<1>1. config \in Configs /\ vector = <<>> /\ fulltext = <<>> /\ stored = {}
  BY DEF Init
<1>2. Dictionary(<<>>)
  BY DEF Dictionary
<1>3. Tasked(task, config.jobs)
  <2>1. task = [t \in Tasks |-> Idle] /\ Idle \in TaskStates /\ Idle.state = "idle"
    BY StatesAreRecords DEF Init, Idle
  <2> QED  BY <2>1 DEF Tasked
<1>4. TypeOK
  BY <1>1, <1>2, <1>3, TypeOKInParts
<1>5. StoresAgree /\ StoresHold
  BY <1>1 DEF StoresAgree, StoresHold, Holds
<1> QED  BY <1>1, <1>4, <1>5 DEF Inv

LEMMA StartIndexKeepsInv ==
  ASSUME Inv, NEW t \in Tasks, StartIndex(t)
  PROVE  Inv'
<1> DEFINE s == [state |-> "embedding", batch |-> 1]
<1>1. task' = [task EXCEPT ![t] = s]
  BY DEF StartIndex, StartsBatch
<1>2. s \in TaskStates /\ "batch" \in DOMAIN s
  BY StatesAreRecords
<1> HIDE DEF s
<1>3. Tasked(task', config.jobs)
  BY <1>1, <1>2, InvInParts, TasksStayTyped
<1>4. UNCHANGED <<config, vector, fulltext, stored>>
  BY DEF StartIndex, StartsBatch, BeforeEmbedding
<1> QED  BY <1>3, <1>4, StoresStay

LEMMA EmbeddingFailsKeepsInv ==
  ASSUME Inv, NEW t \in Tasks, EmbeddingFails(t)
  PROVE  Inv'
<1> DEFINE s == [state |-> "failed"]
<1>1. task' = [task EXCEPT ![t] = s]
  BY DEF EmbeddingFails
<1>2. s \in TaskStates /\ s.state # "embedding"
  BY StatesAreRecords
<1> HIDE DEF s
<1>3. Tasked(task', config.jobs)
  BY <1>1, <1>2, InvInParts, TasksStayTyped
<1>4. UNCHANGED <<config, vector, fulltext, stored>>
  BY DEF EmbeddingFails
<1> QED  BY <1>3, <1>4, StoresStay

LEMMA StartSearchKeepsInv ==
  ASSUME Inv, NEW t \in Tasks, StartSearch(t)
  PROVE  Inv'
<1> DEFINE s == [state |-> "embedding"]
<1>1. task' = [task EXCEPT ![t] = s] /\ Job(t).kind = "search"
  BY DEF StartSearch
<1>2. s \in TaskStates
  BY StatesAreRecords
<1>3. config.jobs[t].kind # "index"
  BY <1>1 DEF Job
<1> HIDE DEF s
<1>4. Tasked(task', config.jobs)
  BY <1>1, <1>2, <1>3, InvInParts, TasksStayTyped
<1>5. UNCHANGED <<config, vector, fulltext, stored>>
  BY DEF StartSearch
<1> QED  BY <1>4, <1>5, StoresStay

LEMMA SearchKeepsInv ==
  ASSUME Inv, NEW t \in Tasks, Search(t)
  PROVE  Inv'
<1>1. Job(t).kind = "search"
  BY DEF Search
<1>2. PICK v, f, chunks :
        /\ task' = [task EXCEPT ![t] = [state |-> "done", v |-> v, f |-> f, chunks |-> chunks]]
        /\ Answers(chunks, v, f)
  BY <1>1, InvInParts, SearchAnswers
<1> DEFINE s == [state |-> "done", v |-> v, f |-> f, chunks |-> chunks]
<1>3. s \in TaskStates /\ s.state # "embedding"
  BY <1>2, StatesAreRecords DEF Answers, Listed
<1>4. task' = [task EXCEPT ![t] = s]
  BY <1>2
<1> HIDE DEF s
<1>5. Tasked(task', config.jobs)
  BY <1>3, <1>4, InvInParts, TasksStayTyped
<1>6. UNCHANGED <<config, vector, fulltext, stored>>
  BY DEF Search
<1> QED  BY <1>5, <1>6, StoresStay

LEMMA WriteBatchKeepsInv ==
  ASSUME Inv, NEW t \in Tasks, WriteBatch(t)
  PROVE  Inv'
<1> DEFINE n == task[t].batch
           docs == Batch(t, n)
           recs == SplitAll(docs)
           s == IF n < Batches(t) THEN [state |-> "embedding", batch |-> n + 1] ELSE [state |-> "done"]
<1>1. /\ task[t].state = "embedding" /\ Job(t).kind = "index" /\ config' = config
      /\ UpsertVectors(recs) /\ UpsertTerms(recs)
      /\ stored' = {x \in stored : \A i \in DOMAIN docs : x.doc # docs[i].id} \cup VersionsOf(docs)
      /\ task' = [task EXCEPT ![t] = s]
  BY DEF WriteBatch
<1>2. n \in Nat \ {0}
  <2>1. task[t] \in TaskStates /\ "batch" \in DOMAIN task[t]
    BY <1>1, InvInParts DEF Tasked, Job
  <2> QED  BY <2>1, StatesAreRecords
<1>3. docs \in Seq(Documents)
  BY <1>1, <1>2, InvInParts, BatchesAreDocuments
<1>4. Tasked(task', config.jobs)
  <2>1. s \in TaskStates /\ (s.state = "embedding" => "batch" \in DOMAIN s)
    <3> HIDE DEF n
    <3>1. n + 1 \in Nat \ {0}
      BY <1>2
    <3> QED  BY <3>1, StatesAreRecords
  <2> HIDE DEF s
  <2> QED  BY <1>1, <2>1, InvInParts, TasksStayTyped
<1> HIDE DEF n, docs, recs, s
<1>5. stored' \subseteq Stored
  <2>1. VersionsOf(docs) \subseteq Stored
    BY <1>3 DEF VersionsOf, Stored
  <2> QED  BY <1>1, <2>1, InvInParts
<1>6. recs = SplitAll(docs)
  BY DEF recs
<1>7. Dictionary(vector') /\ (HasVectors => Holds(vector', stored')) /\ (~HasVectors => vector' = <<>>)
  <2>1. CASE HasVectors
    <3>1. vector' = PutAll(vector, SplitAll(docs))
      BY <1>1, <1>6, <2>1 DEF UpsertVectors
    <3>2. config \in Configs /\ Dictionary(vector) /\ Holds(vector, stored)
      BY <2>1, InvInParts DEF StoresHold
    <3> QED  BY <1>1, <1>3, <2>1, <3>1, <3>2, BatchHolds
  <2>2. CASE ~HasVectors
    BY <1>1, <2>2, InvInParts DEF UpsertVectors, StoresHold
  <2> QED  BY <2>1, <2>2
<1>8. Dictionary(fulltext') /\ (HasTerms => Holds(fulltext', stored')) /\ (~HasTerms => fulltext' = <<>>)
  <2>1. CASE HasTerms
    <3>1. fulltext' = PutAll(fulltext, SplitAll(docs))
      BY <1>1, <1>6, <2>1 DEF UpsertTerms
    <3>2. config \in Configs /\ Dictionary(fulltext) /\ Holds(fulltext, stored)
      BY <2>1, InvInParts DEF StoresHold
    <3> QED  BY <1>1, <1>3, <2>1, <3>1, <3>2, BatchHolds
  <2>2. CASE ~HasTerms
    BY <1>1, <2>2, InvInParts DEF UpsertTerms, StoresHold
  <2> QED  BY <2>1, <2>2
<1>9. StoresAgree'
  <2>1. [Next]_vars
    BY DEF Next
  <2> QED  BY <2>1, InvInParts, StepsAgree
<1> QED  BY <1>1, <1>4, <1>5, <1>7, <1>8, <1>9, InvInParts, InvStays

LEMMA DeleteKeepsInv ==
  ASSUME Inv, NEW t \in Tasks, Delete(t)
  PROVE  Inv'
<1> DEFINE all == ToSet(vector) \cup ToSet(fulltext)
           left == ToSet(vector') \cup ToSet(fulltext')
           s == [state |-> "done"]
<1>1. /\ config' = config
      /\ vector' = Without(vector, Job(t).ids, Job(t).filter)
      /\ fulltext' = Without(fulltext, Job(t).ids, Job(t).filter)
      /\ stored' = {x \in stored : \A rec \in all \ left :
                      rec.text.doc = x.doc => rec.text.version # x.version}
      /\ task' = [task EXCEPT ![t] = s]
  BY DEF Delete, DeleteVectors, DeleteTerms
<1>2. s \in TaskStates /\ s.state # "embedding"
  BY StatesAreRecords
<1> HIDE DEF s
<1>3. Tasked(task', config.jobs)
  BY <1>1, <1>2, InvInParts, TasksStayTyped
<1>4. Dictionary(vector') /\ (vector = <<>> => vector' = <<>>)
  BY <1>1, InvInParts, WithoutIsADictionary
<1>5. Dictionary(fulltext') /\ (fulltext = <<>> => fulltext' = <<>>)
  BY <1>1, InvInParts, WithoutIsADictionary
<1>6. (~HasVectors => vector' = <<>>) /\ (~HasTerms => fulltext' = <<>>)
  BY <1>4, <1>5, InvInParts DEF StoresHold
<1>7. StoresAgree'
  <2>1. [Next]_vars
    BY DEF Next
  <2> QED  BY <2>1, InvInParts, StepsAgree
<1>8. stored' \subseteq Stored
  BY <1>1, InvInParts
<1>9. ToSet(<<>>) = {}
  BY DEF ToSet
<1>10. (HasVectors => left = ToSet(vector')) /\ (HasTerms => left = ToSet(fulltext'))
  <2>1. CASE config.kind = "hybrid"
    BY <1>1, <1>7, <2>1 DEF StoresAgree
  <2>2. CASE config.kind # "hybrid"
    BY <1>6, <1>9, <2>2, InvInParts DEF HasVectors, HasTerms, Kinds
  <2> QED  BY <2>1, <2>2
<1>11. ToSet(vector) \subseteq all /\ ToSet(fulltext) \subseteq all
  OBVIOUS
<1> HIDE DEF all, left
<1>12. HasVectors => Holds(vector', stored')
  BY <1>1, <1>10, <1>11, InvInParts, RestHolds DEF StoresHold
<1>13. HasTerms => Holds(fulltext', stored')
  BY <1>1, <1>10, <1>11, InvInParts, RestHolds DEF StoresHold
<1> QED  BY <1>1, <1>3, <1>4, <1>5, <1>6, <1>7, <1>8, <1>12, <1>13, InvInParts, InvStays

LEMMA StepsKeepInv ==
  ASSUME Inv, [Next]_vars
  PROVE  Inv'
<1>1. CASE UNCHANGED vars
  <2>1. config' = config /\ vector' = vector /\ fulltext' = fulltext /\ stored' = stored /\ task' = task
    BY <1>1 DEF vars
  <2> QED  BY <2>1, InvInParts, StoresStay
<1>2. ASSUME NEW t \in Tasks,
             StartIndex(t) \/ WriteBatch(t) \/ EmbeddingFails(t) \/ Delete(t)
               \/ StartSearch(t) \/ Search(t)
      PROVE  Inv'
  BY <1>2, StartIndexKeepsInv, WriteBatchKeepsInv, EmbeddingFailsKeepsInv, DeleteKeepsInv,
     StartSearchKeepsInv, SearchKeepsInv
<1> QED  BY <1>1, <1>2 DEF Next

(* The state of a collection stays typed: each store is a dictionary, with  *)
(* one record for an id however its batches are written and deleted, and an *)
(* answer has integer scores (InMemoryVectorProvider.upsert,                *)
(* InMemoryFullTextProvider.upsert).                                        *)
THEOREM TypeCorrect == Spec => []TypeOK
<1>1. Inv => TypeOK
  BY DEF Inv
<1> QED  BY <1>1, InitInv, StepsKeepInv, PTL DEF Spec

LEMMA WhatIsHeldIsFindable ==
  ASSUME Inv
  PROVE  DocumentsAreFindable
<1> SUFFICES ASSUME NEW t \in Tasks, Job(t).kind = "index", NEW i \in DOMAIN Job(t).docs,
                    [doc |-> Job(t).docs[i].id, version |-> Job(t).docs[i].version] \in stored
             PROVE  LET doc == Job(t).docs[i]
                        recs(store) == {r \in ToSet(store) :
                                          r.text.doc = doc.id /\ r.text.version = doc.version}
                        whole(store) == /\ recs(store) # {}
                                        /\ \A c \in 0 .. doc.length - 1 :
                                             \E r \in recs(store) : r.text.from <= c /\ c < r.text.to
                    IN  (HasVectors => whole(vector)) /\ (HasTerms => whole(fulltext))
  BY DEF DocumentsAreFindable
<1> DEFINE doc == Job(t).docs[i]
           recs(store) == {r \in ToSet(store) : r.text.doc = doc.id /\ r.text.version = doc.version}
           whole(store) == /\ recs(store) # {}
                           /\ \A c \in 0 .. doc.length - 1 :
                                \E r \in recs(store) : r.text.from <= c /\ c < r.text.to
<1>1. config \in Configs
  BY InvInParts
<1>2. doc \in Documents
  <2>1. Job(t).docs \in Seq(Documents)
    BY <1>1, ConfigsAssumption DEF Job
  <2> QED  BY <2>1
<1>3. [doc |-> doc.id, version |-> doc.version] \in stored
  OBVIOUS
<1> HIDE DEF doc
<1>4. ASSUME NEW store, Holds(store, stored)
      PROVE  whole(store)
  <2> DEFINE found == recs(store)
  <2>1. found = {r \in ToSet(store) : r.text.doc = doc.id /\ r.text.version = doc.version}
    OBVIOUS
  <2> HIDE DEF found
  <2>2. /\ found # {}
        /\ \A c \in 0 .. doc.length - 1 : \E r \in found : r.text.from <= c /\ c < r.text.to
    BY <1>1, <1>2, <1>3, <1>4, <2>1, HeldIsFindable
  <2> QED  BY <2>2 DEF found
<1> HIDE DEF recs, whole
<1>5. (HasVectors => whole(vector)) /\ (HasTerms => whole(fulltext))
  BY <1>4, InvInParts DEF StoresHold
<1> QED  BY <1>5 DEF whole, recs, doc

(* The version of a document that was indexed last and not deleted is found *)
(* whole in each store there is, for every chunk size and overlap, whatever *)
(* other batches, failures and deletions come between                       *)
(* (DefaultTextSplitter.split, IndexingPipeline.index, upsert, delete).     *)
THEOREM IndexedDocumentsAreFindable == Spec => []DocumentsAreFindable
BY InitInv, StepsKeepInv, WhatIsHeldIsFindable, PTL DEF Spec

(* An answer is made in the step of its search, from the hits of that step; *)
(* no other step has one.                                                   *)
LEMMA StepsKeepTheOrder ==
  ASSUME Inv, BetterInBothIsNotBehind, [Next]_vars
  PROVE  BetterInBothIsNotBehind'
<1> DEFINE Good(s) ==
             "chunks" \in DOMAIN s /\ config.fusion # "cascade" =>
               \A a, b \in IdsOf(s.v) \cup IdsOf(s.f) :
                 Better(s.v, s.f, a, b) => Rank(s.chunks, a) <= Rank(s.chunks, b)
<1>1. \A t \in Tasks : Good(task[t])
  BY DEF BetterInBothIsNotBehind, Better
<1>2. config' = config
  BY DEF Next, vars, StartIndex, WriteBatch, EmbeddingFails, Delete, StartSearch, Search
<1>3. SUFFICES \A t \in Tasks : Good(task'[t])
  BY <1>2 DEF BetterInBothIsNotBehind, Better
<1> HIDE DEF Good
<1>4. CASE UNCHANGED vars
  BY <1>1, <1>4 DEF vars
<1>5. ASSUME NEW t \in Tasks, NEW s, task' = [task EXCEPT ![t] = s], Good(s)
      PROVE  \A u \in Tasks : Good(task'[u])
  <2>1. task \in [Tasks -> TaskStates]
    BY InvInParts DEF Tasked
  <2> QED  BY <1>1, <1>5, <2>1
<1>6. ASSUME NEW s, "chunks" \notin DOMAIN s
      PROVE  Good(s)
  BY <1>6 DEF Good
<1>7. ASSUME NEW t \in Tasks,
             StartIndex(t) \/ WriteBatch(t) \/ EmbeddingFails(t) \/ Delete(t) \/ StartSearch(t)
      PROVE  \A u \in Tasks : Good(task'[u])
  <2>1. CASE StartIndex(t)
    <3> DEFINE s == [state |-> "embedding", batch |-> 1]
    <3>1. task' = [task EXCEPT ![t] = s] /\ "chunks" \notin DOMAIN s
      BY <2>1 DEF StartIndex, StartsBatch
    <3> HIDE DEF s
    <3> QED  BY <1>5, <1>6, <3>1
  <2>2. CASE WriteBatch(t)
    <3> DEFINE s == IF task[t].batch < Batches(t)
                    THEN [state |-> "embedding", batch |-> task[t].batch + 1] ELSE [state |-> "done"]
    <3>1. task' = [task EXCEPT ![t] = s] /\ "chunks" \notin DOMAIN s
      BY <2>2 DEF WriteBatch
    <3> HIDE DEF s
    <3> QED  BY <1>5, <1>6, <3>1
  <2>3. CASE EmbeddingFails(t)
    <3> DEFINE s == [state |-> "failed"]
    <3>1. task' = [task EXCEPT ![t] = s] /\ "chunks" \notin DOMAIN s
      BY <2>3 DEF EmbeddingFails
    <3> HIDE DEF s
    <3> QED  BY <1>5, <1>6, <3>1
  <2>4. CASE Delete(t)
    <3> DEFINE s == [state |-> "done"]
    <3>1. task' = [task EXCEPT ![t] = s] /\ "chunks" \notin DOMAIN s
      BY <2>4 DEF Delete
    <3> HIDE DEF s
    <3> QED  BY <1>5, <1>6, <3>1
  <2>5. CASE StartSearch(t)
    <3> DEFINE s == [state |-> "embedding"]
    <3>1. task' = [task EXCEPT ![t] = s] /\ "chunks" \notin DOMAIN s
      BY <2>5 DEF StartSearch
    <3> HIDE DEF s
    <3> QED  BY <1>5, <1>6, <3>1
  <2> QED  BY <1>7, <2>1, <2>2, <2>3, <2>4, <2>5
<1>8. ASSUME NEW t \in Tasks, Search(t)
      PROVE  \A u \in Tasks : Good(task'[u])
  <2>1. Job(t).kind = "search"
    BY <1>8 DEF Search
  <2>2. PICK v, f, chunks :
          /\ task' = [task EXCEPT ![t] = [state |-> "done", v |-> v, f |-> f, chunks |-> chunks]]
          /\ Answers(chunks, v, f)
    BY <1>8, <2>1, InvInParts, SearchAnswers
  <2> DEFINE s == [state |-> "done", v |-> v, f |-> f, chunks |-> chunks]
  <2>3. Good(s)
    BY <2>2 DEF Good, Answers, KeepsTheOrder
  <2>4. task' = [task EXCEPT ![t] = s]
    BY <2>2
  <2> HIDE DEF s
  <2> QED  BY <1>5, <2>3, <2>4
<1> QED  BY <1>4, <1>7, <1>8 DEF Next

(* A record ranked before another in both lists is not behind it in the     *)
(* answer, nor cut off by it: for both rank fusions, every K and Unit, and  *)
(* through the cuts by number and by score (RRFFusion.fuse,                 *)
(* WeightedFusion.fuse, HybridSearchProvider.search).                       *)
THEOREM FusionRespectsRanks == Spec => []BetterInBothIsNotBehind
<1>1. Init => BetterInBothIsNotBehind
  BY DEF Init, Idle, BetterInBothIsNotBehind
<1> QED  BY <1>1, InitInv, StepsKeepInv, StepsKeepTheOrder, PTL DEF Spec
===============================================================================
