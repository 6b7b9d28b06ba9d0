-------------------------- MODULE PagedFetchProofs --------------------------
(***************************************************************************)
(* The feed of PagedFetch, for any number of items and any size of a page. *)
(***************************************************************************)
EXTENDS PagedFetch, FiniteSetTheorems, SequenceTheorems, LeastNumber, TLAPS

-----------------------------------------------------------------------------
(* Ranks: how many elements of a set are above a number.                   *)

Above(S, i) == {j \in S : j > i}

LEMMA ItemsAreNumbers ==
  /\ Item \subseteq Nat
  /\ \A i \in Item : i >= 1 /\ i <= MaxItem /\ i - 1 \in Nat
  /\ \A i \in Nat : i >= 1 /\ i <= MaxItem => i \in Item
BY PageAssumption DEF Item

LEMMA AboveType ==
  ASSUME NEW S \in SUBSET Item, NEW i \in Nat
  PROVE  /\ IsFiniteSet(S) /\ IsFiniteSet(Above(S, i))
         /\ Cardinality(S) \in Nat /\ Cardinality(Above(S, i)) \in Nat
         /\ Cardinality(Above(S, i)) <= Cardinality(S)
         /\ \A j \in Nat :
              i <= j => Cardinality(Above(S, j)) <= Cardinality(Above(S, i))
<1>1. IsFiniteSet(Item)
  BY PageAssumption, FS_Interval DEF Item
<1>2. IsFiniteSet(S)
  BY <1>1, FS_Subset
<1>3. \A j \in Nat : Above(S, j) \in SUBSET S
  BY DEF Above
<1>4. \A j \in Nat : /\ IsFiniteSet(Above(S, j))
                     /\ Cardinality(Above(S, j)) <= Cardinality(S)
  BY <1>2, <1>3, FS_Subset
<1>5. ASSUME NEW j \in Nat, i <= j
      PROVE  Cardinality(Above(S, j)) <= Cardinality(Above(S, i))
  <2>1. \A x \in S : x \in Nat /\ (x > j => x > i)
    BY <1>5, ItemsAreNumbers
  <2>2. Above(S, j) \in SUBSET Above(S, i)
    BY <2>1 DEF Above
  <2>3. QED
    BY <1>4, <2>2, FS_Subset
<1>6. QED
  BY <1>2, <1>4, <1>5, FS_CardinalityType

LEMMA AboveStep ==
  ASSUME NEW S \in SUBSET Item, NEW i \in Item
  PROVE  Cardinality(Above(S, i - 1)) =
           IF i \in S THEN Cardinality(Above(S, i)) + 1
           ELSE Cardinality(Above(S, i))
<1>1. i \in Nat /\ i - 1 \in Nat
  BY ItemsAreNumbers
<1>2. \A j \in S : j \in Nat /\ (j > i - 1 <=> j > i \/ j = i)
  BY <1>1, ItemsAreNumbers
<1>3. i \notin Above(S, i)
  BY <1>1 DEF Above
<1>4. CASE i \in S
  <2>1. Above(S, i - 1) = Above(S, i) \cup {i}
    BY <1>2, <1>4 DEF Above
  <2>2. QED
    BY <1>1, <1>3, <1>4, <2>1, AboveType, FS_AddElement
<1>5. CASE i \notin S
  <2>1. Above(S, i - 1) = Above(S, i)
    BY <1>2, <1>5 DEF Above
  <2>2. QED
    BY <1>5, <2>1
<1>6. QED
  BY <1>4, <1>5

\* A greater element has a smaller rank.
LEMMA RankOrder ==
  ASSUME NEW S \in SUBSET Item, NEW i \in S, NEW j \in S, i < j
  PROVE  Cardinality(Above(S, i)) > Cardinality(Above(S, j))
<1>1. i \in Item /\ j \in Item /\ i \in Nat /\ j \in Nat /\ j - 1 \in Nat /\ i <= j - 1
  BY ItemsAreNumbers
<1>2. Cardinality(Above(S, j - 1)) = Cardinality(Above(S, j)) + 1
  BY <1>1, AboveStep
<1>3. Cardinality(Above(S, j - 1)) <= Cardinality(Above(S, i))
  BY <1>1, AboveType
<1>4. Cardinality(Above(S, j)) \in Nat /\ Cardinality(Above(S, i)) \in Nat
  BY <1>1, AboveType
<1>5. QED
  BY <1>2, <1>3, <1>4

LEMMA RankBound ==
  ASSUME NEW S \in SUBSET Item, NEW i \in S
  PROVE  Cardinality(Above(S, i)) < Cardinality(S)
<1>1. i \in Item /\ i \in Nat /\ i - 1 \in Nat
  BY ItemsAreNumbers
<1>2. Cardinality(Above(S, i - 1)) = Cardinality(Above(S, i)) + 1
  BY <1>1, AboveStep
<1>3. Cardinality(Above(S, i - 1)) <= Cardinality(S)
  BY <1>1, AboveType
<1>4. QED
  BY <1>1, <1>2, <1>3, AboveType

\* Every rank below the number of elements is the rank of one of them: of the
\* least number with no more above it.
LEMMA RankExists ==
  ASSUME NEW S \in SUBSET Item, NEW k \in 1..Cardinality(S)
  PROVE  \E i \in S : Cardinality(Above(S, i)) = k - 1
<1> DEFINE few == {x \in Nat : x <= MaxItem /\ Cardinality(Above(S, x)) <= k - 1}
<1>1. Cardinality(S) \in Nat /\ k \in Nat /\ k >= 1 /\ k <= Cardinality(S)
  BY AboveType
<1>2. Above(S, MaxItem) = {} /\ Above(S, 0) = S
  <2>1. \A j \in S : j > 0 /\ ~(j > MaxItem)
    BY PageAssumption, ItemsAreNumbers
  <2>2. QED
    BY <2>1 DEF Above
<1>3. MaxItem \in few
  <2>1. Cardinality(Above(S, MaxItem)) = 0
    BY <1>2, FS_EmptySet
  <2>2. QED
    BY <1>1, <2>1, PageAssumption
<1>4. PICK x \in few : \A y \in few : x <= y
  <2>1. few \in SUBSET Nat /\ few # {}
    BY <1>3
  <2> HIDE DEF few
  <2>2. QED
    BY <2>1, LeastNatural
<1>5. x \in Nat /\ x <= MaxItem /\ Cardinality(Above(S, x)) <= k - 1
  OBVIOUS
<1>6. x # 0
  BY <1>1, <1>2, <1>5
<1>7. x \in Item /\ x - 1 \in Nat /\ x - 1 <= MaxItem
  BY <1>5, <1>6, PageAssumption DEF Item
<1>8. x - 1 \notin few
  <2> HIDE DEF few
  <2>1. QED
    BY <1>4, <1>5, <1>7
<1>9. ~(Cardinality(Above(S, x - 1)) <= k - 1)
  BY <1>7, <1>8
<1>10. Cardinality(Above(S, x)) \in Nat /\ Cardinality(Above(S, x - 1)) \in Nat
  BY <1>5, <1>7, AboveType
<1>11. x \in S /\ Cardinality(Above(S, x)) = k - 1
  <2> HIDE DEF few
  <2>1. QED
    BY <1>1, <1>5, <1>7, <1>9, <1>10, AboveStep
<1>12. QED
  BY <1>11

-----------------------------------------------------------------------------
(* A page and its array.                                                   *)

\* The array of a page holds its items, each once, the greatest first.
LEMMA PageArray ==
  ASSUME NEW S \in SUBSET Item
  PROVE  /\ NewestFirst(S) \in Seq(Item)
         /\ \A k \in 1..Len(NewestFirst(S)) : NewestFirst(S)[k] \in S
         /\ \A i \in S : \E k \in 1..Len(NewestFirst(S)) : NewestFirst(S)[k] = i
         /\ \A k, m \in 1..Len(NewestFirst(S)) :
              k < m => NewestFirst(S)[k] > NewestFirst(S)[m]
<1> DEFINE n == Cardinality(S)
           at(k) == CHOOSE i \in S : Cardinality({j \in S : j > i}) = k - 1
<1>1. n \in Nat
  BY AboveType
<1>2. ASSUME NEW k \in 1..n
      PROVE  at(k) \in S /\ Cardinality(Above(S, at(k))) = k - 1
  <2>1. \E i \in S : Cardinality({j \in S : j > i}) = k - 1
    BY RankExists DEF Above
  <2>2. at(k) \in S /\ Cardinality({j \in S : j > at(k)}) = k - 1
    BY <2>1
  <2>3. QED
    BY <2>2 DEF Above
<1>3. NewestFirst(S) = [k \in 1..n |-> at(k)]
  BY DEF NewestFirst
<1> HIDE DEF at
<1>4. \A k \in 1..n : at(k) \in Item
  BY <1>2
<1>5. NewestFirst(S) \in Seq(Item) /\ Len(NewestFirst(S)) = n
  BY <1>1, <1>3, <1>4
<1>6. \A k \in 1..n : NewestFirst(S)[k] = at(k)
  BY <1>3
<1>7. ASSUME NEW i \in S PROVE \E k \in 1..n : at(k) = i
  <2>1. i \in Item /\ i \in Nat
    BY ItemsAreNumbers
  <2> DEFINE k == Cardinality(Above(S, i)) + 1
  <2>2. Cardinality(Above(S, i)) \in Nat /\ Cardinality(Above(S, i)) < n
    BY <2>1, RankBound, AboveType
  <2>3. k \in 1..n /\ k - 1 = Cardinality(Above(S, i))
    BY <1>1, <2>2
  <2>4. at(k) \in S /\ Cardinality(Above(S, at(k))) = Cardinality(Above(S, i))
    BY <1>2, <2>3
  <2>5. at(k) \in Nat
    BY <2>4, ItemsAreNumbers
  <2> HIDE DEF k
  <2>6. ~(at(k) < i) /\ ~(i < at(k))
    BY <2>4, <2>2, RankOrder
  <2>7. QED
    BY <2>1, <2>3, <2>5, <2>6
<1>8. ASSUME NEW k \in 1..n, NEW m \in 1..n, k < m PROVE at(k) > at(m)
  <2>1. at(k) \in S /\ at(m) \in S /\ at(k) \in Nat /\ at(m) \in Nat
    BY <1>2, ItemsAreNumbers
  <2>2. Cardinality(Above(S, at(k))) = k - 1 /\ Cardinality(Above(S, at(m))) = m - 1
    BY <1>2
  <2>3. at(k) # at(m)
    BY <1>1, <1>8, <2>2
  <2>4. ~(at(k) < at(m))
    BY <1>1, <1>8, <2>1, <2>2, RankOrder
  <2>5. QED
    BY <2>1, <2>3, <2>4
<1>9. QED
  BY <1>2, <1>5, <1>6, <1>7, <1>8

\* The newest of the items that are asked for: a greater one comes with any of
\* them, there are no more than Limit, and fewer only if that is all.
LEMMA PageIsNewest ==
  ASSUME NEW T \in SUBSET Item
  PROVE  /\ Newest(Limit, T) \subseteq T
         /\ \A i \in T, j \in Newest(Limit, T) : i > j => i \in Newest(Limit, T)
         /\ Cardinality(Newest(Limit, T)) <= Limit
         /\ Cardinality(Newest(Limit, T)) < Limit => Newest(Limit, T) = T
<1> DEFINE N == Newest(Limit, T)
<1>1. N = {i \in T : Cardinality(Above(T, i)) < Limit}
  BY DEF Newest, Above
<1>2. N \subseteq T /\ N \in SUBSET Item
  BY <1>1
<1> HIDE DEF N
<1>3. ASSUME NEW i \in T, NEW j \in N, i > j PROVE i \in N
  <2>1. j \in T /\ Cardinality(Above(T, j)) < Limit /\ i \in Nat /\ j \in Nat
    BY <1>1, ItemsAreNumbers
  <2>2. Cardinality(Above(T, i)) < Cardinality(Above(T, j))
    BY <1>3, <2>1, RankOrder
  <2>3. Cardinality(Above(T, i)) \in Nat /\ Cardinality(Above(T, j)) \in Nat
    BY <2>1, AboveType
  <2>4. Cardinality(Above(T, i)) < Limit
    BY <2>1, <2>2, <2>3, PageAssumption
  <2>5. QED
    BY <1>1, <2>4
<1>4. Cardinality(N) \in Nat /\ Limit \in Nat /\ Limit >= 1
  BY <1>2, AboveType, PageAssumption
<1>5. Cardinality(N) <= Limit
  <2>1. CASE N = {}
    BY <1>4, <2>1, FS_EmptySet
  <2>2. CASE N # {}
    <3>1. N \in SUBSET Nat
      BY <1>2, ItemsAreNumbers
    <3>2. PICK i \in N : \A k \in N : i <= k
      BY <2>2, <3>1, LeastNatural
    <3>3. i \in Item /\ i \in Nat /\ i - 1 \in Nat
      BY <1>2, ItemsAreNumbers
    <3>4. \A k \in N : k > i - 1
      BY <3>1, <3>2, <3>3
    <3>5. Above(N, i - 1) = N
      BY <3>4 DEF Above
    <3>6. Cardinality(N) = Cardinality(Above(N, i)) + 1
      BY <1>2, <3>3, <3>5, AboveStep
    <3>7. Above(N, i) \in SUBSET Above(T, i)
      BY <1>2 DEF Above
    <3>8. Cardinality(Above(N, i)) <= Cardinality(Above(T, i))
      BY <3>3, <3>7, AboveType, FS_Subset
    <3>9. Cardinality(Above(T, i)) < Limit
      BY <1>1
    <3>10. Cardinality(Above(N, i)) \in Nat /\ Cardinality(Above(T, i)) \in Nat
      BY <1>2, <3>3, AboveType
    <3>11. QED
      BY <1>4, <3>6, <3>8, <3>9, <3>10
  <2>3. QED
    BY <2>1, <2>2
<1>6. ASSUME N # T PROVE ~(Cardinality(N) < Limit)
  <2>1. T \ N # {} /\ T \ N \in SUBSET (0..MaxItem) /\ MaxItem \in Nat
    <3>1. \A k \in T : k \in 0..MaxItem
      BY ItemsAreNumbers, PageAssumption
    <3>2. QED
      BY <1>2, <1>6, <3>1, PageAssumption
  <2>2. PICK i \in T \ N : \A k \in T \ N : k <= i
    BY <2>1, GreatestNatural
  <2>3. i \in Nat /\ \A k \in T : k \in Nat
    BY ItemsAreNumbers
  <2>4. Above(T, i) \in SUBSET N
    <3>1. \A k \in T : k > i => k \in N
      BY <2>2, <2>3
    <3>2. QED
      BY <3>1 DEF Above
  <2>5. Cardinality(Above(T, i)) <= Cardinality(N)
    BY <1>2, <2>3, <2>4, AboveType, FS_Subset
  <2>6. ~(Cardinality(Above(T, i)) < Limit) /\ Cardinality(Above(T, i)) \in Nat
    BY <1>1, <2>3, AboveType
  <2>7. QED
    BY <1>4, <2>5, <2>6
<1>7. QED
  BY <1>2, <1>3, <1>5, <1>6 DEF N

LEMMA PageEnds ==
  ASSUME NEW S \in SUBSET Item, S # {}
  PROVE  /\ Oldest(S) \in S /\ \A j \in S : Oldest(S) <= j
         /\ Latest(S) \in S /\ \A j \in S : j <= Latest(S)
<1>1. S \in SUBSET Nat /\ S \in SUBSET (0..MaxItem) /\ MaxItem \in Nat
  BY PageAssumption DEF Item
<1>2. \E i \in S : \A j \in S : i <= j
  BY <1>1, LeastNatural
<1>3. \E i \in S : \A j \in S : j <= i
  BY <1>1, GreatestNatural
<1>4. \A i, j \in S : i >= j <=> j <= i
  BY <1>1
<1>5. \E i \in S : \A j \in S : i >= j
  BY <1>3, <1>4
<1>6. Oldest(S) \in S /\ \A j \in S : Oldest(S) <= j
  BY <1>2 DEF Oldest
<1>7. Latest(S) \in S /\ \A j \in S : Latest(S) >= j
  BY <1>5 DEF Latest
<1>8. QED
  BY <1>4, <1>6, <1>7

\* The only relation of a kind is found wherever it is in the header, and
\* nothing is found when there is none.
LEMMA RelationFound ==
  ASSUME NEW header, NEW rel, NEW name
  PROVE  /\ \A k \in DOMAIN header \cap Nat :
              /\ header[k].rel = rel /\ header[k].name = name
              /\ \A j \in DOMAIN header :
                   header[j].rel = rel /\ header[j].name = name => j = k
              => IdFromResponse(header, rel, name) = header[k].id
         /\ (\A j \in DOMAIN header : header[j].rel # rel)
              => IdFromResponse(header, rel, name) = nil
<1> DEFINE found == {k \in DOMAIN header :
                       header[k].rel = rel /\ header[k].name = name}
<1>1. ASSUME NEW k \in DOMAIN header \cap Nat, found = {k}
      PROVE  IdFromResponse(header, rel, name) = header[k].id
  <2>1. (CHOOSE i \in found : \A j \in found : i <= j) = k
    BY <1>1
  <2>2. QED
    BY <1>1, <2>1 DEF IdFromResponse
<1>2. (\A j \in DOMAIN header : header[j].rel # rel)
        => IdFromResponse(header, rel, name) = nil
  BY DEF IdFromResponse
<1>3. QED
  BY <1>1, <1>2

\* What is read from the header of a page is where the page ends, whatever the
\* order of its relations.
LEMMA IdsOfPage ==
  ASSUME NEW S \in SUBSET Item, NEW header \in Links(S)
  PROVE  /\ header \in Seq(Relation)
         /\ SinceIdFromResponse(header) = IF S = {} THEN nil ELSE Latest(S)
         /\ \/ MaxIdFromResponse(header) = nil /\ Cardinality(S) < Limit
            \/ S # {} /\ MaxIdFromResponse(header) = Oldest(S)
<1> DEFINE next == [rel |-> "next", name |-> "max_id", id |-> Oldest(S)]
           prev == [rel |-> "prev", name |-> "since_id", id |-> Latest(S)]
<1>1. CASE S = {}
  <2>1. header = <<>> /\ Cardinality(S) = 0 /\ Limit \in Nat \ {0}
    BY <1>1, FS_EmptySet, PageAssumption DEF Links
  <2>2. DOMAIN header = {}
    BY <2>1
  <2>3. \A j \in DOMAIN header : header[j].rel # "next" /\ header[j].rel # "prev"
    BY <2>2
  <2>4. MaxIdFromResponse(header) = nil /\ SinceIdFromResponse(header) = nil
    BY <2>3, RelationFound DEF MaxIdFromResponse, SinceIdFromResponse
  <2>5. QED
    BY <1>1, <2>1, <2>4
<1>2. CASE S # {}
  <2>1. next \in Relation /\ prev \in Relation
    BY <1>2, PageEnds DEF Relation
  <2>2. \/ header = <<next, prev>> \/ header = <<prev, next>>
        \/ header = <<prev>> /\ Cardinality(S) < Limit
    BY <1>2 DEF Links
  <2>3. /\ next.rel = "next" /\ next.name = "max_id" /\ next.id = Oldest(S)
        /\ prev.rel = "prev" /\ prev.name = "since_id" /\ prev.id = Latest(S)
    OBVIOUS
  <2> HIDE DEF next, prev
  <2>4. CASE header = <<next, prev>>
    <3>1. /\ DOMAIN header = {1, 2} /\ header[1] = next /\ header[2] = prev
          /\ header \in Seq(Relation)
      BY <2>1, <2>4
    <3>2. SinceIdFromResponse(header) = header[2].id
      BY <2>3, <3>1, RelationFound DEF SinceIdFromResponse
    <3>3. MaxIdFromResponse(header) = header[1].id
      BY <2>3, <3>1, RelationFound DEF MaxIdFromResponse
    <3>4. QED
      BY <1>2, <2>3, <3>1, <3>2, <3>3
  <2>5. CASE header = <<prev, next>>
    <3>1. /\ DOMAIN header = {1, 2} /\ header[1] = prev /\ header[2] = next
          /\ header \in Seq(Relation)
      BY <2>1, <2>5
    <3>2. SinceIdFromResponse(header) = header[1].id
      BY <2>3, <3>1, RelationFound DEF SinceIdFromResponse
    <3>3. MaxIdFromResponse(header) = header[2].id
      BY <2>3, <3>1, RelationFound DEF MaxIdFromResponse
    <3>4. QED
      BY <1>2, <2>3, <3>1, <3>2, <3>3
  <2>6. CASE header = <<prev>> /\ Cardinality(S) < Limit
    <3>1. /\ DOMAIN header = {1} /\ header[1] = prev
          /\ header \in Seq(Relation)
      BY <2>1, <2>6
    <3>2. SinceIdFromResponse(header) = header[1].id
      BY <2>3, <3>1, RelationFound DEF SinceIdFromResponse
    <3>3. MaxIdFromResponse(header) = nil
      BY <2>3, <3>1, RelationFound DEF MaxIdFromResponse
    <3>4. QED
      BY <1>2, <2>3, <2>6, <3>1, <3>2, <3>3
  <2>7. QED
    BY <2>2, <2>4, <2>5, <2>6
<1>3. QED
  BY <1>1, <1>2

-----------------------------------------------------------------------------
(* The invariant.                                                          *)

ShownSorted ==
  \A k, m \in 1..Len(feed) : k < m => feed[k] > feed[m]

\* What is shown lies between the two ids the next calls are made with.
FeedBetweenIds ==
  /\ \A k \in 1..Len(feed) : feed[k] <= sinceId
  /\ walk = "walking" =>
       maxId # nil /\ maxId <= sinceId /\ \A k \in 1..Len(feed) : maxId <= feed[k]
  /\ walk = "new" => feed = <<>> /\ sinceId = nil /\ maxId = nil
  /\ sinceId <= created

\* Nobody asks for newer items before the first page, or for older ones after
\* the last.
CallsInOrder ==
  /\ walk = "new" => call["newer"] = "none"
  /\ walk = "ended" => call["older"] = "none"

Created(S) == \A i \in S : i <= created

\* The ids of the header of an answer.
MaxIdOf(e) == MaxIdFromResponse(link[e])
SinceIdOf(e) == SinceIdFromResponse(link[e])

\* They are the ends of its page, where it has an older end.
PageAndIds(e) ==
  /\ Created(page[e])
  /\ page[e] = {} => SinceIdOf(e) = nil
  /\ page[e] # {} => SinceIdOf(e) \in page[e]
  /\ \A i \in page[e] : i <= SinceIdOf(e)
  /\ MaxIdOf(e) = nil \/ MaxIdOf(e) \in page[e]
  /\ \A i \in page[e] : MaxIdOf(e) <= i

\* A page of older items holds all that there are between the ids, and of
\* those there were at the beginning all down to the new id.
OlderPage ==
  call["older"] = "answered" =>
    /\ PageAndIds("older")
    /\ walk = "walking" => \A i \in page["older"] : i < maxId
    /\ \A i \in items :
         /\ walk = "walking" => i < maxId
         /\ walk = "new" => i <= SinceIdOf("older")
         /\ MaxIdOf("older") <= i
         => i \in page["older"]
    /\ walk = "new" =>
         \A i \in first \cap items : MaxIdOf("older") <= i => i \in page["older"]

\* A page of newer items is all that there are up to its new id, unless it is
\* full.
NewerPage ==
  call["newer"] = "answered" =>
    /\ PageAndIds("newer")
    /\ \A i \in page["newer"] : sinceId < i
    /\ \/ Cardinality(page["newer"]) = Limit
       \/ \A i \in items :
            sinceId < i /\ i <= SinceIdOf("newer") => i \in page["newer"]

FeedInv ==
  /\ TypeOK /\ Created(items) /\ Created(first)
  /\ ShownSorted /\ FeedBetweenIds /\ CallsInOrder
  /\ OlderPage /\ NewerPage
  /\ WalkMissesNothing /\ RefreshMissesNothing

LEMMA FeedInit == Init => FeedInv
<1> SUFFICES ASSUME Init PROVE FeedInv
  OBVIOUS
<1>1. created \in Nat /\ \A i \in 1..created : i \in Item /\ i <= created
  BY PageAssumption DEF Init, Item
<1>2. TypeOK
  BY <1>1 DEF Init, TypeOK, End
<1>3. Created(items) /\ Created(first)
  BY <1>1 DEF Init, Created
<1>4. /\ ShownSorted /\ FeedBetweenIds /\ CallsInOrder
      /\ OlderPage /\ NewerPage /\ WalkMissesNothing
  BY <1>1 DEF Init, ShownSorted, FeedBetweenIds, CallsInOrder, OlderPage, NewerPage,
              WalkMissesNothing, End, nil
<1>5. RefreshMissesNothing
  BY <1>1 DEF Init, RefreshMissesNothing, nil
<1>6. QED
  BY <1>2, <1>3, <1>4, <1>5 DEF FeedInv

\* Two arrays joined show what each of them shows.
LEMMA JoinedFeed ==
  ASSUME NEW s \in Seq(Item), NEW t \in Seq(Item)
  PROVE  /\ s \o t \in Seq(Item)
         /\ \A k \in 1..Len(s \o t) :
              \/ k \in 1..Len(s) /\ (s \o t)[k] = s[k]
              \/ k - Len(s) \in 1..Len(t) /\ (s \o t)[k] = t[k - Len(s)]
         /\ \A k \in 1..Len(s) : k \in 1..Len(s \o t) /\ (s \o t)[k] = s[k]
         /\ \A k \in 1..Len(t) :
              k + Len(s) \in 1..Len(s \o t) /\ (s \o t)[k + Len(s)] = t[k]
<1> DEFINE u == s \o t
<1>1. /\ u \in Seq(Item) /\ Len(u) = Len(s) + Len(t)
      /\ \A k \in 1..(Len(s) + Len(t)) :
           u[k] = IF k <= Len(s) THEN s[k] ELSE t[k - Len(s)]
  BY ConcatProperties, Zenon
<1>2. Len(s) \in Nat /\ Len(t) \in Nat
  OBVIOUS
<1> HIDE DEF u
<1>3. \A k \in 1..Len(u) :
        \/ k \in 1..Len(s) /\ u[k] = s[k]
        \/ k - Len(s) \in 1..Len(t) /\ u[k] = t[k - Len(s)]
  BY <1>1, <1>2
<1>4. \A k \in 1..Len(s) : k \in 1..Len(u) /\ u[k] = s[k]
  BY <1>1, <1>2
<1>5. \A k \in 1..Len(t) : k + Len(s) \in 1..Len(u) /\ u[k + Len(s)] = t[k]
  <2>1. SUFFICES ASSUME NEW k \in 1..Len(t)
                 PROVE  k + Len(s) \in 1..Len(u) /\ u[k + Len(s)] = t[k]
    OBVIOUS
  <2>2. /\ k + Len(s) \in 1..(Len(s) + Len(t)) /\ ~(k + Len(s) <= Len(s))
        /\ k + Len(s) - Len(s) = k
    BY <1>2
  <2>3. QED
    BY <1>1, <2>2
<1>6. QED
  BY <1>1, <1>3, <1>4, <1>5 DEF u

\* Two sorted arrays, the first above the second.
LEMMA JoinedSorted ==
  ASSUME NEW s \in Seq(Item), NEW t \in Seq(Item),
         \A k, m \in 1..Len(s) : k < m => s[k] > s[m],
         \A k, m \in 1..Len(t) : k < m => t[k] > t[m],
         \A k \in 1..Len(s), m \in 1..Len(t) : s[k] > t[m]
  PROVE  \A k, m \in 1..Len(s \o t) : k < m => (s \o t)[k] > (s \o t)[m]
<1> DEFINE u == s \o t
<1>1. \A k \in 1..Len(u) : \/ k \in 1..Len(s) /\ u[k] = s[k]
                           \/ k - Len(s) \in 1..Len(t) /\ u[k] = t[k - Len(s)]
  BY JoinedFeed
<1>2. Len(s) \in Nat /\ Len(u) \in Nat
  BY JoinedFeed
<1> HIDE DEF u
<1>3. SUFFICES ASSUME NEW k \in 1..Len(u), NEW m \in 1..Len(u), k < m
               PROVE  u[k] > u[m]
  BY DEF u
<1>4. CASE m \in 1..Len(s) /\ u[m] = s[m]
  <2>1. k \in 1..Len(s) /\ u[k] = s[k]
    BY <1>1, <1>2, <1>3, <1>4
  <2>2. QED
    BY <1>3, <1>4, <2>1
<1>5. CASE m - Len(s) \in 1..Len(t) /\ u[m] = t[m - Len(s)]
  <2>1. CASE k \in 1..Len(s) /\ u[k] = s[k]
    BY <1>5, <2>1
  <2>2. CASE k - Len(s) \in 1..Len(t) /\ u[k] = t[k - Len(s)]
    BY <1>2, <1>3, <1>5, <2>2
  <2>3. QED
    BY <1>1, <2>1, <2>2
<1>6. QED
  BY <1>1, <1>4, <1>5

LEMMA Numbers ==
  ASSUME TypeOK
  PROVE  /\ created \in Nat /\ maxId \in Nat /\ sinceId \in Nat /\ nil = 0
         /\ \A i \in Item : i \in Nat /\ i >= 1
         /\ \A k \in 1..Len(feed) : feed[k] \in Item
         /\ \A e \in End : page[e] \in SUBSET Item
         /\ "older" \in End /\ "newer" \in End
         /\ Len(feed) \in Nat
  BY ItemsAreNumbers DEF TypeOK, nil, End

\* A page that is answered has ids no item still to be created has.
LEMMA IdsAreOld ==
  ASSUME FeedInv, NEW e \in End, PageAndIds(e)
  PROVE  /\ SinceIdOf(e) \in Nat /\ SinceIdOf(e) <= created
         /\ MaxIdOf(e) \in Nat
         /\ page[e] \in SUBSET Item
         /\ \A i \in page[e] : i \in Nat
  BY Numbers DEF FeedInv, PageAndIds, Created

LEMMA IdsStay ==
  ASSUME NEW e \in End, link'[e] = link[e]
  PROVE  MaxIdOf(e)' = MaxIdOf(e) /\ SinceIdOf(e)' = SinceIdOf(e)
<1>1. MaxIdOf(e)' = MaxIdOf(e)
  BY DEF MaxIdOf, MaxIdFromResponse
<1>2. SinceIdOf(e)' = SinceIdOf(e)
  BY DEF SinceIdOf, SinceIdFromResponse, IdFromResponse
<1>3. QED
  BY <1>1, <1>2

LEMMA PageStays ==
  ASSUME FeedInv, NEW e \in End, PageAndIds(e), link'[e] = link[e],
         page'[e] = page[e], created' \in Nat, created <= created'
  PROVE  PageAndIds(e)'
<1>1. \A i \in page[e] : i <= created'
  BY IdsAreOld, Numbers DEF FeedInv, PageAndIds, Created
<1>2. QED
  BY <1>1, IdsStay DEF PageAndIds, Created

\* What is shown is as it was, and a page in flight is none or the same.
LEMMA CreateStep ==
  ASSUME FeedInv, Create
  PROVE  FeedInv'
<1> USE DEF FeedInv
<1>1. /\ created' = created + 1 /\ items' = items \cup {created + 1}
      /\ UNCHANGED <<first, feed, maxId, sinceId, walk, gap, call, page, link>>
      /\ created + 1 \in Item
  <2>1. created' = created + 1 /\ items' = items \cup {created'} /\ created < MaxItem
    BY DEF Create
  <2>2. UNCHANGED <<first, feed, maxId, sinceId, walk, gap, call, page, link>>
    BY DEF Create, feedVars, callVars
  <2>3. created + 1 \in Item
    BY <2>1, Numbers, ItemsAreNumbers, PageAssumption
  <2>4. QED
    BY <2>1, <2>2, <2>3
<1>2. TypeOK'
  BY <1>1, ItemsAreNumbers DEF TypeOK
<1>3. /\ \A i \in items \cup first : i \in Nat /\ i <= created
      /\ \A e \in End : \A i \in page[e] : i \in Nat
      /\ created \in Nat /\ sinceId \in Nat /\ maxId \in Nat
      /\ sinceId <= created
  BY Numbers DEF TypeOK, Created, FeedBetweenIds
<1>4. Created(items)' /\ Created(first)'
  BY <1>1, <1>3 DEF Created
<1>5. ShownSorted' /\ FeedBetweenIds' /\ CallsInOrder'
  BY <1>1, <1>3 DEF ShownSorted, FeedBetweenIds, CallsInOrder
<1>6. \A e \in End : /\ MaxIdOf(e)' = MaxIdOf(e) /\ SinceIdOf(e)' = SinceIdOf(e)
                     /\ PageAndIds(e) => PageAndIds(e)'
  BY <1>1, <1>3, IdsStay, PageStays
<1>7. OlderPage' /\ NewerPage'
  <2>1. ASSUME call["older"] = "answered" PROVE OlderPage'
    <3>1. /\ PageAndIds("older") /\ PageAndIds("older")'
          /\ SinceIdOf("older") \in Nat /\ SinceIdOf("older") <= created
          /\ SinceIdOf("older")' = SinceIdOf("older")
          /\ MaxIdOf("older")' = MaxIdOf("older")
      BY <1>6, <2>1, IdsAreOld DEF OlderPage, End
    <3>2. walk \in {"new", "walking"}
      BY <2>1 DEF CallsInOrder, TypeOK
    <3>3. walk = "walking" => maxId <= created
      BY <1>3 DEF FeedBetweenIds
    <3>4. /\ walk = "walking" => ~(created + 1 < maxId)
          /\ ~(created + 1 <= SinceIdOf("older"))
          /\ created + 1 \notin first
      BY <1>3, <3>1, <3>3
    <3>5. QED
      BY <1>1, <2>1, <3>1, <3>2, <3>4 DEF OlderPage
  <2>2. ASSUME call["newer"] = "answered" PROVE NewerPage'
    <3>1. /\ PageAndIds("newer") /\ PageAndIds("newer")'
          /\ SinceIdOf("newer") \in Nat /\ SinceIdOf("newer") <= created
          /\ SinceIdOf("newer")' = SinceIdOf("newer")
      BY <1>6, <2>2, IdsAreOld DEF NewerPage, End
    <3>2. ~(created + 1 <= SinceIdOf("newer"))
      BY <1>3, <3>1
    <3>3. QED
      BY <1>1, <2>2, <3>1, <3>2 DEF NewerPage
  <2>3. QED
    BY <1>1, <2>1, <2>2 DEF OlderPage, NewerPage
<1>8. WalkMissesNothing'
  BY <1>1, <1>3 DEF WalkMissesNothing, Shown
<1>9. RefreshMissesNothing'
  <2>1. ~(created + 1 <= sinceId)
    BY <1>3
  <2>2. QED
    BY <1>1, <2>1 DEF RefreshMissesNothing, Shown
<1>10. QED
  BY <1>2, <1>4, <1>5, <1>7, <1>8, <1>9

\* Items go, a call begins or fails.
LEMMA QuietSteps ==
  ASSUME FeedInv, TypeOK',
         UNCHANGED <<created, first, feed, maxId, sinceId, walk, gap>>,
         items' \subseteq items,
         \A e \in End :
           \/ /\ call'[e] = call[e]
              /\ page'[e] = page[e] /\ link'[e] = link[e]
           \/ call'[e] = "none"
           \/ /\ call'[e] = "sent"
              /\ e = "older" => walk # "ended"
              /\ e = "newer" => walk # "new"
  PROVE  FeedInv'
<1> USE DEF FeedInv
<1>1. "older" \in End /\ "newer" \in End
  BY DEF End
<1>2. Created(items)' /\ Created(first)' /\ ShownSorted' /\ FeedBetweenIds'
  BY DEF Created, ShownSorted, FeedBetweenIds
<1>3. CallsInOrder'
  BY <1>1 DEF CallsInOrder
<1>4. ASSUME NEW e \in End, call'[e] = "answered"
      PROVE  /\ call[e] = "answered" /\ page'[e] = page[e]
             /\ MaxIdOf(e)' = MaxIdOf(e) /\ SinceIdOf(e)' = SinceIdOf(e)
             /\ PageAndIds(e) => PageAndIds(e)'
  <2>1. call[e] = "answered" /\ page'[e] = page[e] /\ link'[e] = link[e]
    BY <1>4
  <2>2. created \in Nat /\ created' \in Nat /\ created <= created'
    BY Numbers
  <2>3. QED
    BY <2>1, <2>2, IdsStay, PageStays
<1>5. OlderPage' /\ NewerPage'
  BY <1>1, <1>4 DEF OlderPage, NewerPage
<1>6. WalkMissesNothing' /\ RefreshMissesNothing'
  BY DEF WalkMissesNothing, RefreshMissesNothing, Shown
<1>7. QED
  BY <1>2, <1>3, <1>5, <1>6

LEMMA OtherSteps ==
  ASSUME FeedInv,
         \/ \E i \in Item : Delete(i)
         \/ \E e \in End : Fetch(e) \/ CallFails(e)
         \/ UNCHANGED vars
  PROVE  FeedInv'
<1> USE DEF FeedInv
<1>1. ASSUME NEW i \in Item, Delete(i) PROVE FeedInv'
  <2>1. TypeOK'
    BY <1>1 DEF Delete, feedVars, callVars, TypeOK
  <2>2. QED
    BY <1>1, <2>1, QuietSteps DEF Delete, feedVars, callVars
<1>2. ASSUME NEW e \in End, Fetch(e) PROVE FeedInv'
  <2>1. TypeOK'
    BY <1>2 DEF Fetch, feedVars, TypeOK
  <2>2. QED
    BY <1>2, <2>1, QuietSteps DEF Fetch, feedVars, TypeOK
<1>3. ASSUME NEW e \in End, CallFails(e) PROVE FeedInv'
  <2>1. TypeOK'
    BY <1>3 DEF CallFails, Ended, feedVars, TypeOK
  <2>2. QED
    BY <1>3, <2>1, QuietSteps DEF CallFails, Ended, feedVars, TypeOK
<1>4. CASE UNCHANGED vars
  <2>1. TypeOK'
    BY <1>4 DEF vars, feedVars, callVars, TypeOK
  <2>2. QED
    BY <1>4, <2>1, QuietSteps DEF vars, feedVars, callVars
<1>5. QED
  BY <1>1, <1>2, <1>3, <1>4

-----------------------------------------------------------------------------
(* An answer is made.                                                      *)

\* The items each end of the feed asks for.
Asked(e) ==
  IF e = "older" THEN {i \in items : maxId # nil => i < maxId}
  ELSE {i \in items : sinceId # nil => i > sinceId}

LEMMA ServerPageIsNewest ==
  ASSUME NEW e \in End
  PROVE  ServerPage(CallParameters(e)) = Newest(Limit, Asked(e))
<1> DEFINE Left(params) ==
             {i \in items : /\ \A p \in params : p[1] = "max_id" => i < p[2]
                            /\ \A p \in params : p[1] = "since_id" => i > p[2]}
<1>1. \A m, n :
        /\ \A i : (\A p \in Parameters(m, n) : p[1] = "max_id" => i < p[2])
                    <=> (m # nil => i < m)
        /\ \A i : (\A p \in Parameters(m, n) : p[1] = "since_id" => i > p[2])
                    <=> (n # nil => i > n)
  <2> SUFFICES ASSUME NEW m, NEW n
               PROVE  /\ \A i : (\A p \in Parameters(m, n) :
                                   p[1] = "max_id" => i < p[2])
                                  <=> (m # nil => i < m)
                      /\ \A i : (\A p \in Parameters(m, n) :
                                   p[1] = "since_id" => i > p[2])
                                  <=> (n # nil => i > n)
    OBVIOUS
  <2>1. \A p : p \in Parameters(m, n) <=>
                 \/ p = <<"max_id", m>> /\ m # nil
                 \/ p = <<"since_id", n>> /\ n # nil
    BY DEF Parameters
  <2>2. /\ <<"max_id", m>>[1] = "max_id" /\ <<"max_id", m>>[2] = m
        /\ <<"since_id", n>>[1] = "since_id" /\ <<"since_id", n>>[2] = n
        /\ "max_id" # "since_id"
    OBVIOUS
  <2>3. \A p \in Parameters(m, n) :
          /\ p[1] = "max_id" => m # nil /\ p[2] = m
          /\ p[1] = "since_id" => n # nil /\ p[2] = n
    BY <2>1, <2>2
  <2>4. /\ m # nil => \E p \in Parameters(m, n) : p[1] = "max_id" /\ p[2] = m
        /\ n # nil => \E p \in Parameters(m, n) : p[1] = "since_id" /\ p[2] = n
    BY <2>1, <2>2
  <2>5. \A i : (\A p \in Parameters(m, n) : p[1] = "max_id" => i < p[2])
                 <=> (m # nil => i < m)
    BY <2>3, <2>4
  <2>6. \A i : (\A p \in Parameters(m, n) : p[1] = "since_id" => i > p[2])
                 <=> (n # nil => i > n)
    BY <2>3, <2>4
  <2>7. QED
    BY <2>5, <2>6
<1>2. CASE e = "older"
  <2>1. CallParameters(e) = Parameters(maxId, nil)
    BY <1>2 DEF CallParameters
  <2>2. Left(Parameters(maxId, nil)) = Asked(e)
    BY <1>1, <1>2 DEF Asked
  <2>3. QED
    BY <2>1, <2>2 DEF ServerPage
<1>3. CASE e = "newer"
  <2>1. CallParameters(e) = Parameters(nil, sinceId)
    BY <1>3 DEF CallParameters
  <2>2. Left(Parameters(nil, sinceId)) = Asked(e)
    BY <1>1, <1>3 DEF Asked
  <2>3. QED
    BY <2>1, <2>2 DEF ServerPage
<1>4. QED
  BY <1>2, <1>3 DEF End

\* The page that is served and the ids of its header, and that it is all that
\* was asked for from its older id on.
LEMMA ServedPage ==
  ASSUME FeedInv, NEW e \in End, Serve(e)
  PROVE  /\ call' = [call EXCEPT ![e] = "answered"]
         /\ \A f \in End \ {e} : page'[f] = page[f] /\ link'[f] = link[f]
         /\ page'[e] \in SUBSET Item /\ page'[e] \subseteq Asked(e)
         /\ link' \in [End -> Seq(Relation)] /\ page' \in [End -> SUBSET Item]
         /\ PageAndIds(e)'
         /\ \A i \in Asked(e) : MaxIdOf(e)' <= i => i \in page'[e]
         /\ \A i \in Asked(e), j \in page'[e] : i > j => i \in page'[e]
         /\ Cardinality(page'[e]) <= Limit
         /\ Cardinality(page'[e]) < Limit => page'[e] = Asked(e)
<1> USE DEF FeedInv
<1> DEFINE S == Newest(Limit, Asked(e))
<1>1. PICK l \in Links(S) : link' = [link EXCEPT ![e] = l]
  BY ServerPageIsNewest DEF Serve
<1>2. page' = [page EXCEPT ![e] = S] /\ call' = [call EXCEPT ![e] = "answered"]
  BY ServerPageIsNewest DEF Serve
<1>3. Asked(e) \in SUBSET Item /\ Asked(e) \subseteq items
  BY DEF Asked, TypeOK
<1>4. /\ S \subseteq Asked(e) /\ S \in SUBSET Item
      /\ \A i \in Asked(e), j \in S : i > j => i \in S
      /\ Cardinality(S) <= Limit
      /\ Cardinality(S) < Limit => S = Asked(e)
  BY <1>3, PageIsNewest
<1> HIDE DEF S
<1>5. /\ l \in Seq(Relation)
      /\ SinceIdFromResponse(l) = IF S = {} THEN nil ELSE Latest(S)
      /\ \/ MaxIdFromResponse(l) = nil /\ Cardinality(S) < Limit
         \/ S # {} /\ MaxIdFromResponse(l) = Oldest(S)
  BY <1>1, <1>4, IdsOfPage
<1>6. /\ page'[e] = S /\ link'[e] = l
      /\ \A f \in End \ {e} : page'[f] = page[f] /\ link'[f] = link[f]
      /\ link' \in [End -> Seq(Relation)] /\ page' \in [End -> SUBSET Item]
  BY <1>1, <1>2, <1>4, <1>5 DEF TypeOK
<1>7. MaxIdOf(e)' = MaxIdFromResponse(l) /\ SinceIdOf(e)' = SinceIdFromResponse(l)
  BY <1>6 DEF MaxIdOf, SinceIdOf, MaxIdFromResponse, SinceIdFromResponse,
              IdFromResponse
<1>8. \A i \in S : i \in Nat /\ i >= 1 /\ i <= created
  BY <1>3, <1>4, ItemsAreNumbers DEF Created
<1>9. PageAndIds(e)'
  <2>1. created' = created
    BY DEF Serve
  <2>2. CASE S = {}
    BY <1>5, <1>6, <1>7, <2>2 DEF PageAndIds, Created
  <2>3. CASE S # {}
    <3>1. /\ SinceIdFromResponse(l) \in S /\ \A i \in S : i <= SinceIdFromResponse(l)
          /\ \/ MaxIdFromResponse(l) = nil
             \/ /\ MaxIdFromResponse(l) \in S
                /\ \A i \in S : MaxIdFromResponse(l) <= i
      BY <1>4, <1>5, <2>3, PageEnds
    <3>2. \A i \in S : nil <= i
      BY <1>8 DEF nil
    <3>3. \A i \in S : MaxIdFromResponse(l) <= i
      BY <3>1, <3>2
    <3>4. Created(page[e])'
      BY <1>6, <1>8, <2>1 DEF Created
    <3>5. QED
      BY <1>6, <1>7, <2>3, <3>1, <3>3, <3>4 DEF PageAndIds
  <2>4. QED
    BY <2>2, <2>3
<1>10. ASSUME NEW i \in Asked(e), MaxIdOf(e)' <= i PROVE i \in S
  <2>1. CASE MaxIdFromResponse(l) = nil /\ Cardinality(S) < Limit
    BY <1>4, <2>1
  <2>2. CASE S # {} /\ MaxIdFromResponse(l) = Oldest(S)
    <3>1. Oldest(S) \in S /\ Oldest(S) <= i
      BY <1>4, <1>7, <1>10, <2>2, PageEnds
    <3>2. i \in Nat /\ Oldest(S) \in Nat
      BY <1>3, <1>8, <3>1, ItemsAreNumbers
    <3>3. i = Oldest(S) \/ i > Oldest(S)
      BY <3>1, <3>2
    <3>4. QED
      BY <1>4, <3>1, <3>3
  <2>3. QED
    BY <1>5, <2>1, <2>2
<1>11. QED
  BY <1>2, <1>4, <1>6, <1>9, <1>10

LEMMA ServeStep ==
  ASSUME FeedInv, NEW e \in End, Serve(e)
  PROVE  FeedInv'
<1> USE DEF FeedInv
<1>1. /\ UNCHANGED <<items, created, feed, maxId, sinceId, walk, gap>>
      /\ first' = IF walk = "new" THEN items ELSE first
      /\ call[e] = "sent"
  BY DEF Serve, feedVars
<1>2. TypeOK'
  BY <1>1, ServedPage DEF TypeOK
<1>3. /\ Created(items)' /\ Created(first)'
      /\ ShownSorted' /\ FeedBetweenIds' /\ RefreshMissesNothing'
  BY <1>1 DEF Created, ShownSorted, FeedBetweenIds, RefreshMissesNothing, Shown
<1>4. WalkMissesNothing'
  BY <1>1 DEF WalkMissesNothing, Shown
<1>5. /\ call'[e] = "answered" /\ \A f \in End \ {e} : call'[f] = call[f]
      /\ \A f \in End \ {e} : page'[f] = page[f] /\ link'[f] = link[f]
  BY ServedPage DEF TypeOK
<1>6. CallsInOrder'
  BY <1>1, <1>5 DEF CallsInOrder, End
<1>7. /\ maxId \in Nat /\ sinceId \in Nat /\ created \in Nat /\ nil = 0
      /\ \A i \in items : i \in Nat /\ i >= 1
  BY Numbers DEF TypeOK
<1>8. \A f \in End \ {e} :
        /\ MaxIdOf(f)' = MaxIdOf(f) /\ SinceIdOf(f)' = SinceIdOf(f)
        /\ PageAndIds(f) => PageAndIds(f)'
  BY <1>1, <1>5, <1>7, IdsStay, PageStays
<1>9. CASE e = "older"
  <2>1. Asked(e) = {i \in items : maxId # nil => i < maxId}
    BY <1>9 DEF Asked
  <2>2. walk = "new" => maxId = nil
    BY DEF FeedBetweenIds
  <2>3. walk = "walking" => maxId # nil
    BY DEF FeedBetweenIds
  <2>4. walk \in {"new", "walking"}
    BY <1>1, <1>9 DEF CallsInOrder, TypeOK
  <2>5. /\ PageAndIds("older")' /\ page'["older"] \subseteq Asked(e)
        /\ \A i \in Asked(e) : MaxIdOf("older")' <= i => i \in page'["older"]
    BY <1>9, ServedPage
  <2>6. OlderPage'
    BY <1>1, <2>1, <2>2, <2>3, <2>4, <2>5 DEF OlderPage
  <2>7. NewerPage'
    BY <1>1, <1>5, <1>8, <1>9 DEF NewerPage, End
  <2>8. QED
    BY <1>2, <1>3, <1>4, <1>6, <2>6, <2>7
<1>10. CASE e = "newer"
  <2>1. Asked(e) = {i \in items : sinceId # nil => i > sinceId}
    BY <1>10 DEF Asked
  <2>2. /\ PageAndIds("newer")' /\ page'["newer"] \subseteq Asked(e)
        /\ Cardinality(page'["newer"]) <= Limit
        /\ Cardinality(page'["newer"]) < Limit => page'["newer"] = Asked(e)
        /\ page'["newer"] \in SUBSET Item
    BY <1>10, ServedPage
  <2>3. Cardinality(page'["newer"]) \in Nat /\ Limit \in Nat
    BY <2>2, AboveType, PageAssumption
  <2>4. Cardinality(page'["newer"]) = Limit \/ page'["newer"] = Asked(e)
    BY <2>2, <2>3
  <2>5. \A i \in items : i \in Asked(e) <=> sinceId < i
    BY <1>7, <2>1
  <2>6. \A i \in page'["newer"] : sinceId < i
    BY <2>1, <2>2, <2>5
  <2>7. NewerPage'
    BY <1>1, <2>2, <2>4, <2>5, <2>6 DEF NewerPage
  <2>8. walk # "new"
    BY <1>1, <1>10 DEF CallsInOrder
  <2>9. OlderPage'
    BY <1>1, <1>5, <1>8, <1>10, <2>8 DEF OlderPage, End
  <2>10. QED
    BY <1>2, <1>3, <1>4, <1>6, <2>7, <2>9
<1>11. QED
  BY <1>9, <1>10 DEF End

-----------------------------------------------------------------------------
(* A page is shown.                                                        *)

\* The call at the end e is over; the other one is as it was.
LEMMA EndedCall ==
  ASSUME FeedInv, NEW e \in End, Ended(e), created' = created
  PROVE  /\ call'[e] = "none"
         /\ \A f \in End \ {e} :
              /\ call'[f] = call[f] /\ page'[f] = page[f]
              /\ MaxIdOf(f)' = MaxIdOf(f) /\ SinceIdOf(f)' = SinceIdOf(f)
              /\ PageAndIds(f) => PageAndIds(f)'
         /\ call' \in [End -> {"none", "sent", "answered"}]
         /\ page' \in [End -> SUBSET Item] /\ link' \in [End -> Seq(Relation)]
<1> USE DEF FeedInv
<1>1. /\ call' = [call EXCEPT ![e] = "none"]
      /\ page' = [page EXCEPT ![e] = {}] /\ link' = [link EXCEPT ![e] = <<>>]
  BY DEF Ended
<1>2. <<>> \in Seq(Relation)
  OBVIOUS
<1>3. /\ call' \in [End -> {"none", "sent", "answered"}]
      /\ page' \in [End -> SUBSET Item] /\ link' \in [End -> Seq(Relation)]
  BY <1>1, <1>2 DEF TypeOK
<1>4. /\ call'[e] = "none"
      /\ \A f \in End \ {e} :
           call'[f] = call[f] /\ page'[f] = page[f] /\ link'[f] = link[f]
  BY <1>1 DEF TypeOK
<1>5. created \in Nat /\ created' \in Nat /\ created <= created'
  BY Numbers
<1>6. QED
  BY <1>3, <1>4, <1>5, IdsStay, PageStays

\* The feed g shows what the feed f showed, and the page S.
ShowsBoth(g, f, S) ==
  /\ g \in Seq(Item)
  /\ \A k \in 1..Len(g) : g[k] \in S \/ \E m \in 1..Len(f) : g[k] = f[m]
  /\ \A i \in S : \E k \in 1..Len(g) : g[k] = i
  /\ \A m \in 1..Len(f) : \E k \in 1..Len(g) : g[k] = f[m]

LEMMA ShownPage ==
  ASSUME NEW S \in SUBSET Item, NEW f \in Seq(Item)
  PROVE  ShowsBoth(NewestFirst(S) \o f, f, S) /\ ShowsBoth(f \o NewestFirst(S), f, S)
<1> DEFINE s == NewestFirst(S)
<1>1. /\ s \in Seq(Item)
      /\ \A k \in 1..Len(s) : s[k] \in S
      /\ \A i \in S : \E k \in 1..Len(s) : s[k] = i
  BY PageArray
<1> HIDE DEF s
<1>2. ShowsBoth(s \o f, f, S)
  <2>1. /\ s \o f \in Seq(Item)
        /\ \A k \in 1..Len(s \o f) :
             \/ k \in 1..Len(s) /\ (s \o f)[k] = s[k]
             \/ k - Len(s) \in 1..Len(f) /\ (s \o f)[k] = f[k - Len(s)]
        /\ \A k \in 1..Len(s) : k \in 1..Len(s \o f) /\ (s \o f)[k] = s[k]
        /\ \A k \in 1..Len(f) :
             k + Len(s) \in 1..Len(s \o f) /\ (s \o f)[k + Len(s)] = f[k]
    BY <1>1, JoinedFeed
  <2>2. \A i \in S : \E k \in 1..Len(s \o f) : (s \o f)[k] = i
    BY <1>1, <2>1
  <2>3. QED
    BY <1>1, <2>1, <2>2 DEF ShowsBoth
<1>3. ShowsBoth(f \o s, f, S)
  <2>1. /\ f \o s \in Seq(Item)
        /\ \A k \in 1..Len(f \o s) :
             \/ k \in 1..Len(f) /\ (f \o s)[k] = f[k]
             \/ k - Len(f) \in 1..Len(s) /\ (f \o s)[k] = s[k - Len(f)]
        /\ \A k \in 1..Len(f) : k \in 1..Len(f \o s) /\ (f \o s)[k] = f[k]
        /\ \A k \in 1..Len(s) :
             k + Len(f) \in 1..Len(f \o s) /\ (f \o s)[k + Len(f)] = s[k]
    BY <1>1, JoinedFeed
  <2>2. \A i \in S : \E k \in 1..Len(f \o s) : (f \o s)[k] = i
    BY <1>1, <2>1
  <2>3. QED
    BY <1>1, <2>1, <2>2 DEF ShowsBoth
<1>4. QED
  BY <1>2, <1>3 DEF s

LEMMA ShowOlderStep ==
  ASSUME FeedInv, ShowOlder
  PROVE  FeedInv'
<1> USE DEF FeedInv
<1> DEFINE S == page["older"]
           next == MaxIdOf("older")
           prev == SinceIdOf("older")
<1>1. /\ feed' = feed \o NewestFirst(S)
      /\ maxId' = next
      /\ walk' = IF next = nil THEN "ended" ELSE "walking"
      /\ sinceId' = IF walk = "new" THEN prev ELSE sinceId
      /\ UNCHANGED <<items, created, first, gap>>
      /\ call["older"] = "answered"
  BY DEF ShowOlder, MaxIdOf, SinceIdOf
<1>2. /\ call'["older"] = "none"
      /\ \A f \in End \ {"older"} :
           /\ call'[f] = call[f] /\ page'[f] = page[f]
           /\ MaxIdOf(f)' = MaxIdOf(f) /\ SinceIdOf(f)' = SinceIdOf(f)
           /\ PageAndIds(f) => PageAndIds(f)'
      /\ call' \in [End -> {"none", "sent", "answered"}]
      /\ page' \in [End -> SUBSET Item] /\ link' \in [End -> Seq(Relation)]
  BY <1>1, EndedCall DEF ShowOlder, End
<1>3. walk \in {"new", "walking"}
  BY <1>1 DEF CallsInOrder, TypeOK
<1>4. /\ PageAndIds("older")
      /\ walk = "walking" => \A i \in S : i < maxId
      /\ \A i \in items : /\ walk = "walking" => i < maxId
                          /\ walk = "new" => i <= prev
                          /\ next <= i
                          => i \in S
      /\ walk = "new" => \A i \in first \cap items : next <= i => i \in S
  BY <1>1 DEF OlderPage
<1>5. /\ S \in SUBSET Item /\ prev \in Nat /\ prev <= created /\ next \in Nat
      /\ \A i \in S : i \in Nat
  BY <1>4, IdsAreOld DEF End
<1>6. /\ \A i \in S : i <= prev /\ next <= i
      /\ next = nil \/ next \in S
      /\ S = {} => prev = nil
      /\ S # {} => prev \in S
  BY <1>4 DEF PageAndIds
<1>7. /\ maxId \in Nat /\ sinceId \in Nat /\ created \in Nat /\ nil = 0
      /\ \A i \in items : i \in Item /\ i \in Nat
      /\ \A k \in 1..Len(feed) : feed[k] \in Item /\ feed[k] \in Nat
      /\ feed \in Seq(Item)
  BY Numbers DEF TypeOK
<1> HIDE DEF S, next, prev
<1>8. /\ feed' \in Seq(Item)
      /\ \A k \in 1..Len(feed') :
           feed'[k] \in S \/ \E m \in 1..Len(feed) : feed'[k] = feed[m]
      /\ \A i \in S : \E k \in 1..Len(feed') : feed'[k] = i
      /\ \A m \in 1..Len(feed) : \E k \in 1..Len(feed') : feed'[k] = feed[m]
  <2>1. ShowsBoth(feed \o NewestFirst(S), feed, S)
    BY <1>5, <1>7, ShownPage
  <2>2. ShowsBoth(feed', feed, S)
    BY <1>1, <2>1
  <2>3. QED
    BY <2>2 DEF ShowsBoth
<1>9. TypeOK'
  <2>1. next \in Item \cup {nil} /\ prev \in Item \cup {nil}
    BY <1>5, <1>6
  <2>2. QED
    BY <1>1, <1>2, <1>8, <2>1 DEF TypeOK
<1>10. ShownSorted'
  <2>1. \A k \in 1..Len(feed), i \in S : feed[k] > i
    BY <1>3, <1>4, <1>5, <1>7 DEF FeedBetweenIds
  <2>2. /\ NewestFirst(S) \in Seq(Item)
        /\ \A k \in 1..Len(NewestFirst(S)) : NewestFirst(S)[k] \in S
        /\ \A k, m \in 1..Len(NewestFirst(S)) :
             k < m => NewestFirst(S)[k] > NewestFirst(S)[m]
    BY <1>5, PageArray
  <2>3. \A k \in 1..Len(feed), m \in 1..Len(NewestFirst(S)) :
          feed[k] > NewestFirst(S)[m]
    BY <2>1, <2>2
  <2>4. QED
    BY <1>1, <1>7, <2>2, <2>3, JoinedSorted DEF ShownSorted
<1>11. FeedBetweenIds'
  <2>1. CASE walk = "new"
    <3>1. feed = <<>> /\ Len(feed) = 0
      BY <2>1 DEF FeedBetweenIds
    <3>2. \A k \in 1..Len(feed') : feed'[k] \in S
      BY <1>8, <3>1
    <3>3. \A k \in 1..Len(feed') : feed'[k] <= prev /\ next <= feed'[k]
      BY <1>6, <3>2
    <3>4. next # nil => next <= prev
      BY <1>6
    <3>5. QED
      BY <1>1, <1>5, <2>1, <3>3, <3>4 DEF FeedBetweenIds
  <2>2. CASE walk = "walking"
    <3>1. /\ maxId <= sinceId /\ sinceId <= created
          /\ \A k \in 1..Len(feed) : maxId <= feed[k] /\ feed[k] <= sinceId
      BY <2>2 DEF FeedBetweenIds
    <3>2. \A i \in S : next <= i /\ i < maxId /\ i <= sinceId
      BY <1>4, <1>5, <1>6, <1>7, <2>2, <3>1
    <3>3. next # nil => next < maxId /\ next <= sinceId
      BY <1>6, <3>2
    <3>4. \A k \in 1..Len(feed) : feed[k] <= sinceId /\ (next # nil => next <= feed[k])
      BY <1>5, <1>7, <3>1, <3>3
    <3>5. \A k \in 1..Len(feed') :
            feed'[k] <= sinceId /\ (next # nil => next <= feed'[k])
      BY <1>8, <3>2, <3>4
    <3>6. QED
      BY <1>1, <2>2, <3>1, <3>3, <3>5 DEF FeedBetweenIds
  <2>3. QED
    BY <1>3, <2>1, <2>2
<1>12. CallsInOrder'
  BY <1>1, <1>2 DEF CallsInOrder
<1>13. OlderPage'
  BY <1>2 DEF OlderPage
<1>14. NewerPage'
  <2>1. SUFFICES ASSUME call'["newer"] = "answered" PROVE NewerPage'
    BY DEF NewerPage
  <2>2. call["newer"] = "answered" /\ page'["newer"] = page["newer"]
    BY <1>2, <2>1 DEF End
  <2>3. walk # "new" /\ sinceId' = sinceId
    BY <1>1, <2>2 DEF CallsInOrder
  <2>4. QED
    BY <1>1, <1>2, <2>1, <2>2, <2>3 DEF NewerPage, End
<1>15. WalkMissesNothing'
  <2>1. SUFFICES ASSUME NEW i \in first \cap items,
                        walk' = "ended" \/ i >= maxId'
                 PROVE  i \in Shown'
    BY <1>1 DEF WalkMissesNothing
  <2>2. next <= i /\ i \in Nat
    BY <1>1, <1>5, <1>7, <2>1
  <2>3. CASE i \in S
    BY <1>8, <2>3 DEF Shown
  <2>4. CASE walk = "walking" /\ ~(i < maxId)
    <3>1. i >= maxId
      BY <1>7, <2>2, <2>4
    <3>2. i \in Shown
      BY <2>1, <2>4, <3>1 DEF WalkMissesNothing
    <3>3. QED
      BY <1>8, <3>2 DEF Shown
  <2>5. QED
    BY <1>3, <1>4, <2>1, <2>2, <2>3, <2>4
<1>16. RefreshMissesNothing'
  <2>1. SUFFICES ASSUME gap = "impossible", NEW i \in items, i <= sinceId',
                        walk' = "ended" \/ i >= maxId'
                 PROVE  i \in Shown'
    BY <1>1 DEF RefreshMissesNothing
  <2>2. next <= i /\ i \in Nat
    BY <1>1, <1>5, <1>7, <2>1
  <2>3. CASE i \in S
    BY <1>8, <2>3 DEF Shown
  <2>4. CASE walk = "walking" /\ ~(i < maxId)
    <3>1. i >= maxId /\ i <= sinceId
      BY <1>1, <1>7, <2>1, <2>2, <2>4
    <3>2. i \in Shown
      BY <2>1, <3>1 DEF RefreshMissesNothing
    <3>3. QED
      BY <1>8, <3>2 DEF Shown
  <2>5. QED
    BY <1>1, <1>3, <1>4, <2>1, <2>2, <2>3, <2>4
<1>17. QED
  BY <1>1, <1>9, <1>10, <1>11, <1>12, <1>13, <1>14, <1>15, <1>16 DEF Created

LEMMA ShowNewerStep ==
  ASSUME FeedInv, ShowNewer
  PROVE  FeedInv'
<1> USE DEF FeedInv
<1> DEFINE S == page["newer"]
           prev == SinceIdOf("newer")
<1>1. /\ feed' = NewestFirst(S) \o feed
      /\ sinceId' = IF prev = nil THEN sinceId ELSE prev
      /\ gap' = IF Cardinality(S) = Limit THEN "possible" ELSE gap
      /\ UNCHANGED <<items, created, first, maxId, walk>>
      /\ call["newer"] = "answered"
  BY DEF ShowNewer, SinceIdOf
<1>2. /\ call'["newer"] = "none"
      /\ \A f \in End \ {"newer"} :
           /\ call'[f] = call[f] /\ page'[f] = page[f]
           /\ MaxIdOf(f)' = MaxIdOf(f) /\ SinceIdOf(f)' = SinceIdOf(f)
           /\ PageAndIds(f) => PageAndIds(f)'
      /\ call' \in [End -> {"none", "sent", "answered"}]
      /\ page' \in [End -> SUBSET Item] /\ link' \in [End -> Seq(Relation)]
  BY <1>1, EndedCall DEF ShowNewer, End
<1>3. walk # "new"
  BY <1>1 DEF CallsInOrder
<1>4. /\ PageAndIds("newer")
      /\ \A i \in S : sinceId < i
      /\ Cardinality(S) = Limit
           \/ \A i \in items : sinceId < i /\ i <= prev => i \in S
  BY <1>1 DEF NewerPage
<1>5. /\ S \in SUBSET Item /\ prev \in Nat /\ prev <= created
      /\ \A i \in S : i \in Nat
  BY <1>4, IdsAreOld DEF End
<1>6. /\ \A i \in S : i <= prev
      /\ S = {} => prev = nil
      /\ S # {} => prev \in S
  BY <1>4 DEF PageAndIds
<1>7. /\ maxId \in Nat /\ sinceId \in Nat /\ created \in Nat /\ nil = 0
      /\ \A i \in items : i \in Item /\ i \in Nat
      /\ \A i \in Item : i # nil
      /\ \A k \in 1..Len(feed) : feed[k] \in Item /\ feed[k] \in Nat
      /\ feed \in Seq(Item)
  BY Numbers DEF TypeOK
<1> HIDE DEF S, prev
<1>8. /\ feed' \in Seq(Item)
      /\ \A k \in 1..Len(feed') :
           feed'[k] \in S \/ \E m \in 1..Len(feed) : feed'[k] = feed[m]
      /\ \A i \in S : \E k \in 1..Len(feed') : feed'[k] = i
      /\ \A m \in 1..Len(feed) : \E k \in 1..Len(feed') : feed'[k] = feed[m]
  <2>1. ShowsBoth(NewestFirst(S) \o feed, feed, S)
    BY <1>5, <1>7, ShownPage
  <2>2. ShowsBoth(feed', feed, S)
    BY <1>1, <2>1
  <2>3. QED
    BY <2>2 DEF ShowsBoth
<1>9. TypeOK'
  <2>1. prev \in Item \cup {nil}
    BY <1>5, <1>6
  <2>2. QED
    BY <1>1, <1>2, <1>8, <2>1 DEF TypeOK
<1>10. ShownSorted'
  <2>1. \A k \in 1..Len(feed), i \in S : i > feed[k]
    BY <1>4, <1>5, <1>7 DEF FeedBetweenIds
  <2>2. /\ NewestFirst(S) \in Seq(Item)
        /\ \A k \in 1..Len(NewestFirst(S)) : NewestFirst(S)[k] \in S
        /\ \A k, m \in 1..Len(NewestFirst(S)) :
             k < m => NewestFirst(S)[k] > NewestFirst(S)[m]
    BY <1>5, PageArray
  <2>3. \A k \in 1..Len(NewestFirst(S)), m \in 1..Len(feed) :
          NewestFirst(S)[k] > feed[m]
    BY <2>1, <2>2
  <2>4. QED
    BY <1>1, <1>7, <2>2, <2>3, JoinedSorted DEF ShownSorted
<1>11. FeedBetweenIds'
  <2>1. /\ sinceId <= sinceId' /\ sinceId' <= created /\ sinceId' \in Nat
        /\ \A i \in S : i <= sinceId'
    BY <1>1, <1>4, <1>5, <1>6, <1>7 DEF FeedBetweenIds
  <2>2. \A k \in 1..Len(feed') : feed'[k] <= sinceId'
    BY <1>5, <1>7, <1>8, <2>1 DEF FeedBetweenIds
  <2>3. walk = "walking" => \A k \in 1..Len(feed') : maxId <= feed'[k]
    <3>1. SUFFICES ASSUME walk = "walking", NEW k \in 1..Len(feed')
                   PROVE  maxId <= feed'[k]
      OBVIOUS
    <3>2. \A i \in S : maxId <= i
      BY <1>4, <1>5, <1>7, <3>1 DEF FeedBetweenIds
    <3>3. \A m \in 1..Len(feed) : maxId <= feed[m]
      BY <3>1 DEF FeedBetweenIds
    <3>4. QED
      BY <1>8, <3>2, <3>3
  <2>4. walk = "walking" => maxId # nil /\ maxId <= sinceId'
    BY <1>7, <2>1 DEF FeedBetweenIds
  <2>5. QED
    BY <1>1, <1>3, <2>1, <2>2, <2>3, <2>4 DEF FeedBetweenIds
<1>12. CallsInOrder'
  BY <1>1, <1>2 DEF CallsInOrder, End
<1>13. NewerPage'
  BY <1>2 DEF NewerPage
<1>14. OlderPage'
  BY <1>1, <1>2, <1>3 DEF OlderPage, End
<1>15. WalkMissesNothing'
  <2>1. Shown \subseteq Shown'
    BY <1>8 DEF Shown
  <2>2. QED
    BY <1>1, <2>1 DEF WalkMissesNothing
<1>16. RefreshMissesNothing'
  <2>1. SUFFICES ASSUME gap' = "impossible", NEW i \in items, i <= sinceId',
                        walk' = "ended" \/ i >= maxId'
                 PROVE  i \in Shown'
    BY <1>1 DEF RefreshMissesNothing
  <2>2. gap = "impossible" /\ Cardinality(S) # Limit
    BY <1>1, <2>1
  <2>3. CASE i <= sinceId
    <3>1. i \in Shown
      BY <1>1, <2>1, <2>2, <2>3 DEF RefreshMissesNothing
    <3>2. QED
      BY <1>8, <3>1 DEF Shown
  <2>4. CASE ~(i <= sinceId)
    <3>1. sinceId < i /\ i <= prev
      BY <1>1, <1>7, <2>1, <2>4
    <3>2. i \in S
      BY <1>4, <2>2, <3>1
    <3>3. QED
      BY <1>8, <3>2 DEF Shown
  <2>5. QED
    BY <2>3, <2>4
<1>17. QED
  BY <1>1, <1>9, <1>10, <1>11, <1>12, <1>13, <1>14, <1>15, <1>16 DEF Created

LEMMA FeedStep == FeedInv /\ [Next]_vars => FeedInv'
  BY CreateStep, OtherSteps, ServeStep, ShowOlderStep, ShowNewerStep DEF Next

LEMMA FeedInvImplies == FeedInv => FeedIsSorted
<1>1. ASSUME TypeOK, ShownSorted PROVE FeedIsSorted
  <2>1. Len(feed) \in Nat
    BY <1>1 DEF TypeOK
  <2>2. \A k \in 1..(Len(feed) - 1) :
          k \in 1..Len(feed) /\ k + 1 \in 1..Len(feed) /\ k < k + 1
    BY <2>1
  <2>3. QED
    BY <1>1, <2>2 DEF ShownSorted, FeedIsSorted
<1>2. QED
  BY <1>1 DEF FeedInv

-----------------------------------------------------------------------------
(* The theorem.                                                            *)

\* For any number of items, any size of a page, any order of the relations in a
\* header, and whatever the two calls in flight meet: the feed is sorted and
\* has no item twice, the walk down misses nothing that was there before it,
\* and refreshes miss nothing until one has a full page
\* (MastodonClientManager.m 1661-1730, 2260-2355).
THEOREM FeedSafety ==
  Spec => [](TypeOK /\ FeedIsSorted /\ WalkMissesNothing /\ RefreshMissesNothing)
<1>1. FeedInv =>
        TypeOK /\ FeedIsSorted /\ WalkMissesNothing /\ RefreshMissesNothing
  BY FeedInvImplies DEF FeedInv
<1>2. QED
  BY <1>1, FeedInit, FeedStep, PTL DEF Spec

\* An older page moves its id down and a newer one moves its id up, so each of
\* the two walks ends if no more items are created.
THEOREM WalksAdvance == Spec => PagesAdvance
<1> DEFINE Advance ==
      /\ ShowOlder /\ walk = "walking" => maxId' < maxId
      /\ ShowNewer /\ page["newer"] # {} => sinceId' > sinceId
<1>1. FeedInv => Advance
  <2> SUFFICES ASSUME FeedInv PROVE Advance
    OBVIOUS
  <2> USE DEF FeedInv
  <2>0. maxId \in Nat /\ sinceId \in Nat /\ nil = 0
    BY Numbers
  <2>1. ASSUME ShowOlder, walk = "walking" PROVE maxId' < maxId
    <3>1. maxId' = MaxIdOf("older") /\ OlderPage /\ call["older"] = "answered"
      BY <2>1 DEF ShowOlder, MaxIdOf
    <3>2. MaxIdOf("older") = nil \/ MaxIdOf("older") < maxId
      BY <2>1, <3>1 DEF OlderPage, PageAndIds
    <3>3. maxId # nil
      BY <2>1 DEF CallsInOrder, FeedBetweenIds
    <3>4. QED
      BY <2>0, <3>1, <3>2, <3>3
  <2>2. ASSUME ShowNewer, page["newer"] # {} PROVE sinceId' > sinceId
    <3>1. /\ sinceId' = IF SinceIdOf("newer") = nil THEN sinceId
                        ELSE SinceIdOf("newer")
          /\ call["newer"] = "answered"
      BY <2>2 DEF ShowNewer, SinceIdOf
    <3>2. SinceIdOf("newer") \in page["newer"] /\ sinceId < SinceIdOf("newer")
      BY <2>2, <3>1 DEF NewerPage, PageAndIds
    <3>3. SinceIdOf("newer") \in Nat
      BY <3>1, IdsAreOld DEF NewerPage, End
    <3>4. QED
      BY <2>0, <3>1, <3>2, <3>3
  <2>3. QED
    BY <2>1, <2>2
<1>2. QED
  BY <1>1, FeedInit, FeedStep, PTL DEF Spec, PagesAdvance
=============================================================================
