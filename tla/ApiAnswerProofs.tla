--------------------------- MODULE ApiAnswerProofs ---------------------------
(***************************************************************************)
(* What the API answers: the pages of a listing and the walk through them  *)
(* (Listing), and the next backup time of a plan (BackupSchedule).         *)
(*                                                                         *)
(* What a walk misses is counted where it happens: an item that it began   *)
(* with and has not seen can only lie on the pages behind if it was pulled *)
(* there, and every deletion pulls one item at most.                       *)
(*                                                                         *)
(* The shown time is compared with the firings of the cron line at every   *)
(* instant, for plans by the hour, the day, the week and the month, over   *)
(* any calendar with months of 28 to 31 days.                              *)
(***************************************************************************)
EXTENDS BackupSchedule, Listing, FiniteSetTheorems, WellFoundedInduction, TLAPS

Size == PageSize(limit)

(* The store: an item is created once, and only what was created is gone   *)
ListingType ==
    /\ created \in Seq(Items)
    /\ \A j, k \in 1..Len(created) : created[j] = created[k] => j = k
    /\ deleted \subseteq ToSet(created) /\ IsFiniteSet(deleted)
    /\ limit \in Int /\ offset \in Nat

Removed == deleted \ began.deleted

(* The items that the walk began with and that are still listed unseen     *)
Unseen == {x \in began.listed : x \notin deleted /\ x \notin seen}

(* The pages behind the walk, and where it has missed an item there        *)
Behind   == {k \in LiveAt : Cardinality(Newer(k)) < offset}
MissedAt == {k \in Behind : created[k] \in Unseen}

WalkInv ==
    /\ walk # "idle" =>
          /\ began.listed \subseteq ToSet(created) \ began.deleted
          /\ began.deleted \subseteq deleted
    /\ walk = "walking" => Cardinality(MissedAt) <= Cardinality(Removed)
    /\ walk = "ended" => Cardinality(Unseen) <= Cardinality(Removed)

-----------------------------------------------------------------------------
(* The arithmetic of pages. *)

(* A page size is positive (GenericPager).                                 *)
LEMMA PageSizeType == ASSUME NEW l \in Int PROVE PageSize(l) \in Nat \ {0}
BY DEF PageSize

(* The page of an offset is behind the last one just when the offset is    *)
(* behind the last item, provided that it starts a page (GenericPager).    *)
LEMMA PageBehindLast ==
    ASSUME NEW p \in Nat \ {0}, NEW q \in Nat, NEW n \in Nat \ {0}
    PROVE  p * q < n <=> q + 1 <= (n + p - 1) \div p
<1> DEFINE t == (n + p - 1) \div p
<1>1. t \in Int /\ p * t <= n + p - 1 /\ n + p - 1 < p * t + p
  OBVIOUS
<1> HIDE DEF t
<1>2. p * q \in Nat /\ p * t \in Int
  BY <1>1
<1>3. ASSUME p * q < n PROVE q + 1 <= t
  <2> SUFFICES ASSUME t <= q PROVE FALSE
    BY <1>1
  <2>1. p * t <= p * q
    BY <1>1
  <2> QED
    BY <1>1, <1>2, <1>3, <2>1
<1>4. ASSUME q + 1 <= t PROVE p * q < n
  <2>1. p * (q + 1) <= p * t /\ p * (q + 1) = p * q + p
    BY <1>1, <1>4
  <2> QED
    BY <1>1, <1>2, <2>1
<1> QED
  BY <1>3, <1>4 DEF t

(* An answer that says "last page" covers the rest (listBackup).           *)
LEMMA LastPageCovers ==
    ASSUME NEW p \in Nat \ {0}, NEW o \in Nat, NEW n \in Nat \ {0},
           o \div p + 1 >= (n + p - 1) \div p
    PROVE  n <= o + p
<1> DEFINE t == (n + p - 1) \div p
           q == o \div p
<1>1. t \in Int /\ n + p - 1 < p * t + p
  OBVIOUS
<1>2. q \in Nat /\ p * q <= o
  OBVIOUS
<1> HIDE DEF t, q
<1>3. t <= q + 1
  BY <1>1, <1>2 DEF t, q
<1>4. p * t <= p * (q + 1) /\ p * (q + 1) = p * q + p
  BY <1>1, <1>2, <1>3
<1>5. p * t \in Int /\ p * q \in Int
  BY <1>1, <1>2
<1> QED
  BY <1>1, <1>2, <1>4, <1>5

-----------------------------------------------------------------------------
(* The order of a listing (ListBackups, ListSnapshots, ListRestores). *)

(* There are finitely many items, and finitely many newer than one.        *)
LEMMA LiveFinite ==
    ASSUME ListingType
    PROVE  /\ IsFiniteSet(LiveAt) /\ Cardinality(LiveAt) \in Nat
           /\ \A k \in LiveAt : IsFiniteSet(Newer(k)) /\ Cardinality(Newer(k)) \in Nat
<1>1. Len(created) \in Nat
  BY DEF ListingType
<1>2. IsFiniteSet(1..Len(created))
  BY <1>1, FS_Interval
<1>3. LiveAt \in SUBSET (1..Len(created)) /\ \A k \in LiveAt : Newer(k) \in SUBSET (1..Len(created))
  BY DEF LiveAt, Newer
<1> QED
  BY <1>2, <1>3, FS_Subset, FS_CardinalityType

(* No two items have as many newer ones.                                   *)
LEMMA RankIsUnique ==
    ASSUME ListingType, NEW j \in LiveAt, NEW k \in LiveAt,
           Cardinality(Newer(j)) = Cardinality(Newer(k))
    PROVE  j = k
<1>1. ASSUME NEW a \in LiveAt, NEW b \in LiveAt, a < b
      PROVE  Cardinality(Newer(b)) < Cardinality(Newer(a))
  <2>1. a \in Nat /\ b \in Nat
    BY DEF ListingType, LiveAt
  <2>2. Newer(b) \in SUBSET Newer(a) /\ b \in Newer(a) /\ b \notin Newer(b)
    BY <1>1, <2>1 DEF Newer, LiveAt, ListingType
  <2>3. IsFiniteSet(Newer(a)) /\ Cardinality(Newer(a)) \in Nat /\ Cardinality(Newer(b)) \in Nat
    BY LiveFinite
  <2>4. Cardinality(Newer(b)) <= Cardinality(Newer(a)) /\ Cardinality(Newer(b)) # Cardinality(Newer(a))
    BY <2>2, <2>3, FS_Subset
  <2> QED
    BY <2>3, <2>4
<1>2. j \in Nat /\ k \in Nat
  BY DEF ListingType, LiveAt
<1>3. Cardinality(Newer(j)) \in Nat /\ Cardinality(Newer(k)) \in Nat
  BY LiveFinite
<1> QED
  BY <1>1, <1>2, <1>3

(* An item is not one of those newer than itself.                          *)
LEMMA RankIsBounded ==
    ASSUME ListingType, NEW k \in LiveAt
    PROVE  Cardinality(Newer(k)) < Cardinality(LiveAt)
<1>1. Newer(k) \in SUBSET LiveAt /\ k \notin Newer(k)
  BY DEF Newer, LiveAt, ListingType
<1>2. Cardinality(Newer(k)) <= Cardinality(LiveAt) /\ Cardinality(Newer(k)) # Cardinality(LiveAt)
  BY <1>1, LiveFinite, FS_Subset
<1> QED
  BY <1>2, LiveFinite

(* Every place of the listing is taken: there are as many places as items. *)
LEMMA RankIsTaken ==
    ASSUME ListingType, NEW n \in 1..Cardinality(LiveAt)
    PROVE  \E k \in LiveAt : Cardinality(Newer(k)) = n - 1
<1> DEFINE N == Cardinality(LiveAt)
           ranks == 0..(N - 1)
           rank == [k \in LiveAt |-> Cardinality(Newer(k))]
<1>1. N \in Nat /\ IsFiniteSet(LiveAt)
  BY LiveFinite
<1>2. IsFiniteSet(ranks) /\ Cardinality(ranks) = N
  <2> HIDE DEF N
  <2>1. 0 \in Int /\ N - 1 \in Int
    BY <1>1
  <2> QED
    BY <1>1, <2>1, FS_Interval
<1>3. \A k \in LiveAt : Cardinality(Newer(k)) \in ranks
  BY <1>1, LiveFinite, RankIsBounded
<1>4. rank \in Injection(LiveAt, ranks)
  <2>1. rank \in [LiveAt -> ranks]
    BY <1>3
  <2>2. \A j, k \in LiveAt : rank[j] = rank[k] => j = k
    BY RankIsUnique
  <2> HIDE DEF rank, ranks
  <2> QED
    BY <2>1, <2>2 DEF Injection, IsInjective
<1>5. rank \in Surjection(LiveAt, ranks)
  <2> HIDE DEF rank, ranks
  <2> QED
    BY <1>2, <1>4, FS_Injection
<1>6. n - 1 \in ranks
  BY <1>1
<1>7. PICK k \in LiveAt : rank[k] = n - 1
  <2> HIDE DEF rank, ranks
  <2> QED
    BY <1>5, <1>6 DEF Surjection
<1> QED
  BY <1>7

(* The listing holds the items that are live, each at the place of its     *)
(* rank.                                                                   *)
LEMMA ListedProperties ==
    ASSUME ListingType
    PROVE  /\ Listed \in Seq(Items) /\ Len(Listed) = Cardinality(LiveAt)
           /\ \A n \in 1..Len(Listed) : \E k \in LiveAt : Listed[n] = created[k]
           /\ \A k \in LiveAt :
                 /\ Cardinality(Newer(k)) + 1 \in 1..Len(Listed)
                 /\ Listed[Cardinality(Newer(k)) + 1] = created[k]
<1> DEFINE N == Cardinality(LiveAt)
           at(n) == CHOOSE k \in LiveAt : Cardinality(Newer(k)) = n - 1
<1>1. N \in Nat
  BY LiveFinite
<1>2. \A n \in 1..N : at(n) \in LiveAt /\ Cardinality(Newer(at(n))) = n - 1
  BY RankIsTaken
<1> HIDE DEF at
<1>3. \A n \in 1..N : Listed[n] = created[at(n)]
  BY DEF Listed, at
<1>4. \A k \in LiveAt : created[k] \in Items
  BY DEF LiveAt, ListingType
<1>5. Listed \in Seq(Items) /\ Len(Listed) = N
  <2>1. Listed = [n \in 1..N |-> created[at(n)]]
    BY DEF Listed, at
  <2> QED
    BY <1>1, <1>2, <1>4, <2>1
<1>6. ASSUME NEW k \in LiveAt
      PROVE  Cardinality(Newer(k)) + 1 \in 1..N /\ Listed[Cardinality(Newer(k)) + 1] = created[k]
  <2> DEFINE n == Cardinality(Newer(k)) + 1
  <2>1. Cardinality(Newer(k)) \in Nat /\ Cardinality(Newer(k)) < N
    BY LiveFinite, RankIsBounded
  <2>2. n \in 1..N /\ n - 1 = Cardinality(Newer(k))
    BY <1>1, <2>1
  <2>3. at(n) = k
    BY <1>2, <2>2, RankIsUnique
  <2> QED
    BY <1>3, <2>2, <2>3
<1> QED
  BY <1>2, <1>3, <1>5, <1>6

(* GenericPager's count of pages matches the items on them.                *)
LEMMA PagesMatch == ListingType => PagesMatchItems
<1> SUFFICES ASSUME ListingType,
                    NEW l \in Limits, NEW o \in 0..(2 * Cardinality(Items)),
                    o % PageSize(l) = 0, Listed # <<>>
             PROVE  PageItems(l, o, Listed) # <<>>
                       <=> CurrentPage(l, o) <= TotalPages(l, Len(Listed))
  BY DEF PagesMatchItems
<1> DEFINE p == PageSize(l)
           q == o \div p
           n == Len(Listed)
<1>1. p \in Nat \ {0} /\ o \in Nat
  BY PageSizeType, LimitsAssumption
<1>2. n \in Nat \ {0} /\ Listed \in Seq(Items)
  BY ListedProperties
<1>3. q \in Nat /\ o = p * q
  <2> HIDE DEF p
  <2>1. o % p = 0
    BY DEF p
  <2> QED
    BY <1>1, <2>1
<1>4. CurrentPage(l, o) = q + 1
  BY <1>1 DEF CurrentPage, From
<1>5. TotalPages(l, n) = (n + p - 1) \div p
  <2>1. (n + p - 1) \div p # 0
    <3> HIDE DEF n, p, q
    <3>1. p * 0 < n
      BY <1>1, <1>2
    <3>2. 0 + 1 <= (n + p - 1) \div p
      BY <1>1, <1>2, <3>1, PageBehindLast
    <3> QED
      BY <3>2
  <2> QED
    BY <2>1 DEF TotalPages
<1>6. PageItems(l, o, Listed) # <<>> <=> o < n
  <2>1. From(o) = o /\ PageEnd(l, o, n) = IF o + p > n THEN n ELSE o + p
    BY <1>1 DEF From, PageEnd
  <2>2. CASE o >= n
    BY <1>1, <1>2, <2>1, <2>2 DEF PageItems
  <2>3. CASE o < n
    <3> DEFINE e == PageEnd(l, o, n)
               page == SubSeq(Listed, o + 1, e)
    <3>1. e \in Nat /\ o + 1 <= e /\ e <= n
      <4> HIDE DEF n, p
      <4> QED
        BY <1>1, <1>2, <2>1, <2>3
    <3>2. PageItems(l, o, Listed) = page
      BY <1>1, <1>2, <2>1, <2>3 DEF PageItems
    <3> HIDE DEF e
    <3>3. page \in Seq(Items) /\ Len(page) # 0
      BY <1>1, <1>2, <3>1
    <3>4. page # <<>>
      <4> HIDE DEF page
      <4> QED
        BY <3>3
    <3> QED
      BY <2>3, <3>2, <3>4
  <2> QED
    BY <1>1, <1>2, <2>2, <2>3
<1> HIDE DEF n, p, q
<1> QED
  BY <1>1, <1>2, <1>3, <1>4, <1>5, <1>6, PageBehindLast DEF n

-----------------------------------------------------------------------------
(* Counting. *)

LEMMA IndicesFinite ==
    ASSUME NEW n \in Nat, NEW T \in SUBSET (1..n)
    PROVE  IsFiniteSet(T) /\ Cardinality(T) \in Nat
<1>1. IsFiniteSet(1..n)
  BY FS_Interval
<1> QED
  BY <1>1, FS_Subset, FS_CardinalityType

LEMMA AddedAtMostOne ==
    ASSUME NEW S, IsFiniteSet(S), NEW x
    PROVE  /\ IsFiniteSet(S \cup {x}) /\ Cardinality(S \cup {x}) \in Nat
           /\ Cardinality(S \cup {x}) <= Cardinality(S) + 1
<1>1. Cardinality(S) \in Nat
  BY FS_CardinalityType
<1>2. /\ IsFiniteSet(S \cup {x})
      /\ Cardinality(S \cup {x}) = IF x \in S THEN Cardinality(S) ELSE Cardinality(S) + 1
  BY FS_AddElement
<1> QED
  BY <1>1, <1>2

LEMMA CreatedFinite ==
    ASSUME ListingType
    PROVE  IsFiniteSet(ToSet(created))
<1> DEFINE I == 1..Len(created)
           f == [k \in I |-> created[k]]
<1>1. Len(created) \in Nat /\ ToSet(created) = {created[k] : k \in I}
  BY DEF ListingType, ToSet
<1>2. IsFiniteSet(I)
  BY <1>1, FS_Interval
<1>3. f \in Surjection(I, ToSet(created))
  BY <1>1 DEF Surjection
<1> HIDE DEF f, I
<1> QED
  BY <1>2, <1>3, FS_Surjection

LEMMA RemovedFinite ==
    ASSUME ListingType
    PROVE  IsFiniteSet(Removed) /\ Cardinality(Removed) \in Nat
BY FS_Subset, FS_CardinalityType DEF ListingType, Removed

LEMMA MissedFinite ==
    ASSUME ListingType
    PROVE  IsFiniteSet(MissedAt) /\ Cardinality(MissedAt) \in Nat
BY LiveFinite, FS_Subset, FS_CardinalityType DEF MissedAt, Behind

LEMMA UnseenFinite ==
    ASSUME ListingType, WalkInv, walk # "idle"
    PROVE  IsFiniteSet(Unseen) /\ Cardinality(Unseen) \in Nat
BY CreatedFinite, FS_Subset, FS_CardinalityType DEF WalkInv, Unseen

-----------------------------------------------------------------------------
(* What a new item does to the store.                                      *)
LEMMA CreateEffect ==
    ASSUME ListingType, NEW i \in Items, CreateItem(i)
    PROVE  /\ created' \in Seq(Items) /\ Len(created) \in Nat /\ Len(created') = Len(created) + 1
           /\ created'[Len(created) + 1] = i
           /\ \A k \in 1..Len(created) : created'[k] = created[k] /\ created[k] # i
           /\ ToSet(created') = ToSet(created) \cup {i}
<1>1. created \in Seq(Items) /\ created' = Append(created, i) /\ i \notin ToSet(created)
  BY DEF ListingType, CreateItem
<1>2. /\ created' \in Seq(Items) /\ Len(created) \in Nat /\ Len(created') = Len(created) + 1
      /\ created'[Len(created) + 1] = i
      /\ \A k \in 1..Len(created) : created'[k] = created[k]
  BY <1>1
<1>3. \A k \in 1..Len(created) : created[k] # i
  BY <1>1 DEF ToSet
<1>4. DOMAIN created = 1..Len(created) /\ DOMAIN created' = 1..(Len(created) + 1)
  BY <1>1, <1>2
<1>5. 1..(Len(created) + 1) = (1..Len(created)) \cup {Len(created) + 1}
  BY <1>2
<1>6. ToSet(created') = ToSet(created) \cup {i}
  BY <1>2, <1>4, <1>5 DEF ToSet
<1> QED
  BY <1>2, <1>3, <1>6

LEMMA ListingTypeNext ==
    ASSUME ListingType, [ListingStep]_listingVars
    PROVE  ListingType'
<1>1. ASSUME NEW i \in Items, CreateItem(i)
      PROVE  ListingType'
  <2>1. ASSUME NEW j \in 1..Len(created'), NEW k \in 1..Len(created'), created'[j] = created'[k]
        PROVE  j = k
    <3>1. /\ j \in 1..Len(created) \/ j = Len(created) + 1
          /\ k \in 1..Len(created) \/ k = Len(created) + 1
      BY <1>1, CreateEffect
    <3> QED
      BY <1>1, <2>1, <3>1, CreateEffect DEF ListingType
  <2>2. created' \in Seq(Items) /\ ToSet(created) \subseteq ToSet(created')
    BY <1>1, CreateEffect
  <2> QED
    BY <1>1, <2>1, <2>2 DEF ListingType, CreateItem, walkVars
<1>2. ASSUME NEW i \in Items, DeleteItem(i)
      PROVE  ListingType'
  BY <1>2, FS_AddElement DEF DeleteItem, ListingType, walkVars
<1>3. ASSUME NEW l \in Limits, Begin(l)
      PROVE  ListingType'
  BY <1>3, LimitsAssumption DEF Begin, ListingType
<1>4. CASE Fetch
  <2>1. PageSize(limit) \in Nat
    BY PageSizeType DEF ListingType
  <2> QED
    BY <1>4, <2>1 DEF Fetch, ListingType
<1>5. CASE UNCHANGED listingVars
  BY <1>5 DEF listingVars, walkVars, ListingType
<1> QED
  BY <1>1, <1>2, <1>3, <1>4, <1>5 DEF ListingStep

(* A new item stands in front of the listing: it pushes items to later     *)
(* pages, and none onto a page behind the walk (Create).                   *)
LEMMA WalkCreate ==
    ASSUME ListingType, WalkInv, NEW i \in Items, CreateItem(i)
    PROVE  WalkInv'
<1>1. UNCHANGED <<deleted, walk, limit, offset, seen, began>>
  BY DEF CreateItem, walkVars
<1>2. Removed' = Removed /\ Unseen' = Unseen /\ ToSet(created) \subseteq ToSet(created')
  BY <1>1, CreateEffect DEF Removed, Unseen
<1>3. ASSUME walk = "walking"
      PROVE  Cardinality(MissedAt') <= Cardinality(Removed)
  <2>1. ASSUME NEW k \in MissedAt' PROVE k \in MissedAt
    <3>1. /\ k \in 1..Len(created') /\ created'[k] \notin deleted
          /\ Cardinality(Newer(k)') < offset /\ created'[k] \in Unseen
      BY <1>1, <1>2, <2>1 DEF MissedAt, Behind, LiveAt
    <3>2. created'[k] # i
      BY <1>3, <3>1 DEF WalkInv, Unseen, CreateItem
    <3>3. k \in 1..Len(created) /\ created'[k] = created[k]
      BY <3>1, <3>2, CreateEffect
    <3>4. k \in LiveAt
      BY <3>1, <3>3 DEF LiveAt
    <3>5. Newer(k) \subseteq Newer(k)'
      BY <1>1, CreateEffect DEF Newer, LiveAt
    <3>6. Newer(k)' \in SUBSET (1..Len(created')) /\ Len(created') \in Nat
      BY CreateEffect DEF Newer, LiveAt
    <3>7. Cardinality(Newer(k)) <= Cardinality(Newer(k)') /\ Cardinality(Newer(k)') \in Nat
      BY <3>5, <3>6, IndicesFinite, FS_Subset
    <3>8. Cardinality(Newer(k)) < offset
      BY <3>1, <3>4, <3>7, LiveFinite DEF ListingType
    <3> QED
      BY <3>1, <3>3, <3>4, <3>8 DEF MissedAt, Behind
  <2>2. MissedAt' \in SUBSET MissedAt
    BY <2>1
  <2>3. Cardinality(MissedAt') <= Cardinality(MissedAt) /\ Cardinality(MissedAt') \in Nat
    BY <2>2, MissedFinite, FS_Subset, FS_CardinalityType
  <2> QED
    BY <1>3, <2>3, MissedFinite, RemovedFinite DEF WalkInv
<1> QED
  BY <1>1, <1>2, <1>3 DEF WalkInv

(* A deletion pulls one item at most to a page behind the walk, and counts *)
(* for it (delete).                                                        *)
LEMMA WalkDelete ==
    ASSUME ListingType, WalkInv, NEW i \in Items, DeleteItem(i)
    PROVE  WalkInv'
<1>1. /\ UNCHANGED <<created, walk, limit, offset, seen, began>>
      /\ i \in ToSet(created) \ deleted /\ deleted' = deleted \cup {i}
  BY DEF DeleteItem, walkVars
<1>2. CASE walk = "idle"
  BY <1>1, <1>2 DEF WalkInv
<1>3. CASE walk # "idle"
  <2>1. Cardinality(Removed') = Cardinality(Removed) + 1
    <3>1. i \notin Removed /\ Removed' = Removed \cup {i}
      BY <1>1, <1>3 DEF Removed, WalkInv
    <3> QED
      BY <3>1, RemovedFinite, FS_AddElement
  <2>2. Unseen' \in SUBSET Unseen
    BY <1>1 DEF Unseen
  <2>3. Cardinality(Unseen') <= Cardinality(Unseen) /\ Cardinality(Unseen') \in Nat
    BY <1>3, <2>2, UnseenFinite, FS_Subset, FS_CardinalityType
  <2>4. Cardinality(MissedAt') <= Cardinality(MissedAt) + 1 /\ Cardinality(MissedAt') \in Nat
    <3> DEFINE pulled == {k \in LiveAt : Cardinality(Newer(k)) = offset}
    <3>1. ASSUME NEW k \in MissedAt' PROVE k \in MissedAt \cup pulled
      <4>1. /\ k \in LiveAt' /\ k \in LiveAt /\ created[k] \in Unseen
            /\ Cardinality(Newer(k)') < offset
        BY <1>1, <2>2, <3>1 DEF MissedAt, Behind, LiveAt
      <4>2. PICK p \in 1..Len(created) : created[p] = i
        BY <1>1 DEF ToSet, ListingType
      <4>3. Newer(k) \in SUBSET (Newer(k)' \cup {p})
        BY <1>1, <4>2 DEF Newer, LiveAt, ListingType
      <4>4. Newer(k)' \in SUBSET (1..Len(created)) /\ Len(created) \in Nat
        BY <1>1 DEF Newer, LiveAt, ListingType
      <4>5. IsFiniteSet(Newer(k)') /\ Cardinality(Newer(k)') \in Nat
        BY <4>4, IndicesFinite
      <4>6. /\ IsFiniteSet(Newer(k)' \cup {p})
            /\ Cardinality(Newer(k)' \cup {p}) \in Nat
            /\ Cardinality(Newer(k)' \cup {p}) <= Cardinality(Newer(k)') + 1
        BY <4>5, AddedAtMostOne
      <4>7. Cardinality(Newer(k)) <= Cardinality(Newer(k)') + 1 /\ Cardinality(Newer(k)) \in Nat
        BY <4>1, <4>3, <4>5, <4>6, FS_Subset, LiveFinite
      <4>8. Cardinality(Newer(k)) <= offset /\ offset \in Nat
        BY <4>1, <4>5, <4>7 DEF ListingType
      <4> QED
        BY <4>1, <4>7, <4>8 DEF MissedAt, Behind
    <3>2. CASE pulled = {}
      <4>1. MissedAt' \in SUBSET MissedAt
        BY <3>1, <3>2
      <4> HIDE DEF pulled
      <4>2. Cardinality(MissedAt') <= Cardinality(MissedAt) /\ Cardinality(MissedAt') \in Nat
        BY <4>1, MissedFinite, FS_Subset, FS_CardinalityType
      <4> QED
        BY <4>2, MissedFinite
    <3>3. CASE pulled # {}
      <4>1. PICK q \in pulled : TRUE
        BY <3>3
      <4>2. pulled = {q}
        BY <4>1, RankIsUnique
      <4>3. MissedAt' \in SUBSET (MissedAt \cup {q})
        BY <3>1, <4>2
      <4> HIDE DEF pulled
      <4>4. /\ IsFiniteSet(MissedAt \cup {q}) /\ Cardinality(MissedAt \cup {q}) \in Nat
            /\ Cardinality(MissedAt \cup {q}) <= Cardinality(MissedAt) + 1
        BY MissedFinite, AddedAtMostOne
      <4>5. Cardinality(MissedAt') <= Cardinality(MissedAt \cup {q}) /\ Cardinality(MissedAt') \in Nat
        BY <4>3, <4>4, FS_Subset, FS_CardinalityType
      <4> QED
        BY <4>4, <4>5, MissedFinite
    <3> QED
      BY <3>2, <3>3
  <2>5. began.listed \subseteq ToSet(created) \ began.deleted /\ began.deleted \subseteq deleted'
    BY <1>1, <1>3 DEF WalkInv
  <2>6. walk = "walking" => Cardinality(MissedAt') <= Cardinality(Removed')
    BY <2>1, <2>4, MissedFinite, RemovedFinite DEF WalkInv
  <2>7. walk = "ended" => Cardinality(Unseen') <= Cardinality(Removed')
    BY <1>3, <2>1, <2>3, UnseenFinite, RemovedFinite DEF WalkInv
  <2> QED
    BY <1>1, <2>5, <2>6, <2>7 DEF WalkInv
<1> QED
  BY <1>2, <1>3

(* A page shows every item whose rank is on it (GenericPager).             *)
LEMMA PageShows ==
    ASSUME ListingType, NEW k \in LiveAt,
           offset <= Cardinality(Newer(k)), Cardinality(Newer(k)) < offset + Size
    PROVE  created[k] \in ToSet(PageItems(limit, offset, Listed))
<1> DEFINE n == Len(Listed)
           r == Cardinality(Newer(k))
           e == PageEnd(limit, offset, n)
           page == SubSeq(Listed, offset + 1, e)
<1>1. Size \in Nat \ {0} /\ offset \in Nat /\ r \in Nat
  BY PageSizeType, LiveFinite DEF ListingType, Size
<1>2. Listed \in Seq(Items) /\ n \in Nat /\ r + 1 \in 1..n /\ Listed[r + 1] = created[k]
  BY ListedProperties
<1>3. r + 1 <= e /\ e <= n /\ e \in Nat
  BY <1>1, <1>2 DEF PageEnd, From, Size
<1>4. PageItems(limit, offset, Listed) = page
  <2>1. From(offset) = offset /\ ~(offset >= n)
    BY <1>1, <1>2 DEF From
  <2> QED
    BY <2>1 DEF PageItems
<1> HIDE DEF n, r, e
<1>5. /\ Len(page) = e - offset /\ page \in Seq(Items)
      /\ \A m \in 1..(e - offset) : page[m] = Listed[offset + m]
  BY <1>1, <1>2, <1>3 DEF n, r
<1>6. r + 1 - offset \in 1..(e - offset) /\ offset + (r + 1 - offset) = r + 1
  BY <1>1, <1>2, <1>3 DEF r
<1>7. DOMAIN page = 1..(e - offset) /\ page[r + 1 - offset] = created[k]
  BY <1>2, <1>5, <1>6
<1> HIDE DEF page
<1> QED
  BY <1>4, <1>6, <1>7 DEF ToSet

(* A page is seen as a whole, so that nothing is missed between two pages; *)
(* after the last one every item is behind the walk (listBackup).          *)
LEMMA WalkFetch ==
    ASSUME ListingType, WalkInv, Fetch
    PROVE  WalkInv'
<1>1. /\ UNCHANGED <<created, deleted, limit, began>> /\ walk = "walking"
      /\ seen' = seen \cup ToSet(PageItems(limit, offset, Listed))
      /\ offset' = offset + Size /\ walk' \in {"walking", "ended"}
      /\ walk' = "ended" =>
            Listed = <<>> \/ CurrentPage(limit, offset) >= TotalPages(limit, Len(Listed))
  BY DEF Fetch, Size
<1>2. Size \in Nat \ {0} /\ offset \in Nat
  BY PageSizeType DEF ListingType, Size
<1>3. LiveAt' = LiveAt /\ Removed' = Removed /\ Unseen' \in SUBSET Unseen
  BY <1>1 DEF LiveAt, Removed, Unseen
<1>4. \A k \in LiveAt : Newer(k)' = Newer(k)
  BY <1>3 DEF Newer
<1>5. MissedAt' \in SUBSET MissedAt
  <2> SUFFICES ASSUME NEW k \in MissedAt' PROVE k \in MissedAt
    OBVIOUS
  <2>1. /\ k \in LiveAt /\ Cardinality(Newer(k)) < offset + Size
        /\ created[k] \in Unseen' /\ created[k] \in Unseen
    BY <1>1, <1>3, <1>4 DEF MissedAt, Behind
  <2>2. created[k] \notin ToSet(PageItems(limit, offset, Listed))
    BY <1>1, <2>1 DEF Unseen
  <2>3. Cardinality(Newer(k)) < offset
    BY <1>2, <2>1, <2>2, PageShows, LiveFinite
  <2> QED
    BY <2>1, <2>3 DEF MissedAt, Behind
<1>6. IsFiniteSet(MissedAt') /\ Cardinality(MissedAt') <= Cardinality(Removed')
  <2>1. /\ IsFiniteSet(MissedAt') /\ Cardinality(MissedAt') \in Nat
        /\ Cardinality(MissedAt') <= Cardinality(MissedAt)
    BY <1>5, MissedFinite, FS_Subset, FS_CardinalityType
  <2> QED
    BY <1>1, <1>3, <2>1, MissedFinite, RemovedFinite DEF WalkInv
<1>7. ASSUME walk' = "ended"
      PROVE  Cardinality(Unseen') <= Cardinality(Removed')
  <2>1. \A k \in LiveAt : Cardinality(Newer(k)) < offset'
    <3> SUFFICES ASSUME NEW k \in LiveAt PROVE Cardinality(Newer(k)) < offset'
      OBVIOUS
    <3> DEFINE n == Len(Listed)
    <3>1. n \in Nat \ {0} /\ Cardinality(Newer(k)) \in Nat /\ Cardinality(Newer(k)) < n
      BY RankIsBounded, LiveFinite, ListedProperties
    <3>2. offset \div Size + 1 >= TotalPages(limit, n)
      <4>1. Listed # <<>>
        BY <3>1
      <4> QED
        BY <1>1, <1>2, <1>7, <4>1 DEF CurrentPage, From, Size
    <3>3. TotalPages(limit, n) >= (n + Size - 1) \div Size
      BY <1>2, <3>1 DEF TotalPages, Size
    <3> HIDE DEF n
    <3>4. offset \div Size + 1 >= (n + Size - 1) \div Size
      <4>1. offset \div Size \in Int /\ (n + Size - 1) \div Size \in Int
        BY <1>2, <3>1
      <4>2. TotalPages(limit, n) \in Int
        BY <4>1 DEF TotalPages, Size
      <4> QED
        BY <3>2, <3>3, <4>1, <4>2
    <3>5. n <= offset + Size
      BY <1>2, <3>1, <3>4, LastPageCovers
    <3> QED
      BY <1>1, <1>2, <3>1, <3>5
  <2> DEFINE f == [k \in MissedAt' |-> created[k]]
  <2>2. f \in [MissedAt' -> Unseen']
    BY <1>1 DEF MissedAt
  <2>3. ASSUME NEW x \in Unseen' PROVE \E k \in MissedAt' : f[k] = x
    <3>1. x \in ToSet(created) /\ x \notin deleted
      BY <1>1, <2>3 DEF Unseen, WalkInv
    <3>2. PICK k \in 1..Len(created) : created[k] = x
      BY <3>1 DEF ToSet, ListingType
    <3>3. k \in LiveAt
      BY <3>1, <3>2 DEF LiveAt
    <3>4. k \in MissedAt'
      BY <1>1, <1>3, <1>4, <2>1, <2>3, <3>2, <3>3 DEF MissedAt, Behind
    <3> QED
      BY <3>2, <3>4
  <2>4. f \in Surjection(MissedAt', Unseen')
    <3> HIDE DEF f
    <3> QED
      BY <2>2, <2>3 DEF Surjection
  <2> HIDE DEF f
  <2>5. /\ IsFiniteSet(Unseen') /\ Cardinality(Unseen') <= Cardinality(MissedAt')
    BY <1>6, <2>4, FS_Surjection
  <2>6. Cardinality(Unseen') \in Nat /\ Cardinality(MissedAt') \in Nat /\ Cardinality(Removed') \in Nat
    BY <1>3, <1>6, <2>5, RemovedFinite, FS_CardinalityType
  <2> QED
    BY <1>6, <2>5, <2>6
<1>8. began'.listed \subseteq ToSet(created') \ began'.deleted /\ began'.deleted \subseteq deleted'
  BY <1>1 DEF WalkInv
<1> QED
  BY <1>1, <1>6, <1>7, <1>8 DEF WalkInv

(* A walk begins with no page behind it (listBackup).                      *)
LEMMA WalkBegin ==
    ASSUME ListingType, NEW l \in Limits, Begin(l)
    PROVE  WalkInv'
<1>1. /\ UNCHANGED <<created, deleted>> /\ walk' = "walking" /\ offset' = 0
      /\ began' = [listed |-> ToSet(Listed), deleted |-> deleted]
  BY DEF Begin
<1>2. ToSet(Listed) \subseteq ToSet(created) \ deleted
  <2> SUFFICES ASSUME NEW n \in 1..Len(Listed) PROVE Listed[n] \in ToSet(created) \ deleted
    BY ListedProperties DEF ToSet
  <2>1. PICK k \in LiveAt : Listed[n] = created[k]
    BY ListedProperties
  <2> QED
    BY <2>1 DEF LiveAt, ToSet, ListingType
<1>3. MissedAt' = {}
  <2> SUFFICES ASSUME NEW k \in MissedAt' PROVE FALSE
    OBVIOUS
  <2>1. k \in LiveAt /\ Cardinality(Newer(k)) < 0
    BY <1>1 DEF MissedAt, Behind, LiveAt, Newer
  <2> QED
    BY <2>1, LiveFinite
<1>4. Removed' = {}
  BY <1>1 DEF Removed
<1> QED
  BY <1>1, <1>2, <1>3, <1>4, FS_EmptySet DEF WalkInv

LEMMA WalkNext ==
    ASSUME ListingType, WalkInv, [ListingStep]_listingVars
    PROVE  WalkInv'
<1>1. CASE UNCHANGED listingVars
  BY <1>1
  DEF listingVars, walkVars, WalkInv, MissedAt, Behind, Unseen, Removed, LiveAt, Newer
<1> QED
  BY <1>1, WalkCreate, WalkDelete, WalkBegin, WalkFetch DEF ListingStep

-----------------------------------------------------------------------------
LEMMA ListingAlways == ListingSpec => [](ListingType /\ WalkInv)
<1>1. ListingInit => ListingType /\ WalkInv
  BY FS_EmptySet DEF ListingInit, ListingType, WalkInv
<1>2. ListingType /\ WalkInv /\ [ListingStep]_listingVars => (ListingType /\ WalkInv)'
  BY ListingTypeNext, WalkNext
<1> QED
  BY <1>1, <1>2, PTL DEF ListingSpec

(* For every page size and every number of items, the pages that           *)
(* GenericPager counts are the pages that hold items.                      *)
THEOREM PagesCorrect == ListingSpec => []PagesMatchItems
BY ListingAlways, PagesMatch, PTL

(* However items are created and deleted between two pages, a walk to the  *)
(* last page misses at most one item for each that was deleted             *)
(* (listBackup, GenericPager).                                             *)
THEOREM WalkCorrect == ListingSpec => []WalkMissesFew
<1>1. ListingType /\ WalkInv => WalkMissesFew
  <2> SUFFICES ASSUME WalkInv, walk = "ended"
               PROVE  Cardinality((began.listed \ Removed) \ seen) <= Cardinality(Removed)
    BY DEF WalkMissesFew, Removed
  <2>1. (began.listed \ Removed) \ seen = Unseen
    BY DEF WalkInv, Removed, Unseen
  <2> QED
    BY <2>1 DEF WalkInv
<1> QED
  BY <1>1, ListingAlways, PTL

-----------------------------------------------------------------------------
(* Schedules. *)

(* A plan whose request was accepted is looked at at some instant          *)
ScheduleType ==
    request \in PolicyRequests /\ ValidBackupPolicy(request) /\ now \in Instants

(* The least element of a set of integers is its Min (NextFiring).         *)
LEMMA LeastIsMin ==
    ASSUME NEW S \in SUBSET Int, NEW m \in S, \A u \in S : m <= u
    PROVE  Min(S) = m
<1>1. \A x \in S : (\A y \in S : x <= y) => x = m
  OBVIOUS
<1> QED
  BY <1>1 DEF Min

(* A set of instants that is not empty has a least one (Instants).         *)
LEMMA LeastExists ==
    ASSUME NEW S \in SUBSET Nat, S # {}
    PROVE  Min(S) \in S /\ \A u \in S : Min(S) <= u
<1> DEFINE R == {p \in Nat \X Nat : p[1] < p[2]}
<1>1. IsWellFoundedOn(R, Nat)
  <2>1. R = OpToRel(<, Nat)
    BY Zenon DEF OpToRel
  <2> QED
    BY <2>1, NatLessThanWellFounded, Zenon
<1>2. PICK m \in S : \A u \in S : <<u, m>> \notin R
  <2> HIDE DEF R
  <2> QED
    BY <1>1, WFMin
<1>3. ASSUME NEW u \in S PROVE m <= u
  <2>1. <<u, m>> \notin R
    BY <1>2
  <2> QED
    BY <2>1
<1> QED
  BY <1>3, LeastIsMin

LEMMA ScheduleTypeNext ==
    ASSUME ScheduleType, [Tick]_scheduleVars
    PROVE  ScheduleType'
<1>1. CASE Tick
  <2> DEFINE S == {u \in Instants : u > now}
  <2>1. now \in Instants \ {Max(Instants)} /\ now' = Min(S) /\ request' = request
    BY <1>1 DEF Tick, Later
  <2>2. S # {}
    <3> SUFFICES ASSUME \A u \in Instants : ~(u > now) PROVE FALSE
      OBVIOUS
    <3>1. \A u \in Instants : now >= u
      BY <2>1, ScheduleAssumption
    <3>2. \A x \in Instants : (\A y \in Instants : x >= y) => x = now
      BY <2>1, <3>1, ScheduleAssumption
    <3>3. Max(Instants) = now
      BY <2>1, <3>1, <3>2 DEF Max
    <3> QED
      BY <2>1, <3>3
  <2>3. Min(S) \in S
    <3>1. S \in SUBSET Nat
      BY ScheduleAssumption
    <3> HIDE DEF S
    <3> QED
      BY <2>2, <3>1, LeastExists
  <2> QED
    BY <2>1, <2>3 DEF ScheduleType
<1>2. CASE UNCHANGED scheduleVars
  BY <1>2 DEF scheduleVars, ScheduleType
<1> QED
  BY <1>1, <1>2

LEMMA ScheduleAlways == ScheduleSpec => []ScheduleType
<1>1. ScheduleInit => ScheduleType
  BY ScheduleAssumption, LeastExists DEF ScheduleInit, ScheduleType
<1> QED
  BY <1>1, ScheduleTypeNext, PTL DEF ScheduleSpec

(* For every number of milliseconds: what ParseTimestampToLocal makes of   *)
(* it is a time of day that ParseToCron and the cron library take, but for *)
(* an hourly plan on the full hour (validBackupPolicy).                    *)
THEOREM TimestampCorrect == ScheduleSpec => []TimestampIsScheduled
<1>1. ScheduleType => TimestampIsScheduled
  <2> SUFFICES ASSUME ScheduleType, request.times.form = "ms",
                      ~(policy.freq = "@hourly" /\ policy.m = 0)
               PROVE  CronAccepts(ParseToCron(policy))
    BY DEF TimestampIsScheduled
  <2>1. request.times.ms \in Int /\ request.freq \in Frequencies
    BY ScheduleAssumption DEF ScheduleType, ValidBackupPolicy
  <2>2. /\ policy.freq = request.freq
        /\ policy.h = (request.times.ms \div 3600000) % 24
        /\ policy.m = (request.times.ms \div 60000) % 60
    BY DEF policy, StoredPolicy, TimesOfDay, ParseTimestampToLocal
  <2>3. policy.h \in 0..23 /\ policy.m \in 0..59
    BY <2>1, <2>2
  <2> QED
    BY <2>1, <2>2, <2>3 DEF CronAccepts, ParseToCron, Frequencies
<1> QED
  BY <1>1, ScheduleAlways, PTL

-----------------------------------------------------------------------------
(* The next backup time. *)

(* An instant of a day has that day and its time of day.                   *)
LEMMA InstantProperties ==
    ASSUME NEW d \in Int, NEW h \in 0..23, NEW m \in 0..59
    PROVE  /\ Instant(d, h, m) \in Int
           /\ Instant(d, h, m) % Day = Instant(0, h, m)
           /\ DayOf(Instant(d, h, m)) = d
           /\ d * Day <= Instant(d, h, m) /\ Instant(d, h, m) < (d + 1) * Day
BY DEF Instant, DayOf, Day, Hour

(* The time of day of a line, i days after that of t *)
FiringAt(line, t, i) == Instant(DayOf(t) + i, line.h, line.m)

IsDayLine(line) == line.minute = "at" /\ line.h \in 0..23 /\ line.m \in 0..59

(* An instant lies in a day (DayOf).                                       *)
LEMMA DayOfProperties ==
    ASSUME NEW t \in Nat
    PROVE  DayOf(t) \in Nat /\ DayOf(t) * Day <= t /\ t < (DayOf(t) + 1) * Day
BY DEF DayOf, Day, Hour

(* The time of day on the days ahead (NextFiring).                         *)
LEMMA FiringAtProperties ==
    ASSUME NEW line, IsDayLine(line), NEW t \in Nat, NEW i \in Int
    PROVE  /\ FiringAt(line, t, i) \in Int
           /\ FiringAt(line, t, i) % Day = Instant(0, line.h, line.m)
           /\ DayOf(FiringAt(line, t, i)) = DayOf(t) + i
           /\ FiringAt(line, t, i) = FiringAt(line, t, 0) + i * Day
           /\ i >= 1 => FiringAt(line, t, i) > t
           /\ i < 0 => FiringAt(line, t, i) < t
<1> DEFINE d == DayOf(t)
<1>1. d \in Nat /\ d * Day <= t /\ t < (d + 1) * Day
  BY DayOfProperties
<1>2. FiringAt(line, t, i) = Instant(d + i, line.h, line.m)
  BY DEF FiringAt
<1>3. FiringAt(line, t, 0) = Instant(d, line.h, line.m)
  <2> HIDE DEF d
  <2>1. d + 0 = d
    BY <1>1
  <2> QED
    BY <2>1 DEF FiringAt, d
<1> HIDE DEF d
<1>4. line.h \in 0..23 /\ line.m \in 0..59 /\ d + i \in Int
  BY <1>1 DEF IsDayLine
<1>5. /\ Instant(d + i, line.h, line.m) \in Int
      /\ Instant(d + i, line.h, line.m) % Day = Instant(0, line.h, line.m)
      /\ DayOf(Instant(d + i, line.h, line.m)) = d + i
      /\ (d + i) * Day <= Instant(d + i, line.h, line.m)
      /\ Instant(d + i, line.h, line.m) < (d + i + 1) * Day
  BY <1>4, InstantProperties
<1>6. Instant(d + i, line.h, line.m) = Instant(d, line.h, line.m) + i * Day
  BY <1>1, <1>4 DEF Instant, Day, Hour
<1>7. (i >= 1 => Instant(d + i, line.h, line.m) > t) /\ (i < 0 => Instant(d + i, line.h, line.m) < t)
  BY <1>1, <1>4 DEF Instant, Day, Hour
<1> QED
  BY <1>1, <1>2, <1>3, <1>5, <1>6, <1>7 DEF d

(* The first of the days ahead on which a line fires is its next firing.   *)
LEMMA NextFiringIsFirst ==
    ASSUME NEW line, IsDayLine(line), NEW t \in Nat, NEW k \in 0..62,
           FiringAt(line, t, k) >= t, Fires(line, FiringAt(line, t, k)),
           \A i \in 0..62 : FiringAt(line, t, i) >= t /\ Fires(line, FiringAt(line, t, i)) => k <= i
    PROVE  NextFiring(line, t) = FiringAt(line, t, k)
<1> DEFINE S == {u \in {FiringAt(line, t, i) : i \in 0..62} : u >= t /\ Fires(line, u)}
<1>1. NextFiring(line, t) = Min(S)
  BY DEF NextFiring, FiringAt, IsDayLine
<1>2. \A i \in 0..62 : /\ FiringAt(line, t, i) \in Int
                       /\ FiringAt(line, t, i) = FiringAt(line, t, 0) + i * Day
  BY FiringAtProperties
<1>3. S \in SUBSET Int /\ FiringAt(line, t, k) \in S
  BY <1>2
<1>4. \A u \in S : FiringAt(line, t, k) <= u
  <2> SUFFICES ASSUME NEW i \in 0..62, k <= i
               PROVE  FiringAt(line, t, k) <= FiringAt(line, t, i)
    OBVIOUS
  <2>1. /\ FiringAt(line, t, k) = FiringAt(line, t, 0) + k * Day
        /\ FiringAt(line, t, i) = FiringAt(line, t, 0) + i * Day
        /\ FiringAt(line, t, 0) \in Int
    BY <1>2
  <2> QED
    BY <2>1 DEF Day, Hour
<1> HIDE DEF S
<1> QED
  BY <1>1, <1>3, <1>4, LeastIsMin

(* A plan by the day: its line fires at its time on every day, and the     *)
(* shown time is the one of today or of tomorrow (NextByDaily).            *)
LEMMA NextDaily ==
    ASSUME NEW p, NEW t \in Nat, p.freq = "@daily", p.h \in 0..23, p.m \in 0..59
    PROVE  GetNextBackupTime(p, t) = NextFiring(ParseToCron(p), t)
<1> DEFINE line == ParseToCron(p)
           k == IF FiringAt(line, t, 0) < t THEN 1 ELSE 0
<1>1. line = [minute |-> "at", h |-> p.h, m |-> p.m, dom |-> Star, dow |-> Star]
  BY DEF ParseToCron
<1> HIDE DEF line
<1>2. IsDayLine(line)
  BY <1>1 DEF IsDayLine
<1>3. \A i \in 0..62 : /\ Fires(line, FiringAt(line, t, i))
                       /\ FiringAt(line, t, i) \in Int
                       /\ FiringAt(line, t, i) = FiringAt(line, t, 0) + i * Day
                       /\ i >= 1 => FiringAt(line, t, i) > t
  <2> SUFFICES ASSUME NEW i \in 0..62
               PROVE  /\ Fires(line, FiringAt(line, t, i))
                      /\ FiringAt(line, t, i) \in Int
                      /\ FiringAt(line, t, i) = FiringAt(line, t, 0) + i * Day
                      /\ i >= 1 => FiringAt(line, t, i) > t
    OBVIOUS
  <2>1. i \in Int
    OBVIOUS
  <2>2. /\ FiringAt(line, t, i) \in Int
        /\ FiringAt(line, t, i) % Day = Instant(0, line.h, line.m)
        /\ FiringAt(line, t, i) = FiringAt(line, t, 0) + i * Day
        /\ i >= 1 => FiringAt(line, t, i) > t
    BY <1>2, <2>1, FiringAtProperties
  <2> QED
    BY <1>1, <2>2 DEF Fires
<1>4. /\ k \in 0..62 /\ FiringAt(line, t, k) >= t
      /\ \A i \in 0..62 : FiringAt(line, t, i) >= t => k <= i
  BY <1>3
<1>5. GetNextBackupTime(p, t) = FiringAt(line, t, k)
  <2>1. GetNextBackupTime(p, t) = NextByDaily(p, t)
    BY DEF GetNextBackupTime
  <2>2. Instant(DayOf(t), p.h, p.m) = FiringAt(line, t, 0)
    <3>1. DayOf(t) + 0 = DayOf(t)
      BY DayOfProperties
    <3> QED
      BY <1>1, <3>1 DEF FiringAt
  <2>3. FiringAt(line, t, 1) = FiringAt(line, t, 0) + Day
    BY <1>3 DEF Day, Hour
  <2> QED
    BY <2>1, <2>2, <2>3 DEF NextByDaily
<1>6. NextFiring(line, t) = FiringAt(line, t, k)
  <2> HIDE DEF k
  <2> QED
    BY <1>2, <1>3, <1>4, NextFiringIsFirst
<1> QED
  BY <1>5, <1>6 DEF line

(* The day of the week w, counted from Sunday as 1, in the week of day d.  *)
LEMMA DayOfThisWeek ==
    ASSUME NEW d \in Nat, NEW w \in 2..7, NEW o, o = w - 2 - (d % 7)
    PROVE  /\ o \in Int /\ o >= -6 /\ o <= 5
           /\ (d + o) % 7 = w - 2 /\ (d + o + 7) % 7 = w - 2
<1> DEFINE q == d \div 7
<1>1. q \in Nat /\ (d % 7) \in 0..6 /\ d = 7 * q + (d % 7)
  OBVIOUS
<1>2. o \in Int /\ o >= -6 /\ o <= 5 /\ d + o = 7 * q + (w - 2) /\ w - 2 \in 0..5
  <2> HIDE DEF q
  <2> QED
    BY <1>1
<1> HIDE DEF q
<1>3. (7 * q + (w - 2)) % 7 = w - 2 /\ (7 * q + (w - 2) + 7) % 7 = w - 2
  BY <1>1, <1>2
<1> QED
  BY <1>2, <1>3

(* A plan by the week from 16:00 on, any day but Sunday: its line fires    *)
(* when the day of week comes round, and the shown time is that of this    *)
(* week or of the next one (NextByWeekly).                                 *)
LEMMA NextWeekly ==
    ASSUME NEW p, NEW t \in Nat, p.freq = "@weekly",
           p.h \in 16..23, p.m \in 0..59, p.dow \in 2..7
    PROVE  GetNextBackupTime(p, t) = NextFiring(ParseToCron(p), t)
<1> DEFINE line == ParseToCron(p)
           d == DayOf(t)
           o == p.dow - 2 - (d % 7)
           k == IF FiringAt(line, t, o) < t THEN o + 7 ELSE o
<1>1. line = [minute |-> "at", h |-> p.h, m |-> p.m, dom |-> Star, dow |-> p.dow - 1]
  BY DEF ParseToCron
<1> HIDE DEF line
<1>2. IsDayLine(line)
  BY <1>1 DEF IsDayLine
<1>3. d \in Nat /\ p.dow \in 2..7
  BY DayOfProperties
<1>4. \A i \in Int : /\ FiringAt(line, t, i) \in Int
                     /\ DayOf(FiringAt(line, t, i)) = d + i
                     /\ FiringAt(line, t, i) % Day = Instant(0, line.h, line.m)
                     /\ FiringAt(line, t, i) = FiringAt(line, t, 0) + i * Day
                     /\ i >= 1 => FiringAt(line, t, i) > t
                     /\ i < 0 => FiringAt(line, t, i) < t
  BY <1>2, FiringAtProperties
<1> HIDE DEF d
<1>5. \A i \in 0..62 : Fires(line, FiringAt(line, t, i)) <=> (d + i) % 7 = p.dow - 2
  <2> SUFFICES ASSUME NEW i \in 0..62
               PROVE  Fires(line, FiringAt(line, t, i)) <=> (d + i) % 7 = p.dow - 2
    OBVIOUS
  <2>1. Fires(line, FiringAt(line, t, i)) <=> p.dow - 1 = (((d + i) % 7) + 1) % 7
    BY <1>1, <1>4 DEF Fires, Weekday, Star
  <2> QED
    BY <1>3, <2>1
<1>6. o \in Int /\ o >= -6 /\ o <= 5 /\ (d + o) % 7 = p.dow - 2 /\ (d + o + 7) % 7 = p.dow - 2
  <2>1. o = p.dow - 2 - (d % 7)
    OBVIOUS
  <2> HIDE DEF o
  <2> QED
    BY <1>3, <2>1, DayOfThisWeek
<1>7. k \in 0..62 /\ FiringAt(line, t, k) >= t /\ (d + k) % 7 = p.dow - 2
  <2> HIDE DEF o
  <2>1. CASE FiringAt(line, t, o) < t
    <3>1. k = o + 7 /\ k >= 1 /\ k \in 0..62 /\ d + k = d + o + 7
      BY <1>3, <1>6, <2>1
    <3> QED
      BY <1>4, <1>6, <3>1
  <2>2. CASE FiringAt(line, t, o) >= t
    <3>1. k = o /\ k >= 0 /\ k \in 0..62
      BY <1>4, <1>6, <2>2
    <3> QED
      BY <1>6, <2>2, <3>1
  <2> QED
    BY <1>4, <1>6, <2>1, <2>2
<1>8. \A i \in 0..62 : FiringAt(line, t, i) >= t /\ (d + i) % 7 = p.dow - 2 => k <= i
  <2> SUFFICES ASSUME NEW i \in 0..62, FiringAt(line, t, i) >= t, (d + i) % 7 = p.dow - 2, i < k
               PROVE  FALSE
    BY <1>7
  <2>1. o \in Int /\ i \in Int /\ k \in Int
    BY <1>6, <1>7
  <2> QED
    <3> HIDE DEF o
    <3>1. i = o \/ i = o + 7 \/ i < 0 \/ i >= o + 14
      BY <1>3, <1>6, <2>1
    <3> QED
      BY <1>4, <1>6, <2>1, <3>1
<1>9. GetNextBackupTime(p, t) = FiringAt(line, t, k)
  <2>1. GetNextBackupTime(p, t) = NextByWeekly(p, t)
    BY DEF GetNextBackupTime
  <2>2. Instant(GetFirstDayOfWeek(t) + p.dow - 1, p.h, p.m) - DayBefore(p) = FiringAt(line, t, o)
    <3>1. GetFirstDayOfWeek(t) = d - (d % 7)
      BY DEF GetFirstDayOfWeek, Weekday, d
    <3>2. DayBefore(p) = Day
      BY DEF DayBefore
    <3>3. FiringAt(line, t, o) = Instant(d + o, p.h, p.m)
      BY <1>1 DEF FiringAt, d
    <3>4. Instant(d + o, p.h, p.m) = Instant(d - (d % 7) + p.dow - 1, p.h, p.m) - Day
      <4> DEFINE w == d % 7
      <4>1. w \in Int /\ o = p.dow - 2 - w
        BY <1>3
      <4> HIDE DEF o, w
      <4>2. o \in Int /\ d + o + 1 = d - w + p.dow - 1
        BY <1>3, <4>1
      <4> USE DEF w
      <4> QED
        BY <1>3, <4>2 DEF Instant, Day, Hour
    <3> QED
      BY <3>1, <3>2, <3>3, <3>4
  <2>3. FiringAt(line, t, o + 7) = FiringAt(line, t, o) + 7 * Day
    <3> HIDE DEF o
    <3> QED
      BY <1>4, <1>6 DEF Day, Hour
  <2> QED
    BY <2>1, <2>2, <2>3 DEF NextByWeekly
<1>10. NextFiring(line, t) = FiringAt(line, t, k)
  <2> HIDE DEF k
  <2> QED
    BY <1>2, <1>5, <1>7, <1>8, NextFiringIsFirst
<1> QED
  BY <1>9, <1>10 DEF line

(* The steps that divide an hour (Aligned) *)
Divisors == {1, 2, 3, 4, 5, 6, 10, 12, 15, 20, 30}

LEMMA DivisorsOfHour ==
    ASSUME NEW m \in 1..59, 60 % m = 0
    PROVE  m \in Divisors
BY DEF Divisors

(* Such steps go on over the full hour.                                    *)
LEMMA StepOverHour ==
    ASSUME NEW x \in Nat, NEW m \in Divisors
    PROVE  (x % 60) % m = x % m
BY DEF Divisors

(* The next multiple of a step (NextByHourly).                             *)
LEMMA NextMultiple ==
    ASSUME NEW a \in Nat, NEW m \in Divisors
    PROVE  /\ m - (a % m) \in 1..m
           /\ (a + (m - (a % m))) % m = 0
           /\ \A j \in 1..61 : (a + j) % m = 0 => m - (a % m) <= j
BY DEF Divisors

(* A plan by the hour: its line fires at the multiples of its minutes, and *)
(* the shown time is the first one behind the minute of t (NextByHourly).  *)
LEMMA NextHourly ==
    ASSUME NEW p, NEW t \in Nat, p.freq = "@hourly",
           p.h \in 0..24, p.m \in 1..59, 60 % p.m = 0
    PROVE  GetNextBackupTime(p, t) = NextFiring(ParseToCron(p), 2 * (t \div 2) + 1)
<1> DEFINE line == ParseToCron(p)
           a == t \div 2
           m == p.m
           k == m - (a % m)
           from == 2 * a + 1
           S == {u \in {2 * (a + 1) + 2 * i : i \in 0..60} : u >= from /\ Fires(line, u)}
<1>1. line = [minute |-> "step", every |-> m]
  BY DEF ParseToCron
<1>2. a \in Nat /\ m \in 1..59 /\ m \in Divisors
  BY DivisorsOfHour
<1>3. (t % Hour) \div 2 = a % 60
  BY DEF Hour
<1> HIDE DEF line, a, m
<1>4. NextFiring(line, from) = Min(S)
  <2>1. (from + 1) \div 2 = a + 1
    BY <1>2
  <2> HIDE DEF from
  <2> QED
    BY <1>1, <2>1 DEF NextFiring
<1>5. \A j \in 1..61 : Fires(line, 2 * (a + j)) <=> (a + j) % m = 0
  <2> SUFFICES ASSUME NEW j \in 1..61
               PROVE  Fires(line, 2 * (a + j)) <=> (a + j) % m = 0
    OBVIOUS
  <2>1. a + j \in Nat
    BY <1>2
  <2>2. ((2 * (a + j)) % Hour) \div 2 = (a + j) % 60
    BY <2>1 DEF Hour
  <2>3. ((a + j) % 60) % m = (a + j) % m
    BY <1>2, <2>1, StepOverHour
  <2> QED
    BY <1>1, <2>2, <2>3 DEF Fires
<1>6. /\ k \in 1..m /\ (a + k) % m = 0
      /\ \A j \in 1..61 : (a + j) % m = 0 => k <= j
  BY <1>2, NextMultiple
<1>7. GetNextBackupTime(p, t) = 2 * (a + k)
  <2>1. GetNextBackupTime(p, t) = NextByHourly(p, t)
    BY DEF GetNextBackupTime
  <2>2. (a % 60) % m = a % m
    BY <1>2, StepOverHour
  <2>3. NextByHourly(p, t) = 2 * a + 2 * k
    BY <1>3, <2>2 DEF NextByHourly, a, m
  <2> HIDE DEF k
  <2> QED
    BY <1>2, <1>6, <2>1, <2>3
<1> HIDE DEF k
<1>8. S \in SUBSET Int
  BY <1>2
<1>9. 2 * (a + k) \in S
  <2>1. k \in 1..61 /\ k - 1 \in 0..60 /\ 2 * (a + k) = 2 * (a + 1) + 2 * (k - 1)
    BY <1>2, <1>6
  <2>2. 2 * (a + k) >= from /\ Fires(line, 2 * (a + k))
    BY <1>2, <1>5, <1>6, <2>1
  <2> QED
    BY <2>1, <2>2
<1>10. \A u \in S : 2 * (a + k) <= u
  <2> SUFFICES ASSUME NEW i \in 0..60, Fires(line, 2 * (a + 1) + 2 * i)
               PROVE  2 * (a + k) <= 2 * (a + 1) + 2 * i
    OBVIOUS
  <2>1. i + 1 \in 1..61 /\ 2 * (a + 1) + 2 * i = 2 * (a + (i + 1))
    BY <1>2
  <2>2. k <= i + 1
    BY <1>5, <1>6, <2>1
  <2> QED
    BY <1>2, <1>6, <2>2
<1>11. NextFiring(line, from) = 2 * (a + k)
  <2> HIDE DEF S
  <2> QED
    BY <1>4, <1>8, <1>9, <1>10, LeastIsMin
<1> QED
  BY <1>7, <1>11 DEF line, a

(* The calendar: the days on which months begin, in order (MonthStart).    *)
LEMMA CalendarProperties ==
    /\ Len(MonthStart) \in Nat /\ DOMAIN MonthStart = 1..Len(MonthStart)
    /\ \A i \in 1..Len(MonthStart) : MonthStart[i] \in Nat
    /\ \A i, j \in 1..Len(MonthStart) : i <= j => MonthStart[i] <= MonthStart[j]
    /\ \A i \in Months : i \in 1..Len(MonthStart) /\ i + 1 \in 1..Len(MonthStart)
<1>1. MonthStart \in Seq(Nat) /\ \A i, j \in DOMAIN MonthStart : i < j => MonthStart[i] < MonthStart[j]
  BY CalendarAssumption
<1>2. Len(MonthStart) \in Nat /\ DOMAIN MonthStart = 1..Len(MonthStart)
  BY <1>1
<1>3. \A i \in 1..Len(MonthStart) : MonthStart[i] \in Nat
  BY <1>1
<1>4. ASSUME NEW i \in 1..Len(MonthStart), NEW j \in 1..Len(MonthStart), i <= j
      PROVE  MonthStart[i] <= MonthStart[j]
  <2>1. CASE i = j
    BY <1>3, <2>1
  <2>2. CASE i < j
    <3>1. MonthStart[i] < MonthStart[j]
      BY <1>1, <1>2, <2>2
    <3> QED
      BY <1>3, <3>1
  <2> QED
    BY <1>2, <1>4, <2>1, <2>2
<1>5. \A i \in Months : i \in 1..Len(MonthStart) /\ i + 1 \in 1..Len(MonthStart)
  BY <1>2 DEF Months
<1> QED
  BY <1>2, <1>3, <1>4, <1>5

(* A day before the start of a month lies in one of the months before it.  *)
LEMMA MonthExists ==
    ASSUME NEW d \in Nat, NEW n \in 1..Len(MonthStart), d < MonthStart[n]
    PROVE  \E k \in Months : k < n /\ MonthStart[k] <= d /\ d < MonthStart[k + 1]
<1> DEFINE S == {j \in 1..Len(MonthStart) : d < MonthStart[j]}
           b == Min(S)
<1>1. b \in S /\ \A j \in S : b <= j
  <2>1. S \in SUBSET Nat /\ n \in S
    BY CalendarProperties
  <2> HIDE DEF S
  <2> QED
    BY <2>1, LeastExists
<1> HIDE DEF b
<1>2. b \in 1..Len(MonthStart) /\ b <= n /\ d < MonthStart[b]
  BY <1>1
<1>3. b # 1
  BY <1>2, CalendarAssumption
<1>4. b - 1 \in 1..Len(MonthStart) /\ b - 1 \in Months /\ b - 1 < n /\ (b - 1) + 1 = b
  BY <1>2, <1>3, CalendarProperties DEF Months
<1>5. MonthStart[b - 1] <= d
  BY <1>1, <1>2, <1>4, CalendarProperties
<1> QED
  BY <1>2, <1>4, <1>5

(* A day lies in one month only (MonthOf, DateOf).                         *)
LEMMA MonthIs ==
    ASSUME NEW d \in Nat, NEW k \in Months, MonthStart[k] <= d, d < MonthStart[k + 1]
    PROVE  MonthOf(d) = k /\ DateOf(d) = d - MonthStart[k] + 1
<1>1. ASSUME NEW j \in Months, MonthStart[j] <= d, d < MonthStart[j + 1]
      PROVE  j = k
  <2>1. /\ j \in 1..Len(MonthStart) /\ j + 1 \in 1..Len(MonthStart)
        /\ k \in 1..Len(MonthStart) /\ k + 1 \in 1..Len(MonthStart)
    BY CalendarProperties
  <2>2. ~(j + 1 <= k) /\ ~(k + 1 <= j)
    BY <1>1, <2>1, CalendarProperties
  <2> QED
    BY <2>1, <2>2
<1>2. MonthOf(d) = k
  BY <1>1 DEF MonthOf
<1> QED
  BY <1>2 DEF DateOf

(* The calendar goes on for three months after the one of day d            *)
InCalendar(d) == d < MonthStart[Len(MonthStart) - 3]

(* The month of a day and the three that follow it: they are no longer     *)
(* than 31 days, and of the next two one is as long (CalendarAssumption).  *)
LEMMA MonthsAhead ==
    ASSUME NEW d \in Nat, InCalendar(d), NEW k, k = MonthOf(d)
    PROVE  /\ k \in Nat /\ k..(k + 3) \subseteq Months /\ k + 4 \in 1..Len(MonthStart)
           /\ MonthStart[k] <= d /\ d < MonthStart[k + 1]
           /\ \A i \in k..(k + 3) : /\ MonthLength(i) \in 28..31
                                    /\ MonthStart[i + 1] = MonthStart[i] + MonthLength(i)
           /\ MonthLength(k) = 31 \/ MonthLength(k + 1) = 31
           /\ MonthLength(k + 1) = 31 \/ MonthLength(k + 2) = 31
<1> DEFINE n == Len(MonthStart) - 3
<1>1. n \in 1..Len(MonthStart)
  BY CalendarAssumption, CalendarProperties
<1>2. PICK j \in Months : j < n /\ MonthStart[j] <= d /\ d < MonthStart[j + 1]
  <2> HIDE DEF n
  <2>1. d < MonthStart[n]
    BY DEF n, InCalendar
  <2> QED
    BY <1>1, <2>1, MonthExists
<1>3. k = j
  BY <1>2, MonthIs
<1>4. k \in Nat /\ k..(k + 3) \subseteq Months /\ k + 4 \in 1..Len(MonthStart)
  BY <1>2, <1>3, CalendarProperties DEF Months
<1>5. \A i \in k..(k + 3) : /\ MonthLength(i) \in 28..31
                            /\ MonthStart[i + 1] = MonthStart[i] + MonthLength(i)
  <2> SUFFICES ASSUME NEW i \in k..(k + 3)
               PROVE  /\ MonthLength(i) \in 28..31
                      /\ MonthStart[i + 1] = MonthStart[i] + MonthLength(i)
    OBVIOUS
  <2>1. i \in Months
    BY <1>4
  <2>2. MonthStart[i] \in Nat /\ MonthStart[i + 1] \in Nat
    BY <2>1, CalendarProperties
  <2> QED
    BY <2>1, <2>2, CalendarAssumption DEF MonthLength
<1>6. /\ 31 \in {MonthLength((k + 1) - 1), MonthLength(k + 1)}
      /\ 31 \in {MonthLength((k + 2) - 1), MonthLength(k + 2)}
  <2>1. k + 1 \in Months /\ k + 1 > 1 /\ k + 2 \in Months /\ k + 2 > 1
    BY <1>2, <1>3, <1>4 DEF Months
  <2> QED
    BY <2>1, CalendarAssumption
<1>7. (k + 1) - 1 = k /\ (k + 2) - 1 = k + 1
  BY <1>4
<1> QED
  BY <1>2, <1>3, <1>4, <1>5, <1>6, <1>7

(* A date of this month is at most 30 days ahead, one of the next month or *)
(* of the one after it at most 62, if that date of this month is over.     *)
LEMMA DaysAhead ==
    ASSUME NEW a \in Nat, NEW b \in Nat, NEW c \in Nat, NEW x \in 28..31, NEW y \in 28..31,
           b = a + x, c = b + y,
           NEW d \in Nat, a <= d, d < b, NEW o \in 1..31
    PROVE  /\ a + o - 1 - d <= 30 /\ b + o - 1 - d \in 1..62
           /\ a + o - 1 - d < 1 => c + o - 1 - d \in 1..62
OBVIOUS

(* A plan by the month before 16:00: its line fires on the first month     *)
(* from now on that has the date, which is at most two months ahead, and   *)
(* the shown time is the one of that month (NextByMonthly).                *)
LEMMA NextMonthly ==
    ASSUME NEW p, NEW t \in Nat, p.freq = "@monthly",
           p.h \in 0..15, p.m \in 0..59, p.dom \in 1..31,
           InCalendar(DayOf(t))
    PROVE  GetNextBackupTime(p, t) = NextFiring(ParseToCron(p), t)
<1>1. PICK line : line = ParseToCron(p)
  OBVIOUS
<1>2. /\ line = [minute |-> "at", h |-> p.h, m |-> p.m, dom |-> p.dom, dow |-> Star]
      /\ p.h \in 0..23 /\ p.m \in 0..59 /\ p.dom \in 1..31 /\ IsDayLine(line)
  <2>1. line = [minute |-> "at", h |-> p.h, m |-> p.m, dom |-> p.dom, dow |-> Star]
    BY <1>1 DEF ParseToCron
  <2>2. p.h \in 0..23
    OBVIOUS
  <2> QED
    BY <2>1, <2>2 DEF IsDayLine
<1>3. PICK d \in Nat : d = DayOf(t)
  BY DayOfProperties
<1>4. PICK k \in Nat :
         /\ k = MonthOf(d) /\ k..(k + 3) \subseteq Months /\ k + 4 \in 1..Len(MonthStart)
         /\ MonthStart[k] <= d /\ d < MonthStart[k + 1]
         /\ \A i \in k..(k + 3) : /\ MonthLength(i) \in 28..31
                                  /\ MonthStart[i + 1] = MonthStart[i] + MonthLength(i)
         /\ MonthLength(k) = 31 \/ MonthLength(k + 1) = 31
         /\ MonthLength(k + 1) = 31 \/ MonthLength(k + 2) = 31
  BY <1>3, MonthsAhead
<1>5. \A i \in k..(k + 3) : /\ IsDate(i, p) <=> p.dom <= MonthLength(i)
                            /\ MonthLength(i) = 31 => IsDate(i, p)
                            /\ MonthStart[i] \in Nat
  <2>1. \A i \in k..(k + 3) : MonthStart[i] \in Nat
    BY <1>4, CalendarProperties
  <2>2. p.h <= 23
    BY <1>2
  <2>3. p.m <= 59
    BY <1>2
  <2>4. ASSUME NEW i \in k..(k + 3) PROVE IsDate(i, p) <=> p.dom <= MonthLength(i)
    BY <2>2, <2>3 DEF IsDate
  <2>5. p.dom <= 31
    BY <1>2
  <2> QED
    BY <2>1, <2>4, <2>5
<1>6. \A i \in Int : /\ FiringAt(line, t, i) \in Int
                     /\ FiringAt(line, t, i) % Day = Instant(0, line.h, line.m)
                     /\ DayOf(FiringAt(line, t, i)) = d + i
                     /\ i >= 1 => FiringAt(line, t, i) > t
                     /\ i < 0 => FiringAt(line, t, i) < t
  BY <1>2, <1>3, FiringAtProperties
<1> DEFINE days(n) == MonthStart[n] + p.dom - 1 - d
           at(n)   == FiringAt(line, t, days(n))
           late    == {n \in (k + 1)..(k + 3) : IsDate(n, p)}
           first   == IF IsDate(k, p) /\ at(k) >= t THEN k ELSE Min(late)
<1>7. \A i \in k..(k + 3) : days(i) \in Int /\ at(i) \in Int
  BY <1>2, <1>5, <1>6
<1> HIDE DEF days
<1>8. /\ first \in k..(k + 2) /\ IsDate(first, p)
      /\ first = k => at(k) >= t
      /\ first = k + 2 => at(k) < t
      /\ \A i \in k..(k + 3) : IsDate(i, p) /\ (i = k => at(k) >= t) => first <= i
  <2>1. k \in k..(k + 3) /\ k + 1 \in k..(k + 3) /\ k + 2 \in k..(k + 3)
    OBVIOUS
  <2>2. CASE IsDate(k, p) /\ at(k) >= t
    <3>1. first = k
      BY <2>2
    <3> QED
      BY <2>2, <3>1
  <2>3. CASE ~(IsDate(k, p) /\ at(k) >= t)
    <3>1. first = Min(late)
      BY <2>3
    <3>2. k + 1 \in late \/ k + 2 \in late
      <4>1. IsDate(k + 1, p) \/ IsDate(k + 2, p)
        BY <1>4, <1>5, <2>1
      <4> QED
        BY <4>1
    <3>3. Min(late) \in late /\ \A i \in late : Min(late) <= i
      <4>1. late \in SUBSET Nat /\ late # {}
        BY <3>2
      <4> HIDE DEF late
      <4> QED
        BY <4>1, LeastExists
    <3>4. first \in {k + 1, k + 2} /\ IsDate(first, p)
      BY <3>1, <3>2, <3>3
    <3>5. ASSUME first = k + 2 PROVE at(k) < t
      <4>1. ~IsDate(k + 1, p)
        BY <3>1, <3>3, <3>5
      <4>2. IsDate(k, p)
        BY <1>4, <1>5, <2>1, <4>1
      <4> QED
        BY <1>7, <2>1, <2>3, <4>2
    <3>6. ASSUME NEW i \in k..(k + 3), IsDate(i, p), i = k => at(k) >= t
          PROVE  first <= i
      BY <2>3, <3>1, <3>3, <3>6
    <3> QED
      BY <3>4, <3>5, <3>6
  <2> QED
    BY <2>2, <2>3
<1>9. GetNextBackupTime(p, t) = at(first)
  <2>1. GetNextBackupTime(p, t) = NextByMonthly(p, t)
    BY DEF GetNextBackupTime
  <2>2. \A i \in k..(k + 3) : Instant(MonthStart[i] + p.dom - 1, p.h, p.m) = at(i)
    <3>1. \A i \in k..(k + 3) : DayOf(t) + days(i) = MonthStart[i] + p.dom - 1
      BY <1>2, <1>3, <1>5 DEF days
    <3> QED
      BY <1>2, <3>1 DEF FiringAt
  <2>3. DayBefore(p) = 0
    BY DEF DayBefore
  <2>4. first \in k..(k + 3)
    BY <1>8
  <2>5. GetNextBackupTime(p, t) = Instant(MonthStart[first] + p.dom - 1, p.h, p.m) - DayBefore(p)
    BY <1>3, <1>4, <2>1, <2>2 DEF NextByMonthly
  <2>6. GetNextBackupTime(p, t) = at(first) - 0
    BY <2>2, <2>3, <2>4, <2>5
  <2> QED
    BY <1>7, <2>4, <2>6
<1> HIDE DEF first
<1>10. PICK n \in k..(k + 2) : n = first
  BY <1>8
<1>11. days(n) \in 0..62 /\ at(n) >= t
  <2>1. k \in k..(k + 3) /\ days(k) \in Int
    BY <1>7
  <2>2. /\ MonthStart[k] \in Nat /\ MonthStart[k + 1] \in Nat /\ MonthStart[k + 2] \in Nat
        /\ MonthLength(k) \in 28..31 /\ MonthLength(k + 1) \in 28..31
        /\ MonthStart[k + 1] = MonthStart[k] + MonthLength(k)
        /\ MonthStart[k + 2] = MonthStart[k + 1] + MonthLength(k + 1)
    <3>1. k \in k..(k + 3) /\ k + 1 \in k..(k + 3) /\ k + 2 \in k..(k + 3) /\ (k + 1) + 1 = k + 2
      OBVIOUS
    <3> QED
      BY <1>4, <1>5, <3>1
  <2>3. /\ days(k) <= 30 /\ days(k + 1) \in 1..62
        /\ days(k) < 1 => days(k + 2) \in 1..62
    <3>1. /\ days(k) = MonthStart[k] + p.dom - 1 - d
          /\ days(k + 1) = MonthStart[k + 1] + p.dom - 1 - d
          /\ days(k + 2) = MonthStart[k + 2] + p.dom - 1 - d
      BY DEF days
    <3>2. MonthStart[k] <= d /\ d < MonthStart[k + 1] /\ p.dom \in 1..31
      BY <1>2, <1>4
    <3>3. PICK a \in Nat, b \in Nat, c \in Nat, x \in 28..31, y \in 28..31, o \in 1..31 :
             /\ a = MonthStart[k] /\ b = MonthStart[k + 1] /\ c = MonthStart[k + 2]
             /\ x = MonthLength(k) /\ y = MonthLength(k + 1) /\ o = p.dom
      BY <2>2, <3>2
    <3>4. b = a + x /\ c = b + y /\ a <= d /\ d < b
      BY <2>2, <3>2, <3>3
    <3>5. /\ a + o - 1 - d <= 30 /\ b + o - 1 - d \in 1..62
          /\ a + o - 1 - d < 1 => c + o - 1 - d \in 1..62
      BY <3>4, DaysAhead
    <3> QED
      BY <3>1, <3>3, <3>5
  <2>4. CASE n = k
    <3>1. at(n) >= t
      BY <1>8, <1>10, <2>4
    <3>2. ~(days(k) < 0)
      BY <1>6, <1>7, <2>1, <2>4, <3>1
    <3> QED
      BY <2>1, <2>3, <2>4, <3>1, <3>2
  <2>5. CASE n = k + 1
    BY <1>6, <2>3, <2>5
  <2>6. CASE n = k + 2
    <3>1. at(k) < t
      BY <1>8, <1>10, <2>6
    <3>2. ~(days(k) >= 1)
      BY <1>6, <1>7, <2>1, <3>1
    <3> QED
      BY <1>6, <2>1, <2>3, <2>6, <3>2
  <2> QED
    BY <2>4, <2>5, <2>6
<1>12. Fires(line, at(n))
  <2>1. n \in k..(k + 3) /\ IsDate(n, p)
    BY <1>8, <1>10
  <2>2. PICK e \in Int : e = d + days(n)
    BY <1>11
  <2>3. /\ n \in Months /\ p.dom <= MonthLength(n)
        /\ MonthStart[n] \in Nat /\ MonthLength(n) \in 28..31
        /\ MonthStart[n + 1] = MonthStart[n] + MonthLength(n)
    BY <1>4, <1>5, <2>1
  <2>4. e = MonthStart[n] + p.dom - 1
    BY <1>2, <2>2, <2>3 DEF days
  <2>5. e \in Nat /\ MonthStart[n] <= e /\ e < MonthStart[n + 1]
    BY <1>2, <2>3, <2>4
  <2>6. DateOf(e) = e - MonthStart[n] + 1
    BY <2>3, <2>5, MonthIs
  <2>7. DateOf(e) = p.dom
    BY <1>2, <2>3, <2>4, <2>6
  <2>8. DayOf(at(n)) = e /\ at(n) % Day = Instant(0, line.h, line.m)
    BY <1>6, <1>11, <2>2
  <2> QED
    BY <1>2, <2>7, <2>8 DEF Fires
<1>13. ASSUME NEW i \in 0..62, FiringAt(line, t, i) >= t, Fires(line, FiringAt(line, t, i))
       PROVE  days(n) <= i
  <2>1. PICK e \in Nat : e = d + i
    OBVIOUS
  <2>2. DateOf(e) = p.dom
    <3>1. DayOf(FiringAt(line, t, i)) = e
      BY <1>6, <2>1
    <3> QED
      BY <1>2, <1>13, <3>1 DEF Fires, Star
  <2>3. e < MonthStart[k + 4]
    <3>1. /\ k \in k..(k + 3) /\ k + 1 \in k..(k + 3) /\ k + 2 \in k..(k + 3) /\ k + 3 \in k..(k + 3)
          /\ (k + 1) + 1 = k + 2 /\ (k + 2) + 1 = k + 3 /\ (k + 3) + 1 = k + 4
      OBVIOUS
    <3>2. /\ MonthStart[k + 1] \in Nat
          /\ MonthLength(k + 1) \in 28..31 /\ MonthLength(k + 2) \in 28..31 /\ MonthLength(k + 3) \in 28..31
          /\ MonthStart[k + 2] = MonthStart[k + 1] + MonthLength(k + 1)
          /\ MonthStart[k + 3] = MonthStart[k + 2] + MonthLength(k + 2)
          /\ MonthStart[k + 4] = MonthStart[k + 3] + MonthLength(k + 3)
      BY <1>4, <1>5, <3>1
    <3>3. d < MonthStart[k + 1]
      BY <1>4
    <3> QED
      BY <2>1, <3>2, <3>3
  <2>4. PICK j \in Months : j < k + 4 /\ MonthStart[j] <= e /\ e < MonthStart[j + 1]
    BY <1>4, <2>3, MonthExists
  <2>5. j \in k..(k + 3)
    <3>1. /\ j \in Nat /\ j + 1 \in 1..Len(MonthStart) /\ k \in 1..Len(MonthStart)
          /\ MonthStart[j + 1] \in Nat /\ MonthStart[k] \in Nat
          /\ j + 1 <= k => MonthStart[j + 1] <= MonthStart[k]
      <4>1. k \in k..(k + 3)
        OBVIOUS
      <4>2. j \in Months /\ k \in Months
        BY <1>4, <4>1
      <4> QED
        BY <4>2, CalendarProperties
    <3>2. MonthStart[k] <= e
      <4>1. MonthStart[k] <= d
        BY <1>4
      <4> QED
        BY <2>1, <3>1, <4>1
    <3>3. ~(j + 1 <= k)
      BY <2>4, <3>1, <3>2
    <3> QED
      BY <2>4, <3>1, <3>3
  <2>6. /\ MonthStart[j] \in Nat /\ MonthLength(j) \in 28..31
        /\ MonthStart[j + 1] = MonthStart[j] + MonthLength(j)
        /\ IsDate(j, p) <=> p.dom <= MonthLength(j)
    BY <1>4, <1>5, <2>5
  <2>7. e = MonthStart[j] + p.dom - 1
    <3>1. DateOf(e) = e - MonthStart[j] + 1
      BY <2>4, MonthIs
    <3> QED
      BY <1>2, <2>2, <2>6, <3>1
  <2>8. days(j) = i /\ IsDate(j, p)
    BY <1>2, <2>1, <2>4, <2>6, <2>7 DEF days
  <2>9. n <= j
    BY <1>8, <1>10, <1>13, <2>5, <2>8
  <2>10. MonthStart[n] \in Nat /\ MonthStart[n] <= MonthStart[j]
    <3>1. n \in k..(k + 3) /\ n \in Months
      <4>1. n \in k..(k + 3)
        OBVIOUS
      <4> QED
        BY <1>4, <4>1
    <3> QED
      BY <2>4, <2>9, <3>1, CalendarProperties
  <2> QED
    BY <1>2, <2>6, <2>8, <2>10 DEF days
<1> QED
  BY <1>1, <1>2, <1>9, <1>10, <1>11, <1>12, <1>13, NextFiringIsFirst

(* At every instant the time that the API shows for an accepted plan is    *)
(* the next firing of its cron line, whatever the numbers of its request:  *)
(* every hour at a divisor of it, every day, every week from 16:00 on but  *)
(* for Sundays, every month before 16:00 on a date that some of the months *)
(* may not have (GetNextBackupTime against ParseToCron).                   *)
THEOREM ShownCorrect == ScheduleSpec => []ShownIsNextFiring
<1>1. ScheduleType => ShownIsNextFiring
  <2> DEFINE p == policy
             line == ParseToCron(p)
  <2> SUFFICES ASSUME ScheduleType, CronAccepts(line), Aligned(p)
               PROVE  GetNextBackupTime(p, now) =
                        NextFiring(line, IF p.freq = "@hourly" THEN 2 * (now \div 2) + 1 ELSE now)
    BY DEF ShownIsNextFiring
  <2>1. /\ now \in Nat /\ InCalendar(DayOf(now))
        /\ p.freq = request.freq /\ p.freq \in {"@hourly", "@daily", "@weekly", "@monthly"}
        /\ p.freq = "@weekly" => p.dow \in 1..7
        /\ p.freq = "@monthly" => p.dom \in 1..31
    <3>1. now \in Nat /\ InCalendar(DayOf(now))
      BY ScheduleAssumption, CalendarAssumption DEF ScheduleType, InCalendar
    <3>2. /\ p.freq = request.freq /\ p.freq \in {"@hourly", "@daily", "@weekly", "@monthly"}
          /\ p.freq = "@weekly" => p.dow \in 1..7
          /\ p.freq = "@monthly" => p.dom \in 1..31
      BY DEF ScheduleType, ValidBackupPolicy, Frequencies, policy, StoredPolicy
    <3> QED
      BY <3>1, <3>2
  <2> HIDE DEF p
  <2>2. p.h \in 0..24 /\ p.m \in 0..59
    BY DEF CronAccepts, ParseToCron, NoLine
  <2>3. CASE p.freq = "@hourly"
    <3>1. line.every = p.m /\ line.minute = "step"
      BY <2>2, <2>3 DEF ParseToCron
    <3>2. p.m \in 1..59 /\ 60 % p.m = 0
      BY <2>2, <2>3, <3>1 DEF CronAccepts, Aligned
    <3> QED
      BY <2>1, <2>2, <2>3, <3>2, NextHourly
  <2>4. CASE p.freq = "@daily"
    <3>1. p.h \in 0..23
      BY <2>2, <2>4 DEF CronAccepts, ParseToCron
    <3> QED
      BY <2>1, <2>2, <2>4, <3>1, NextDaily
  <2>5. CASE p.freq = "@weekly"
    <3>1. p.h \in 0..23
      BY <2>2, <2>5 DEF CronAccepts, ParseToCron
    <3>2. p.h \in 16..23 /\ p.dow \in 2..7
      BY <2>1, <2>5, <3>1 DEF Aligned
    <3> QED
      BY <2>1, <2>2, <2>5, <3>2, NextWeekly
  <2>6. CASE p.freq = "@monthly"
    <3>1. p.h \in 0..23
      BY <2>2, <2>6 DEF CronAccepts, ParseToCron
    <3>2. p.h < 16
      BY <2>6 DEF Aligned
    <3>3. p.h \in 0..15 /\ p.dom \in 1..31
      BY <2>1, <2>6, <3>1, <3>2
    <3> QED
      BY <2>1, <2>2, <2>6, <3>3, NextMonthly
  <2> QED
    BY <2>1, <2>3, <2>4, <2>5, <2>6
<1> QED
  BY <1>1, ScheduleAlways, PTL
=============================================================================
