------------------------ MODULE ClickAnalyticsProofs ------------------------
(***************************************************************************)
(* Proofs about ClickAnalytics, for any lookups, countries, rows and dates:*)
(* CountryIsRecent, because an entry is never older than what its remaining*)
(* life leaves of Horizon, and DimensionsOnlyGrow, because no list counts  *)
(* more clicks than there are when it is read.                             *)
(***************************************************************************)
EXTENDS ClickAnalytics, FiniteSetTheorems, WellFoundedInduction, TLAPS


USE DEF Horizon

Places == Countries \cup {NoCountry}

Stages == {"idle", "cache", "service", "resolved", "unresolved", "over"}

(* The types of GeoLookup's variables. *)
GeoTypeOK ==
  /\ home \in Countries
  /\ since \in [Countries -> 0..Horizon]
  /\ entry \in [country : Places, life : 0..CacheLife]
  /\ lookup \in [Lookups -> [at : Stages, country : Places, lag : 0..Horizon]]
  /\ fill \in [Lookups -> [country : Places, age : -1..Delay]]

HomeIsNow == since[home] = 0

(* A fill on its way carries where the address was when it set out. *)
FillIsFresh ==
  \A l \in Lookups : fill[l].age >= 0 =>
    fill[l].country \in Countries /\ since[fill[l].country] <= fill[l].age

EntryAges ==
  entry.life > 0 => entry.country \in Countries /\ since[entry.country] + entry.life <= Horizon

GeoInv == GeoTypeOK /\ HomeIsNow /\ FillIsFresh /\ EntryAges /\ CountryIsRecent

-----------------------------------------------------------------------------
(* Nothing is cached or answered at first. *)
LEMMA InitGeo == Init => GeoInv
<1> SUFFICES ASSUME GeoInit PROVE GeoInv
  BY DEF Init
<1> USE GeoAssumption DEF GeoInit, Idle, NoFill, NoEntry, Places, Stages
<1>1. home \in Countries /\ since \in [Countries -> 0..Horizon]
  OBVIOUS
<1>2. entry \in [country : Places, life : 0..CacheLife]
  OBVIOUS
<1>3. lookup \in [Lookups -> [at : Stages, country : Places, lag : 0..Horizon]]
  OBVIOUS
<1>4. fill \in [Lookups -> [country : Places, age : -1..Delay]]
  OBVIOUS
<1>5. HomeIsNow /\ FillIsFresh /\ EntryAges /\ CountryIsRecent
  BY <1>1 DEF HomeIsNow, FillIsFresh, EntryAges, CountryIsRecent
<1> QED
  BY <1>1, <1>2, <1>3, <1>4, <1>5 DEF GeoInv, GeoTypeOK

(* Steps that only move a lookup on. *)
LEMMA LookupGoesOn ==
  ASSUME GeoInv, NEW l \in Lookups, UNCHANGED <<home, since, entry>>,
         NEW to \in Stages, to # "resolved",
         lookup' = [lookup EXCEPT ![l].at = to],
         UNCHANGED fill
  PROVE  GeoInv'
  BY DEF GeoInv, GeoTypeOK, HomeIsNow, FillIsFresh, EntryAges, CountryIsRecent, Places, Stages

(* BeginLookup. *)
LEMMA BeginPreserves == ASSUME GeoInv, NEW l \in Lookups, NEW public \in BOOLEAN,
                               BeginLookup(l, public)
                        PROVE  GeoInv'
  BY LookupGoesOn DEF BeginLookup, Goes, Stages

(* Used. *)
LEMMA UsedPreserves == ASSUME GeoInv, NEW l \in Lookups, Used(l) PROVE GeoInv'
  BY GeoAssumption
  DEF Used, Over, Idle, GeoInv, GeoTypeOK, HomeIsNow, FillIsFresh, EntryAges, CountryIsRecent,
      Places, Stages

(* A hit is at least a tick younger than Horizon, because its entry has a   *)
(* tick to live.                                                           *)
LEMMA HitPreserves == ASSUME GeoInv, NEW l \in Lookups, Hit(l) PROVE GeoInv'
<1>1. entry.country \in Countries /\ since[entry.country] < Horizon
      /\ since[entry.country] \in 0..Horizon
  BY GeoAssumption DEF Hit, GeoInv, GeoTypeOK, EntryAges
<1>2. lookup' = [lookup EXCEPT ![l] =
        [at |-> "resolved", country |-> entry.country, lag |-> since[entry.country]]]
  BY <1>1 DEF Hit, Answers
<1>3. GeoTypeOK' /\ CountryIsRecent'
  BY <1>1, <1>2, GeoAssumption DEF Hit, GeoInv, GeoTypeOK, CountryIsRecent, Places, Stages
<1> QED
  BY <1>3 DEF Hit, GeoInv, HomeIsNow, FillIsFresh, EntryAges

(* An answer of the service is of now, and so is the fill it starts. *)
LEMMA FetchPreserves == ASSUME GeoInv, NEW l \in Lookups, Fetch(l) PROVE GeoInv'
<1>1. home \in Countries /\ since[home] = 0
  BY DEF GeoInv, GeoTypeOK, HomeIsNow
<1>2. lookup' = [lookup EXCEPT ![l] = [at |-> "resolved", country |-> home, lag |-> 0]]
  BY <1>1 DEF Fetch, Answers
<1>3. GeoTypeOK' /\ CountryIsRecent'
  BY <1>1, <1>2, GeoAssumption DEF Fetch, GeoInv, GeoTypeOK, CountryIsRecent, Places, Stages
<1>4. FillIsFresh'
  BY <1>1, GeoAssumption DEF Fetch, GeoInv, GeoTypeOK, FillIsFresh
<1> QED
  BY <1>3, <1>4 DEF Fetch, GeoInv, HomeIsNow, EntryAges

(* Redis gets an entry that is as old as its fill, which is at most Delay. *)
LEMMA StorePreserves == ASSUME GeoInv, NEW l \in Lookups, StoreFill(l) PROVE GeoInv'
<1>1. fill[l].country \in Countries /\ since[fill[l].country] <= Delay
  BY GeoAssumption DEF StoreFill, GeoInv, GeoTypeOK, FillIsFresh
<1>2. entry' = [country |-> fill[l].country, life |-> CacheLife]
  BY DEF StoreFill
<1>3. GeoTypeOK'
  BY <1>1, <1>2, GeoAssumption DEF StoreFill, GeoInv, GeoTypeOK, NoFill, Places, Stages
<1>4. EntryAges'
  BY <1>1, <1>2, GeoAssumption DEF StoreFill, GeoInv, GeoTypeOK, EntryAges
<1>5. FillIsFresh'
  BY GeoAssumption DEF StoreFill, GeoInv, GeoTypeOK, FillIsFresh, NoFill
<1> QED
  BY <1>3, <1>4, <1>5 DEF StoreFill, GeoInv, HomeIsNow, CountryIsRecent

(* LoseFill. *)
LEMMA LosePreserves == ASSUME GeoInv, NEW l \in Lookups, LoseFill(l) PROVE GeoInv'
  BY GeoAssumption
  DEF LoseFill, NoFill, GeoInv, GeoTypeOK, HomeIsNow, FillIsFresh, EntryAges, CountryIsRecent,
      Places, Stages

(* Where the address arrives it has been just now: nothing gets older. *)
LEMMA MovePreserves == ASSUME GeoInv, NEW c \in Countries, Move(c) PROVE GeoInv'
<1>1. since' = [since EXCEPT ![c] = 0] /\ since \in [Countries -> 0..Horizon]
  BY DEF Move, GeoInv, GeoTypeOK
<1>2. \A d \in Countries : since'[d] <= since[d] /\ since'[d] \in 0..Horizon
  BY <1>1, GeoAssumption
<1>3. GeoTypeOK' /\ HomeIsNow'
  BY <1>1, <1>2, GeoAssumption DEF Move, GeoInv, GeoTypeOK, HomeIsNow
<1>4. FillIsFresh'
  <2> SUFFICES ASSUME NEW l \in Lookups, fill[l].age >= 0
               PROVE  fill[l].country \in Countries /\ since'[fill[l].country] <= fill[l].age
    BY DEF Move, FillIsFresh
  <2> QED
    BY <1>1, <1>2, GeoAssumption DEF GeoInv, GeoTypeOK, FillIsFresh
<1>5. EntryAges'
  BY <1>1, <1>2, GeoAssumption DEF Move, GeoInv, GeoTypeOK, EntryAges
<1> QED
  BY <1>3, <1>4, <1>5 DEF Move, GeoInv, CountryIsRecent

(* With a tick an entry loses as much life as its content gains age. *)
LEMMA TickPreserves == ASSUME GeoInv, GeoTick PROVE GeoInv'
<1>1. since' = [c \in Countries |->
        IF c = home \/ since[c] = Horizon THEN since[c] ELSE since[c] + 1]
      /\ since \in [Countries -> 0..Horizon] /\ UNCHANGED <<home, lookup>>
  BY DEF GeoTick, GeoInv, GeoTypeOK
<1>2. since' \in [Countries -> 0..Horizon]
      /\ \A c \in Countries : since'[c] <= since[c] + 1
  BY <1>1, GeoAssumption
<1>3. GeoTypeOK'
  BY <1>1, <1>2, GeoAssumption DEF GeoTick, GeoInv, GeoTypeOK, NoEntry, NoFill, Places, Stages
<1>4. HomeIsNow'
  BY <1>1 DEF GeoInv, GeoTypeOK, HomeIsNow
<1>5. FillIsFresh'
  <2> SUFFICES ASSUME NEW l \in Lookups, fill'[l].age >= 0
               PROVE  fill'[l].country \in Countries
                      /\ since'[fill'[l].country] <= fill'[l].age
    BY DEF FillIsFresh
  <2>1. fill[l].age >= 0 /\ fill'[l].country = fill[l].country
        /\ fill'[l].age = fill[l].age + 1 /\ fill[l].age \in -1..Delay
    BY GeoAssumption DEF GeoTick, GeoInv, GeoTypeOK, NoFill
  <2>2. fill[l].country \in Countries /\ since[fill[l].country] <= fill[l].age
    BY <2>1 DEF GeoInv, FillIsFresh
  <2> QED
    BY <1>1, <1>2, <2>1, <2>2, GeoAssumption
<1>6. EntryAges'
  <2> SUFFICES ASSUME entry'.life > 0
               PROVE  entry'.country \in Countries
                      /\ since'[entry'.country] + entry'.life <= Horizon
    BY DEF EntryAges
  <2>1. entry.life > 1 /\ entry'.country = entry.country /\ entry'.life = entry.life - 1
        /\ entry.life \in Nat
    BY GeoAssumption DEF GeoTick, GeoInv, GeoTypeOK, NoEntry
  <2>2. entry.country \in Countries /\ since[entry.country] + entry.life <= Horizon
    BY <2>1 DEF GeoInv, EntryAges
  <2> QED
    BY <1>1, <1>2, <2>1, <2>2, GeoAssumption
<1> QED
  BY <1>1, <1>3, <1>4, <1>5, <1>6 DEF GeoInv, CountryIsRecent

-----------------------------------------------------------------------------
(* What a breakdown or an insert does is nothing to the lookups. *)
LEMMA NextPreserves == GeoInv /\ [Next]_vars => GeoInv'
<1> SUFFICES ASSUME GeoInv, [Next]_vars PROVE GeoInv'
  OBVIOUS
<1>u. ASSUME UNCHANGED geo PROVE GeoInv'
  BY <1>u DEF geo, GeoInv, GeoTypeOK, HomeIsNow, FillIsFresh, EntryAges, CountryIsRecent
<1>1. ASSUME NEW l \in Lookups, NEW public \in BOOLEAN, Ingest(l, public) PROVE GeoInv'
  BY <1>1, BeginPreserves DEF Ingest
<1>2. ASSUME NEW l \in Lookups, NEW agent \in Agents, NEW late \in Lateness,
             SaveClick(l, agent, now - late)
      PROVE  GeoInv'
  BY <1>2, UsedPreserves DEF SaveClick
<1>3. ASSUME NEW l \in Lookups, SaveFails(l) PROVE GeoInv'
  BY <1>3, UsedPreserves DEF SaveFails
<1>4. CASE GeoNext
  <2>1. ASSUME NEW l \in Lookups, Miss(l) PROVE GeoInv'
    BY <2>1, LookupGoesOn DEF Miss, Goes, Stages
  <2>2. ASSUME NEW l \in Lookups, FetchFails(l) PROVE GeoInv'
    BY <2>2, LookupGoesOn DEF FetchFails, Goes, Stages
  <2> QED
    BY <1>4, <2>1, <2>2, HitPreserves, FetchPreserves, StorePreserves, LosePreserves,
       MovePreserves DEF GeoNext
<1>5. CASE Tick
  BY <1>5, TickPreserves DEF Tick
<1>6. ASSUME NEW s \in Starts \cup {Nil}, NEW e \in Ends \cup {Nil}, NEW n \in Limits,
             GetBreakdown(s, e, n)
      PROVE  GeoInv'
  BY <1>6, <1>u DEF GetBreakdown
<1>7. CASE ReadDimension \/ QueryFails
  BY <1>7, <1>u DEF ReadDimension, QueryFails
<1>8. CASE UNCHANGED vars
  BY <1>8, <1>u DEF vars
<1> QED
  BY <1>1, <1>2, <1>3, <1>4, <1>5, <1>6, <1>7, <1>8 DEF Next

(* A country that Lookup answers is never older than the life of an entry   *)
(* and the delay of the fill that stored it.                               *)
THEOREM CountriesRecent == Spec => []CountryIsRecent
<1>1. GeoInv => CountryIsRecent
  BY DEF GeoInv
<1> QED
  BY InitGeo, NextPreserves, <1>1, PTL DEF Spec

-----------------------------------------------------------------------------
(* Sets of numbers and of clicks. *)

LEMMA LargestNatural ==
  ASSUME NEW T \in SUBSET Nat, T # {}, NEW bound \in Nat, \A k \in T : k <= bound
  PROVE  \E m \in T : \A k \in T : k <= m
<1> DEFINE Rest == {bound - k : k \in T}
<1>1. IsWellFoundedOn(OpToRel(<, Nat), Nat)
  BY NatLessThanWellFounded
<1>2. Rest \in SUBSET Nat /\ Rest # {}
  <2>1. \A k \in T : bound - k \in Nat
    OBVIOUS
  <2> QED
    BY <2>1
<1>3. PICK m \in Rest : \A k \in Rest : ~(<<k, m>> \in OpToRel(<, Nat))
  BY <1>1, <1>2, WFMin
<1>4. \A k \in Rest : ~(k < m)
  BY <1>2, <1>3 DEF OpToRel
<1>5. PICK n \in T : m = bound - n
  BY <1>3
<1>6. \A k \in T : k \in Nat /\ n \in Nat /\ ~(bound - k < bound - n)
  BY <1>4, <1>5
<1>7. \A k \in T : k <= n
  BY <1>6
<1> QED
  BY <1>7

(* A finite set has a subset of every size up to its own. *)
LEMMA SubsetOfSize ==
  ASSUME NEW S, IsFiniteSet(S), NEW n \in 0..Cardinality(S)
  PROVE  kSubset(n, S) # {}
<1>1. Cardinality(S) \in Nat /\ ExistsBijection(1..Cardinality(S), S)
  BY FS_CardinalityType
<1>2. PICK f : f \in Bijection(1..Cardinality(S), S)
  BY <1>1 DEF ExistsBijection
<1> DEFINE T == {f[i] : i \in 1..n}
           g == [i \in 1..n |-> f[i]]
<1>3. n \in Nat /\ 1..n \subseteq 1..Cardinality(S)
  BY <1>1
<1>4. T \in SUBSET S
  BY <1>2, <1>3 DEF Bijection, Injection
<1>5. g \in Bijection(1..n, T)
  BY <1>2, <1>3 DEF Bijection, Injection, Surjection, IsInjective
<1>6. ExistsBijection(1..n, T)
  BY <1>5 DEF ExistsBijection
<1>7. Cardinality(T) = n
  BY <1>3, <1>6, FS_CountingElements
<1> QED
  BY <1>4, <1>7 DEF kSubset

-----------------------------------------------------------------------------
(* One query of a breakdown. *)

LEMMA FiniteLabels ==
  ASSUME NEW dimension, IsFiniteSet(rows)
  PROVE  /\ IsFiniteSet(Matching) /\ Cardinality(Matching) \in Nat
         /\ IsFiniteSet(Labels(dimension)) /\ Cardinality(Labels(dimension)) \in Nat
<1>1. Matching \in SUBSET rows
  BY DEF Matching
<1>2. IsFiniteSet(Matching)
  BY <1>1, FS_Subset
<1> DEFINE f == [r \in Matching |-> Label(r, dimension)]
<1>3. f \in Surjection(Matching, Labels(dimension))
  BY DEF Surjection, Labels
<1>4. IsFiniteSet(Labels(dimension))
  BY <1>2, <1>3, FS_Surjection
<1> QED
  BY <1>2, <1>4, FS_CardinalityType

(* Some labels count no more clicks than match, all labels count them all. *)
LEMMA CountedClicks ==
  ASSUME NEW dimension, NEW labels, IsFiniteSet(rows)
  PROVE  /\ CountBy(dimension, labels) \in Nat
         /\ CountBy(dimension, labels) <= Cardinality(Matching)
         /\ labels = Labels(dimension) => CountBy(dimension, labels) = Cardinality(Matching)
<1> DEFINE S == {r \in Matching : Label(r, dimension) \in labels}
<1>1. IsFiniteSet(Matching) /\ S \in SUBSET Matching
  BY FiniteLabels
<1>2. IsFiniteSet(S) /\ Cardinality(S) \in Nat /\ Cardinality(S) <= Cardinality(Matching)
  BY <1>1, FS_Subset, FS_CardinalityType
<1>3. labels = Labels(dimension) => S = Matching
  BY DEF Labels
<1> QED
  BY <1>2, <1>3 DEF CountBy

(* The largest entries of a dimension together count at most the matching *)
(* rows, and all entries count them all.                                  *)
LEMMA ListedClicks ==
  ASSUME NEW dimension, IsFiniteSet(rows), NEW n \in 0..Cardinality(Labels(dimension))
  PROVE  /\ Largest(dimension, n) \in Nat
         /\ Largest(dimension, n) <= Cardinality(Matching)
         /\ n = Cardinality(Labels(dimension)) => Largest(dimension, n) = Cardinality(Matching)
<1> DEFINE Tops == kSubset(n, Labels(dimension))
           Counts == {CountBy(dimension, S) : S \in Tops}
<1>1. Tops # {} /\ IsFiniteSet(Labels(dimension)) /\ Cardinality(Matching) \in Nat
  BY FiniteLabels, SubsetOfSize
<1>2. Counts \in SUBSET Nat /\ Counts # {} /\ \A k \in Counts : k <= Cardinality(Matching)
  BY <1>1, CountedClicks
<1>3. \E m \in Counts : \A k \in Counts : k <= m
  BY <1>1, <1>2, LargestNatural
<1>4. Largest(dimension, n) \in Counts
  BY <1>3 DEF Largest
<1>5. ASSUME n = Cardinality(Labels(dimension))
      PROVE  \A S \in Tops : S = Labels(dimension)
  BY <1>1, <1>5, FS_Subset DEF kSubset
<1>6. n = Cardinality(Labels(dimension)) => \A k \in Counts : k = Cardinality(Matching)
  BY <1>5, CountedClicks
<1> QED
  BY <1>2, <1>4, <1>6

-----------------------------------------------------------------------------
(* The inductive invariant: what has been listed was there, and still is. *)

List == [clicks : Nat, full : BOOLEAN]

Breakdown ==
  [at : {"reading", "answered"}, start : Int, end : Int, items : Nat, lists : Seq(List)]

AskTypeOK ==
  /\ now \in Nat
  /\ IsFiniteSet(rows)
  /\ ask \in Breakdown \cup [at : {"idle", "failed"}]

ListedWasThere ==
  ask.at \in {"reading", "answered"} =>
    \A i \in DOMAIN ask.lists : ask.lists[i].clicks <= Cardinality(Matching)

AskInv == AskTypeOK /\ ListedWasThere /\ DimensionsOnlyGrow

(* The invariant of a breakdown holds initially. *)
LEMMA InitAsk == Init => AskInv
BY FS_EmptySet DEF Init, AskInv, AskTypeOK, ListedWasThere, DimensionsOnlyGrow

(* Clicks are only added, and the filter of a breakdown stays as it is. *)
LEMMA MoreClicks ==
  ASSUME AskInv, IsFiniteSet(rows'), rows \subseteq rows', ask' = ask, now' \in Nat
  PROVE  AskInv'
<1>1. Matching \in SUBSET Matching'
  BY DEF Matching
<1>2. IsFiniteSet(Matching')
  <2>1. Matching' \in SUBSET rows'
    BY DEF Matching
  <2> QED
    BY <2>1, FS_Subset
<1>3. /\ Cardinality(Matching) \in Nat /\ Cardinality(Matching') \in Nat
      /\ Cardinality(Matching) <= Cardinality(Matching')
  BY <1>1, <1>2, FS_Subset, FS_CardinalityType
<1>4. ASSUME ask.at \in {"reading", "answered"}
      PROVE  \A i \in DOMAIN ask.lists : ask.lists[i].clicks \in Nat
  <2>1. ask.lists \in Seq(List)
    BY <1>4 DEF AskInv, AskTypeOK, Breakdown
  <2>2. \A i \in DOMAIN ask.lists : ask.lists[i] \in List
    BY <2>1
  <2> QED
    BY <2>2 DEF List
<1>5. ListedWasThere'
  BY <1>3, <1>4 DEF AskInv, ListedWasThere
<1> QED
  BY <1>5 DEF AskInv, AskTypeOK, DimensionsOnlyGrow

(* Each of the queries of a breakdown keeps its invariant. *)
LEMMA AskPreserved ==
  ASSUME AskInv, NEW s \in Starts \cup {Nil}, NEW e \in Ends \cup {Nil}, NEW n \in Limits,
         GetBreakdown(s, e, n)
  PROVE  AskInv'
<1>1. End(e) \in Int /\ Start(s, e) \in Int /\ Items(n) \in Nat
  BY AnalyticsAssumption DEF End, Start, Items, AskInv, AskTypeOK
<1>2. ask' \in Breakdown /\ ask'.lists = <<>>
  BY <1>1 DEF GetBreakdown, Breakdown
<1>3. AskTypeOK'
  BY <1>2 DEF GetBreakdown, AskInv, AskTypeOK
<1> QED
  BY <1>2, <1>3 DEF AskInv, ListedWasThere, DimensionsOnlyGrow

(* The list that a query adds counts all clicks when it is full. *)
LEMMA ReadPreserves == ASSUME AskInv, ReadDimension PROVE AskInv'
<1> DEFINE dimension == Dimensions[Len(ask.lists) + 1]
           all == Cardinality(Labels(dimension))
           listed == IF all < ask.items THEN all ELSE ask.items
           last == Len(ask.lists) + 1
           list == [clicks |-> Largest(dimension, listed), full |-> all = listed]
<1>1. ask \in Breakdown /\ ask.lists \in Seq(List) /\ ask.items \in Nat /\ IsFiniteSet(rows)
  BY DEF ReadDimension, AskInv, AskTypeOK, Breakdown
<1>2. all \in Nat /\ listed \in 0..all /\ Cardinality(Matching) \in Nat
  BY <1>1, FiniteLabels
<1>3. /\ Largest(dimension, listed) \in Nat
      /\ Largest(dimension, listed) <= Cardinality(Matching)
      /\ all = listed => Largest(dimension, listed) = Cardinality(Matching)
  BY <1>1, <1>2, ListedClicks
<1>4. /\ list \in List /\ list.clicks <= Cardinality(Matching)
      /\ list.full => list.clicks = Cardinality(Matching)
  BY <1>3 DEF List
<1>5. /\ ask'.lists = Append(ask.lists, list)
      /\ ask' \in Breakdown
      /\ ask'.start = ask.start /\ ask'.end = ask.end
      /\ UNCHANGED <<rows, now>>
  <2>1. ask' = [ask EXCEPT
          !.lists = Append(ask.lists, list),
          !.at = IF last = Len(Dimensions) THEN "answered" ELSE ask.at]
        /\ UNCHANGED <<rows, now>>
    BY DEF ReadDimension
  <2>2. Append(ask.lists, list) \in Seq(List)
    BY <1>1, <1>4
  <2> HIDE DEF last, list
  <2> QED
    BY <1>1, <2>1, <2>2 DEF Breakdown
<1> HIDE DEF list
<1>6. /\ DOMAIN ask'.lists = 1..last /\ last \in Nat \ {0} /\ ask'.lists[last] = list
      /\ \A i \in 1..last : i # last => i \in DOMAIN ask.lists /\ ask'.lists[i] = ask.lists[i]
      /\ \A i \in DOMAIN ask.lists : ask.lists[i] \in List
  BY <1>1, <1>4, <1>5
<1>7. \A i \in DOMAIN ask.lists : ask.lists[i].clicks <= Cardinality(Matching)
  BY DEF ReadDimension, AskInv, ListedWasThere
<1>8. Matching' = Matching
  BY <1>5 DEF Matching
<1> HIDE DEF last
<1>9. ListedWasThere'
  BY <1>4, <1>6, <1>7, <1>8 DEF ListedWasThere
<1>10. DimensionsOnlyGrow'
  <2> SUFFICES ASSUME NEW i \in 1..last, NEW j \in 1..last, i < j, ask'.lists[j].full
               PROVE  ask'.lists[i].clicks <= ask'.lists[j].clicks
    BY <1>6 DEF DimensionsOnlyGrow
  <2>1. i # last /\ i \in DOMAIN ask.lists /\ ask'.lists[i] = ask.lists[i]
    BY <1>6
  <2>2. CASE j = last
    BY <1>4, <1>6, <1>7, <2>1, <2>2
  <2>3. CASE j # last
    BY <1>6, <2>1, <2>3 DEF ReadDimension, AskInv, DimensionsOnlyGrow
  <2> QED
    BY <2>2, <2>3
<1> QED
  BY <1>1, <1>5, <1>9, <1>10 DEF AskInv, AskTypeOK

(* Every step keeps the invariant of a breakdown: rows only come in. *)
LEMMA AskStep == AskInv /\ [Next]_vars => AskInv'
<1> SUFFICES ASSUME AskInv, [Next]_vars PROVE AskInv'
  OBVIOUS
<1>1. now \in Nat /\ IsFiniteSet(rows)
  BY DEF AskInv, AskTypeOK
<1>2. ASSUME UNCHANGED <<now, rows, ask>> PROVE AskInv'
  BY <1>1, <1>2, MoreClicks
<1>3. ASSUME NEW l \in Lookups, NEW agent \in Agents, NEW late \in Lateness,
             SaveClick(l, agent, now - late)
      PROVE  AskInv'
  BY <1>1, <1>3, MoreClicks, FS_AddElement DEF SaveClick
<1>4. CASE Tick
  BY <1>1, <1>4, MoreClicks DEF Tick
<1>5. CASE QueryFails
  BY <1>1, <1>5 DEF QueryFails, AskInv, AskTypeOK, ListedWasThere, DimensionsOnlyGrow
<1> QED
  BY <1>2, <1>3, <1>4, <1>5, AskPreserved, ReadPreserves DEF Next, vars, Ingest, SaveFails

(* A dimension listed in full counts every click that one before it did,    *)
(* for any number of clicks, labels and dates, and any limit that the owner *)
(* asks for.                                                               *)
THEOREM DimensionsGrow == Spec => []DimensionsOnlyGrow
<1>1. AskInv => DimensionsOnlyGrow
  BY DEF AskInv
<1> QED
  BY InitAsk, AskStep, <1>1, PTL DEF Spec
=============================================================================
