-------------------------- MODULE HierarchySetupProofs --------------------------
(***************************************************************************)
(* The caches and levels that set-up builds are linked as the code means   *)
(* them to be, for every number of processors and levels, every plan and   *)
(* every order in which the tests make their calls.                        *)
(***************************************************************************)
EXTENDS Programs, TLAPS, FiniteSetTheorems, SequenceTheorems, WellFoundedInduction

\* Levels are added in the order they are allocated, and at most one is not added yet.
InOrder ==
  /\ \A k \in DOMAIN hierarchy : hierarchy[k] = k
  /\ Len(level) - Len(hierarchy) \in {0, 1}

\* A level has as many instruction caches as data caches or none; one that was added is
\* not empty.
Paired ==
  \A l \in DOMAIN level :
    /\ level[l].hasInstr => Len(level[l].instr) = Len(level[l].data)
    /\ ~level[l].hasInstr => level[l].instr = <<>>
    /\ l \in Added => level[l].data # <<>>

\* A cache has one place in one level.
Apart ==
  /\ \A l \in DOMAIN level :
       /\ \A i, j \in DOMAIN level[l].data : level[l].data[i] = level[l].data[j] => i = j
       /\ \A i, j \in DOMAIN level[l].instr : level[l].instr[i] = level[l].instr[j] => i = j
       /\ Members(level[l].data) \cap Members(level[l].instr) = {}
  /\ \A l, m \in DOMAIN level : l # m => CachesOf(l) \cap CachesOf(m) = {}

\* The caches of a level that is not added ask no cache.
Loose == \A l \in Open : \A c \in CachesOf(l) : cache[c].higher = NULL

\* A cache is on no bus or on that of a level.
OnBus == \A c \in CacheIds : cache[c].bus \in {Garbage} \cup DOMAIN level

\* Only caches that setup_cachestate returned are in a level or asked by another, and they
\* are whole.
Whole ==
  /\ Placed \subseteq given
  /\ \A c \in given : cache[c].assoc # Garbage
  /\ \A c \in CacheIds : cache[c].higher \in {NULL} \cup given

\* The lower caches of a cache were set up, if not returned.
LowerKnown == \A c \in CacheIds : cache[c].lower \subseteq CacheIds

SetupIInv ==
  /\ SetupTypes /\ LinksAgree /\ BusJoinsLevel /\ LevelsServed
  /\ InOrder /\ Paired /\ Apart /\ Loose /\ OnBus /\ Whole /\ LowerKnown

\* A test follows no plan. What a simulator adds are levels of one cache or one for every
\* processor, and its caches have whole sets.
PlanFollowed ==
  /\ plan \in Seq(PlannedLevel)
  /\ program = "tests" => plan = <<>>
  /\ plan # <<>> => /\ \A l \in Added : Len(level[l].data) \in {1, AmountCpus}
                    /\ \A c \in CacheIds : cache[c].assoc \in 1 .. cache[c].lines

--------------------------------------------------------------------------------
(* Sequences, arrays and finite sets. *)

LEMMA FunctionIsSeq ==
  ASSUME NEW S, NEW n \in Nat, NEW f \in [1 .. n -> S]
  PROVE  f \in Seq(S) /\ Len(f) = n /\ DOMAIN f = 1 .. n
OBVIOUS

\* An array has room for what was added to it.
LEMMA RoomFits ==
  ASSUME NEW room \in Int, NEW n \in Nat
  PROVE  /\ Room(room, n) \in Int /\ n <= Room(room, n)
         /\ room \in Nat => Room(room, n) \in Nat
<1>1. CASE n <= room
  BY <1>1 DEF Room
<1>2. CASE ~(n <= room)
  <2> DEFINE x == n - room
  <2>1. x \in Nat /\ n = room + x
    BY <1>2
  <2>2. \A y \in Nat : Chunk * ((y + Chunk - 1) \div Chunk) \in Nat
                       /\ y <= Chunk * ((y + Chunk - 1) \div Chunk)
    BY SetupAssumption
  <2>3. Room(room, n) = room + Chunk * ((x + Chunk - 1) \div Chunk)
    BY <1>2 DEF Room
  <2> HIDE DEF x
  <2>. QED
    BY <2>1, <2>2, <2>3
<1>. QED
  BY <1>1, <1>2

\* The lower caches of a cache are finitely many.
LEMMA LowerFinite ==
  ASSUME SetupTypes, LowerKnown, NEW c \in CacheIds
  PROVE  IsFiniteSet(cache[c].lower) /\ Cardinality(cache[c].lower) \in Nat
<1>1. CacheIds = 1 .. Len(cache) /\ Len(cache) \in Nat
  BY DEF SetupTypes, CacheIds
<1>2. IsFiniteSet(CacheIds)
  BY <1>1, FS_Interval
<1>. QED
  BY <1>2, FS_Subset, FS_CardinalityType DEF LowerKnown

\* add_lower_level_cache keeps a cache in its type and its array of lower caches large enough.
LEMMA WithLowerType ==
  ASSUME NEW h \in CacheState, NEW low \in SUBSET Nat,
         IsFiniteSet(h.lower), IsFiniteSet(low), Cardinality(h.lower) <= h.room
  PROVE  /\ WithLower(h, low) \in CacheState
         /\ WithLower(h, low).lower = h.lower \cup low
         /\ Cardinality(WithLower(h, low).lower) <= WithLower(h, low).room
         /\ WithLower(h, low).higher = h.higher /\ WithLower(h, low).bus = h.bus
         /\ WithLower(h, low).assoc = h.assoc
         /\ WithLower(h, low).lines = h.lines
<1> DEFINE n == Cardinality(h.lower) + Cardinality(low)
<1>1. n \in Nat /\ Cardinality(h.lower \cup low) <= n
  <2>1. Cardinality(h.lower) \in Nat /\ Cardinality(low) \in Nat
    BY FS_CardinalityType
  <2>2. Cardinality(h.lower \cup low) =
          Cardinality(h.lower) + Cardinality(low) - Cardinality(h.lower \cap low)
    BY FS_Union
  <2>3. Cardinality(h.lower \cap low) \in Nat
    BY FS_Subset, FS_CardinalityType
  <2>. QED
    BY <2>1, <2>2, <2>3
<1>2. h.room \in Nat /\ h.lower \in SUBSET Nat
  BY DEF CacheState
<1> HIDE DEF n
<1>3. Room(h.room, n) \in Nat /\ n <= Room(h.room, n)
  <2>1. h.room \in Int /\ h.room \in Nat /\ n \in Nat
    BY <1>1, <1>2
  <2>. QED
    BY <2>1, RoomFits
<1>4. Cardinality(h.lower \cup low) <= Room(h.room, n)
  <2>1. Cardinality(h.lower \cup low) \in Nat
    BY FS_Union, FS_CardinalityType
  <2>. QED
    BY <1>1, <1>3, <2>1
<1>5. WithLower(h, low) = [h EXCEPT !.lower = h.lower \cup low, !.room = Room(h.room, n)]
  BY DEF WithLower, CacheState, n
<1>. QED
  BY <1>2, <1>3, <1>4, <1>5 DEF CacheState

--------------------------------------------------------------------------------
(* setup_cachestate. *)

\* The next cache.
NewId == Len(cache) + 1

\* What a new cache changes: it is in no level and linked to the cache above it only.
LEMMA NewCache ==
  ASSUME SetupIInv, NEW high \in {NULL} \cup given, NEW g \in AnyGeometry,
         SetupCacheState(high, g), Fits(high, g)
  PROVE  /\ cache' \in Seq(CacheState) /\ cache'[NewId] = Made(high, g)
         /\ CacheIds' = CacheIds \cup {NewId} /\ NewId \notin CacheIds /\ NewId \in Nat \ {0}
         /\ \A c \in CacheIds : /\ cache'[c].higher = cache[c].higher
                                /\ cache'[c].bus = cache[c].bus
                                /\ cache'[c].assoc = cache[c].assoc
                                /\ cache'[c].lines = cache[c].lines
         /\ \A c \in CacheIds : c # high => cache'[c].lower = cache[c].lower
         /\ high \in CacheIds => cache'[high].lower = cache[high].lower \cup {NewId}
         /\ \A c \in CacheIds : Cardinality(cache'[c].lower) <= cache'[c].room
<1> DEFINE F == [c \in CacheIds |-> IF c = high THEN WithLower(cache[c], {NewId}) ELSE cache[c]]
<1>1. /\ cache \in Seq(CacheState) /\ CacheIds = 1 .. Len(cache) /\ Len(cache) \in Nat
      /\ \A c \in CacheIds : cache[c] \in CacheState
      /\ NewId \in Nat \ {0} /\ NewId = Len(cache) + 1
  BY DEF SetupIInv, SetupTypes, CacheIds, NewId
<1>2. ASSUME NEW c \in CacheIds
      PROVE  /\ F[c] \in CacheState
             /\ F[c].higher = cache[c].higher /\ F[c].bus = cache[c].bus
             /\ F[c].assoc = cache[c].assoc
             /\ F[c].lines = cache[c].lines
             /\ F[c].lower = IF c = high THEN cache[c].lower \cup {NewId} ELSE cache[c].lower
             /\ Cardinality(F[c].lower) <= F[c].room
  <2>1. cache[c] \in CacheState /\ {NewId} \in SUBSET Nat
    BY <1>1
  <2>2. Cardinality(cache[c].lower) <= cache[c].room
    BY DEF SetupIInv, LinksAgree
  <2>3. IsFiniteSet(cache[c].lower) /\ IsFiniteSet({NewId})
    BY LowerFinite, FS_Singleton DEF SetupIInv
  <2>4. CASE c = high
    <3>1. F[c] = WithLower(cache[c], {NewId})
      BY <2>4
    <3>. QED
      BY <2>1, <2>2, <2>3, <2>4, <3>1, WithLowerType
  <2>5. CASE c # high
    BY <2>1, <2>2, <2>5
  <2>. QED
    BY <2>4, <2>5
<1>3. F \in Seq(CacheState) /\ Len(F) = Len(cache)
  <2>1. F \in [1 .. Len(cache) -> CacheState]
    BY <1>1, <1>2
  <2> HIDE DEF F
  <2>. QED
    BY <1>1, <2>1, FunctionIsSeq
<1>4. cache' = Append(F, Made(high, g))
  BY DEF SetupCacheState, NewId
<1>5. Made(high, g) \in CacheState
  <2>1. high \in Nat
    <3>1. given \subseteq CacheIds
      BY DEF SetupIInv, SetupTypes
    <3>. QED
      BY <1>1, <3>1 DEF NULL
  <2>2. g.size \div g.line \in Nat /\ g.line \in Nat /\ g.assoc \in Int
    BY DEF AnyGeometry
  <2>3. Garbage \in Int
    BY DEF Garbage
  <2>. QED
    BY <2>1, <2>2, <2>3 DEF Made, CacheState
<1> HIDE DEF F
<1>6. /\ cache' \in Seq(CacheState) /\ Len(cache') = NewId
      /\ \A c \in 1 .. Len(cache) : cache'[c] = F[c]
      /\ cache'[NewId] = Made(high, g)
  BY <1>1, <1>3, <1>4, <1>5, AppendProperties
<1>7. CacheIds' = CacheIds \cup {NewId} /\ NewId \notin CacheIds
  BY <1>1, <1>6 DEF CacheIds
<1>8. \A c \in CacheIds : cache'[c] = F[c]
  BY <1>1, <1>6
<1>9. ASSUME NEW c \in CacheIds
      PROVE  /\ cache'[c].higher = cache[c].higher /\ cache'[c].bus = cache[c].bus
             /\ cache'[c].assoc = cache[c].assoc
             /\ cache'[c].lines = cache[c].lines
             /\ cache'[c].lower = IF c = high THEN cache[c].lower \cup {NewId}
                                  ELSE cache[c].lower
             /\ Cardinality(cache'[c].lower) <= cache'[c].room
  <2>1. cache'[c] = F[c]
    BY <1>8
  <2>. QED
    BY <1>2, <2>1
<1>10. \A c \in CacheIds : c # high => cache'[c].lower = cache[c].lower
  BY <1>9
<1>11. high \in CacheIds => cache'[high].lower = cache[high].lower \cup {NewId}
  BY <1>9
<1>. QED
  BY <1>1, <1>6, <1>7, <1>9, <1>10, <1>11

\* Calls that leave the levels alone.
LEMMA SameLevels ==
  ASSUME level' = level, hierarchy' = hierarchy
  PROVE  /\ Open' = Open /\ Placed' = Placed /\ Added' = Added
         /\ \A l : CachesOf(l)' = CachesOf(l)
         /\ InOrder => InOrder'
         /\ Paired => Paired'
         /\ Apart => Apart'
<1>1. Open' = Open /\ Placed' = Placed /\ Added' = Added /\ \A l : CachesOf(l)' = CachesOf(l)
  BY DEF CachesOf, Members, Open, Added, Placed
<1>2. InOrder => InOrder'
  BY DEF InOrder
<1>3. Paired => Paired'
  BY <1>1 DEF Paired
<1>4. Apart => Apart'
  BY <1>1 DEF Apart
<1>. QED
  BY <1>1, <1>2, <1>3, <1>4

\* Calls that leave the levels that were added alone, and the links of the caches in them.
LEMMA ServedKept ==
  ASSUME SetupTypes, LevelsServed, hierarchy' = hierarchy,
         \A l \in Added : level'[l] = level[l],
         \A c \in Placed : /\ cache'[c].higher = cache[c].higher
                            /\ cache[c].lower \subseteq cache'[c].lower
  PROVE  LevelsServed'
<1> SUFFICES ASSUME NEW k \in DOMAIN hierarchy'
             PROVE  LevelServed(k)'
  BY DEF LevelsServed
<1>1. LevelServed(k) /\ Len(hierarchy') = Len(hierarchy) /\ k \in DOMAIN hierarchy
  BY DEF LevelsServed
<1>2. /\ hierarchy \in Seq(DOMAIN level) /\ level \in Seq(CacheLevel)
      /\ \A j \in DOMAIN hierarchy : hierarchy[j] \in Added /\ hierarchy[j] \in DOMAIN level
  BY DEF SetupTypes, Added, Members
<1>3. \A j \in DOMAIN hierarchy : /\ CachesOf(hierarchy[j]) \subseteq Placed
                                  /\ CachesOf(hierarchy[j])' = CachesOf(hierarchy[j])
  <2>1. \A l \in DOMAIN level : CachesOf(l) \subseteq Placed
    BY DEF Placed
  <2>2. \A l \in Added : CachesOf(l)' = CachesOf(l)
    BY DEF CachesOf, Members
  <2>. QED
    BY <1>2, <2>1, <2>2
<1>4. \A l \in DOMAIN level : /\ Members(level[l].data) \subseteq CachesOf(l)
                              /\ Members(level[l].instr) \subseteq CachesOf(l)
  BY DEF CachesOf
<1>5. CASE k = Len(hierarchy)
  BY <1>1, <1>2, <1>3, <1>5 DEF LevelServed
<1>6. CASE k # Len(hierarchy)
  <2> DEFINE low == level[hierarchy[k]]  high == level[hierarchy[k + 1]]
  <2>1. k + 1 \in DOMAIN hierarchy
    BY <1>1, <1>2, <1>6
  <2>2. /\ Members(high.data) \subseteq Placed /\ Members(low.data) \subseteq Placed
        /\ Members(low.instr) \subseteq Placed
    BY <1>1, <1>2, <1>3, <1>4, <2>1
  <2>3. /\ \A i \in DOMAIN low.data : low.data[i] \in Placed
        /\ \A i \in DOMAIN low.instr : low.instr[i] \in Placed
    BY <2>2 DEF Members
  <2>4. /\ low' = low /\ high' = high
        /\ \A s : Members(s)' = Members(s)
    BY <1>1, <1>2, <2>1 DEF Members
  <2> HIDE DEF low, high
  <2>5. /\ \A h \in Members(high.data) : cache[h].lower # {} => cache'[h].lower # {}
        /\ \A i \in DOMAIN low.data : cache'[low.data[i]].higher = cache[low.data[i]].higher
        /\ \A i \in DOMAIN low.instr : cache'[low.instr[i]].higher = cache[low.instr[i]].higher
    BY <2>2, <2>3
  <2>. QED
    BY <1>1, <1>6, <2>4, <2>5 DEF LevelServed, low, high
<1>. QED
  BY <1>5, <1>6

\* A call that changes nothing but its result.
LEMMA OnlyResult ==
  ASSUME SetupIInv, UNCHANGED <<cache, given, level, hierarchy>>, result' \in Nat
  PROVE  SetupIInv'
<1>1. /\ Open' = Open /\ Placed' = Placed /\ Added' = Added /\ \A l : CachesOf(l)' = CachesOf(l)
      /\ CacheIds' = CacheIds
  BY SameLevels DEF CacheIds
<1>2. SetupTypes'
  BY <1>1 DEF SetupIInv, SetupTypes
<1>3. LinksAgree'
  BY <1>1 DEF SetupIInv, LinksAgree
<1>4. BusJoinsLevel'
  BY <1>1 DEF SetupIInv, BusJoinsLevel
<1>5. LevelsServed'
  BY ServedKept DEF SetupIInv
<1>6. InOrder' /\ Paired' /\ Apart'
  BY SameLevels DEF SetupIInv
<1>7. Loose'
  BY <1>1 DEF SetupIInv, Loose
<1>8. Whole' /\ LowerKnown' /\ OnBus'
  BY <1>1 DEF SetupIInv, Whole, LowerKnown, OnBus
<1>. QED
  BY <1>2, <1>3, <1>4, <1>5, <1>6, <1>7, <1>8 DEF SetupIInv

LEMMA SetupCacheStateKeeps ==
  ASSUME SetupIInv, NEW high \in {NULL} \cup given, NEW g \in AnyGeometry,
         SetupCacheState(high, g)
  PROVE  SetupIInv'
<1>1. CASE ~Fits(high, g)
  <2>1. UNCHANGED <<cache, given, level, hierarchy>> /\ result' = 0
    BY <1>1 DEF SetupCacheState, NULL
  <2>. QED
    BY <2>1, OnlyResult
<1>2. CASE Fits(high, g)
  <2>1. result' = Returned(g, NewId) /\ given' = given \cup ({result'} \ {NULL})
    BY <1>2 DEF SetupCacheState, NewId
  <2>new. cache' \in Seq(CacheState) /\ cache'[NewId] = Made(high, g) /\ NewId \in Nat \ {0}
    BY <1>2, NewCache
  <2>ids. CacheIds' = CacheIds \cup {NewId} /\ NewId \notin CacheIds
    BY <1>2, NewCache
  <2>kept. \A c \in CacheIds : /\ cache'[c].higher = cache[c].higher
                               /\ cache'[c].bus = cache[c].bus
                               /\ cache'[c].assoc = cache[c].assoc
    BY <1>2, NewCache
  <2>low. /\ \A c \in CacheIds : c # high => cache'[c].lower = cache[c].lower
          /\ high \in CacheIds => cache'[high].lower = cache[high].lower \cup {NewId}
    BY <1>2, NewCache
  <2>room. \A c \in CacheIds : Cardinality(cache'[c].lower) <= cache'[c].room
    BY <1>2, NewCache
  <2>3. /\ level' = level /\ hierarchy' = hierarchy /\ Placed' = Placed /\ Open' = Open
        /\ Added' = Added /\ \A l : CachesOf(l)' = CachesOf(l)
    BY SameLevels DEF SetupCacheState
  <2>4. /\ cache'[NewId].higher = high /\ cache'[NewId].lower = {} /\ cache'[NewId].room = 0
        /\ cache'[NewId].bus = Garbage
        /\ cache'[NewId].assoc = IF Associative(g) THEN g.assoc ELSE Garbage
    BY <2>new DEF Made
  <2>5. /\ Placed \subseteq CacheIds /\ given \subseteq CacheIds /\ Placed \subseteq given
        /\ \A c \in CacheIds : cache[c].higher \in {NULL} \cup CacheIds
    BY DEF SetupIInv, SetupTypes, Whole
  <2>6. high \in {NULL} \cup CacheIds /\ NULL \notin CacheIds \cup {NewId}
    <3>1. NULL \notin CacheIds
      BY DEF CacheIds, NULL, SetupIInv, SetupTypes
    <3>. QED
      BY <2>new, <2>5, <3>1 DEF NULL
  <2>7. SetupTypes'
    <3>1. \A c \in CacheIds' : cache'[c].higher \in {NULL} \cup CacheIds'
      BY <2>ids, <2>kept, <2>low, <2>4, <2>5, <2>6
    <3>2. given' \subseteq CacheIds' /\ Placed' \subseteq CacheIds' /\ result' \in Nat
      BY <2>new, <2>3, <2>1, <2>ids, <2>kept, <2>low, <2>5 DEF Returned, NULL
    <3>3. level \in Seq(CacheLevel) /\ hierarchy \in Seq(DOMAIN level)
      BY DEF SetupIInv, SetupTypes
    <3>. QED
      BY <2>new, <2>3, <2>5, <3>1, <3>2, <3>3 DEF SetupTypes
  <2>8. LowerKnown'
    <3>1. LowerKnown
      BY DEF SetupIInv
    <3>. QED
      BY <2>ids, <2>kept, <2>low, <2>3, <2>4, <2>5, <2>6, <3>1 DEF LowerKnown
  <2>9. LinksAgree'
    <3>1. \A c, h \in CacheIds' : cache'[c].higher = h <=> c \in cache'[h].lower
      <4> SUFFICES ASSUME NEW c \in CacheIds', NEW h \in CacheIds'
                   PROVE  cache'[c].higher = h <=> c \in cache'[h].lower
        OBVIOUS
      <4>1. CASE c \in CacheIds /\ h \in CacheIds
        <5>1. cache[c].higher = h <=> c \in cache[h].lower
          BY <4>1 DEF SetupIInv, LinksAgree
        <5>. QED
          BY <2>ids, <2>kept, <2>low, <4>1, <5>1
      <4>2. CASE c = NewId /\ h \in CacheIds
        <5>1. NewId \notin cache[h].lower
          BY <2>ids, <2>kept, <2>low, <4>2 DEF SetupIInv, LowerKnown
        <5>. QED
          BY <2>ids, <2>kept, <2>low, <2>4, <4>2, <5>1
      <4>3. CASE h = NewId
        <5>1. CASE c = NewId
          BY <2>4, <2>6, <2>ids, <4>3, <5>1
        <5>2. CASE c \in CacheIds
          BY <2>ids, <2>kept, <2>4, <2>5, <2>6, <4>3, <5>2
        <5>. QED
          BY <2>ids, <5>1, <5>2
      <4>. QED
        BY <2>ids, <2>kept, <2>low, <4>1, <4>2, <4>3
    <3>2. \A c \in CacheIds' : Cardinality(cache'[c].lower) <= cache'[c].room
      <4>1. Cardinality({}) = 0
        BY FS_EmptySet
      <4>2. Cardinality(cache'[NewId].lower) <= cache'[NewId].room
        BY <2>4, <4>1
      <4>. QED
        BY <2>ids, <2>room, <4>2
    <3>3. \A l \in DOMAIN level : level[l].bus # {} => Cardinality(level[l].bus) <= level[l].room
      BY DEF SetupIInv, LinksAgree
    <3>. QED
      BY <2>3, <3>1, <3>2, <3>3 DEF LinksAgree
  <2>10. BusJoinsLevel'
    <3>1. BusJoinsLevel
      BY DEF SetupIInv
    <3>2. \A l \in DOMAIN level : CachesOf(l) \subseteq CacheIds
      BY <2>5 DEF Placed
    <3>3. \A l \in DOMAIN level : l # Garbage
      BY DEF SetupIInv, SetupTypes, Garbage
    <3>4. \A l \in DOMAIN level : level[l].bus \subseteq CacheIds
      BY <3>1, <3>2 DEF BusJoinsLevel
    <3>5. \A c \in CacheIds' : \A l \in DOMAIN level : cache'[c].bus = l <=> c \in level[l].bus
      BY <2>ids, <2>kept, <2>low, <2>4, <3>1, <3>3, <3>4 DEF BusJoinsLevel
    <3>. QED
      BY <2>3, <3>1, <3>5 DEF BusJoinsLevel
  <2>11. LevelsServed'
    <3>1. \A c \in Placed : /\ cache'[c].higher = cache[c].higher
                             /\ cache[c].lower \subseteq cache'[c].lower
      BY <2>ids, <2>kept, <2>low, <2>5, <2>6
    <3>. QED
      BY <2>3, <3>1, ServedKept DEF SetupIInv
  <2>12. InOrder' /\ Paired' /\ Apart'
    BY <2>3, SameLevels DEF SetupIInv
  <2>13. Loose'
    <3>1. Loose
      BY DEF SetupIInv
    <3>2. \A l \in Open : CachesOf(l) \subseteq Placed
      BY DEF Placed, Open
    <3>3. \A c \in Placed : cache'[c].higher = cache[c].higher
      BY <2>kept, <2>5
    <3>. QED
      BY <2>3, <3>1, <3>2, <3>3 DEF Loose
  <2>14. Whole'
    <3>1. \A c \in given : cache'[c].assoc # Garbage
      BY <2>ids, <2>kept, <2>low, <2>5 DEF SetupIInv, Whole
    <3>2. result' # NULL => result' = NewId /\ cache'[NewId].assoc # Garbage
      BY <2>1, <2>4 DEF Returned, Associative, Garbage, AnyGeometry
    <3>3. \A c \in CacheIds : cache'[c].higher \in {NULL} \cup given'
      BY <2>kept, <2>1 DEF SetupIInv, Whole
    <3>4. cache'[NewId].higher \in {NULL} \cup given'
      BY <2>1, <2>4
    <3>. QED
      BY <2>1, <2>3, <2>5, <2>ids, <3>1, <3>2, <3>3, <3>4 DEF Whole
  <2>15. OnBus'
    <3>1. OnBus
      BY DEF SetupIInv
    <3>. QED
      BY <2>ids, <2>kept, <2>3, <2>4, <3>1 DEF OnBus
  <2>. QED
    BY <2>7, <2>8, <2>9, <2>10, <2>11, <2>12, <2>13, <2>14, <2>15 DEF SetupIInv
<1>. QED
  BY <1>1, <1>2

--------------------------------------------------------------------------------
(* init_cache_level. *)

\* The levels that were added, and the one that was not.
LEMMA LevelNumbers ==
  ASSUME SetupTypes, InOrder
  PROVE  /\ Len(level) \in Nat /\ Len(hierarchy) \in Nat
         /\ DOMAIN level = 1 .. Len(level) /\ DOMAIN hierarchy = 1 .. Len(hierarchy)
         /\ Added = 1 .. Len(hierarchy) /\ Added \subseteq DOMAIN level
         /\ Open = DOMAIN level \ Added
         /\ \A l \in Open : l = Len(level) /\ l = Len(hierarchy) + 1
         /\ \A k \in DOMAIN hierarchy : hierarchy[k] = k
<1>1. /\ Len(level) \in Nat /\ Len(hierarchy) \in Nat
      /\ DOMAIN level = 1 .. Len(level) /\ DOMAIN hierarchy = 1 .. Len(hierarchy)
  BY DEF SetupTypes
<1>2. \A k \in DOMAIN hierarchy : hierarchy[k] = k
  BY DEF InOrder
<1>3. Added = DOMAIN hierarchy
  BY <1>2 DEF Added, Members
<1>4. Len(level) = Len(hierarchy) \/ Len(level) = Len(hierarchy) + 1
  <2>1. Len(level) \in Nat /\ Len(hierarchy) \in Nat
    BY <1>1
  <2>. QED
    BY <2>1 DEF InOrder
<1>5. Open = DOMAIN level \ Added
  BY DEF Open
<1>6. Added = 1 .. Len(hierarchy) /\ Added \subseteq DOMAIN level
  <2>1. Added = 1 .. Len(hierarchy) /\ DOMAIN level = 1 .. Len(level)
    BY <1>1, <1>3
  <2>2. \A x, y \in Nat : x = y \/ x = y + 1 => 1 .. y \subseteq 1 .. x
    OBVIOUS
  <2>. QED
    BY <1>1, <1>4, <2>1, <2>2
<1>7. \A l \in Open : l = Len(level) /\ l = Len(hierarchy) + 1
  <2>1. Open = (1 .. Len(level)) \ (1 .. Len(hierarchy))
    BY <1>1, <1>5, <1>6
  <2>2. \A x, y \in Nat : x = y \/ x = y + 1 =>
          \A l \in (1 .. x) \ (1 .. y) : l = x /\ l = y + 1
    OBVIOUS
  <2>. QED
    BY <1>1, <1>4, <2>1, <2>2
<1>. QED
  BY <1>1, <1>2, <1>5, <1>6, <1>7

LEMMA InitCacheLevelKeeps ==
  ASSUME SetupIInv, Open = {}, NEW max \in Nat, NEW hasInstr \in BOOLEAN,
         InitCacheLevel(max, hasInstr)
  PROVE  SetupIInv'
<1>0. PICK n : n = Len(level) + 1
  OBVIOUS
<1> DEFINE made == [max |-> max, hasInstr |-> hasInstr, data |-> <<>>, instr |-> <<>>,
                    bus |-> {}, room |-> Garbage]
<1>1. level' = Append(level, made) /\ UNCHANGED <<cache, given, hierarchy>> /\ result' = 0
  BY DEF InitCacheLevel
<1>2. /\ SetupTypes /\ LinksAgree /\ BusJoinsLevel /\ LevelsServed
      /\ InOrder /\ Paired /\ Apart /\ Loose /\ OnBus /\ Whole /\ LowerKnown
  BY DEF SetupIInv
<1>3. made \in CacheLevel
  BY DEF CacheLevel, Garbage
<1>4. level \in Seq(CacheLevel) /\ Len(level) \in Nat /\ DOMAIN level = 1 .. Len(level)
  BY <1>2 DEF SetupTypes
<1>5. /\ made.data = <<>> /\ made.instr = <<>> /\ made.bus = {} /\ made.room = Garbage
  OBVIOUS
<1> HIDE DEF made
<1>6. /\ level' \in Seq(CacheLevel) /\ Len(level') = Len(level) + 1
      /\ \A l \in 1 .. Len(level) : level'[l] = level[l]
      /\ level'[Len(level) + 1] = made
  BY <1>1, <1>3, <1>4, AppendProperties
<1>7. /\ DOMAIN level' = DOMAIN level \cup {n} /\ n \notin DOMAIN level
      /\ \A l \in DOMAIN level : level'[l] = level[l]
      /\ level'[n] = made
  BY <1>0, <1>4, <1>6
<1>8. /\ Added' = Added /\ Added = DOMAIN level /\ DOMAIN level = DOMAIN hierarchy
      /\ Len(hierarchy) = Len(level) /\ Open' = {n}
  <2>1. Added' = Added
    BY <1>1 DEF Added
  <2>2. Added = DOMAIN level /\ DOMAIN level = DOMAIN hierarchy /\ Len(hierarchy) = Len(level)
    <3>1. Open = DOMAIN level \ Added /\ Added \subseteq DOMAIN level
      BY <1>2, LevelNumbers
    <3>2. Added = DOMAIN level
      BY <3>1
    <3>3. /\ DOMAIN level = 1 .. Len(level) /\ DOMAIN hierarchy = 1 .. Len(hierarchy)
          /\ Added = 1 .. Len(hierarchy) /\ Len(level) \in Nat /\ Len(hierarchy) \in Nat
      BY <1>2, LevelNumbers
    <3>4. \A x, y \in Nat : 1 .. x = 1 .. y => x = y
      OBVIOUS
    <3>. QED
      BY <3>2, <3>3, <3>4
  <2>. QED
    BY <1>7, <2>1, <2>2 DEF Open
<1>9. (\A l \in DOMAIN level : CachesOf(l)' = CachesOf(l)) /\ CachesOf(n)' = {}
  BY <1>5, <1>7 DEF CachesOf, Members
<1>10. Placed' = Placed /\ CacheIds' = CacheIds
  <2>1. Placed' = UNION {CachesOf(l)' : l \in DOMAIN level'}
    BY DEF Placed
  <2>. QED
    BY <1>1, <1>7, <1>9, <2>1 DEF Placed, CacheIds
<1>11. SetupTypes'
  <2>1. hierarchy' \in Seq(DOMAIN level')
    BY <1>1, <1>2, <1>7, SeqMonotonic DEF SetupTypes
  <2>. QED
    BY <1>1, <1>2, <1>6, <1>10, <2>1 DEF SetupTypes
<1>12. LinksAgree'
  BY <1>1, <1>2, <1>5, <1>7, <1>10 DEF LinksAgree
<1>13. BusJoinsLevel'
  <2>1. \A l \in DOMAIN level' :
          level'[l].bus = IF Len(level'[l].data) > 1 THEN CachesOf(l)' ELSE {}
    BY ZenonT(30), <1>2, <1>5, <1>7, <1>9 DEF BusJoinsLevel
  <2>2. \A c \in CacheIds : cache[c].bus # n
    BY <1>0, <1>2, <1>4, <1>7 DEF OnBus, Garbage
  <2>3. \A c \in CacheIds' : \A l \in DOMAIN level' : cache'[c].bus = l <=> c \in level'[l].bus
    BY <1>1, <1>2, <1>5, <1>7, <1>10, <2>2 DEF BusJoinsLevel
  <2>. QED
    BY <2>1, <2>3 DEF BusJoinsLevel
<1>14. LevelsServed'
  BY <1>1, <1>2, <1>7, <1>8, ServedKept
<1>15. InOrder'
  BY <1>1, <1>2, <1>6, <1>8 DEF InOrder
<1>16. Paired'
  <2>1. made.hasInstr = hasInstr
    BY DEF made
  <2>. QED
    BY <1>2, <1>5, <1>7, <1>8 DEF Paired
<1>17. Apart'
  <2>1. Members(level'[n].data) = {} /\ DOMAIN level'[n].data = {} /\ DOMAIN level'[n].instr = {}
    BY <1>5, <1>7 DEF Members
  <2>2. \A l \in DOMAIN level' :
          /\ \A i, j \in DOMAIN level'[l].data : level'[l].data[i] = level'[l].data[j] => i = j
          /\ \A i, j \in DOMAIN level'[l].instr : level'[l].instr[i] = level'[l].instr[j] => i = j
          /\ Members(level'[l].data) \cap Members(level'[l].instr) = {}
    BY <1>2, <1>7, <2>1 DEF Apart
  <2>3. \A l, m \in DOMAIN level' : l # m => CachesOf(l)' \cap CachesOf(m)' = {}
    BY <1>2, <1>7, <1>9 DEF Apart
  <2>. QED
    BY <2>2, <2>3 DEF Apart
<1>18. Loose'
  BY <1>1, <1>8, <1>9 DEF Loose
<1>19. Whole' /\ LowerKnown' /\ OnBus'
  BY <1>1, <1>2, <1>7, <1>10 DEF Whole, LowerKnown, OnBus
<1>. QED
  BY <1>11, <1>12, <1>13, <1>14, <1>15, <1>16, <1>17, <1>18, <1>19 DEF SetupIInv

--------------------------------------------------------------------------------
(* add_caches_to_level. *)

\* Two sequences one after the other have the members of both.
LEMMA MembersOfConcat ==
  ASSUME NEW s \in Seq(Nat), NEW t \in Seq(Nat)
  PROVE  /\ s \o t \in Seq(Nat) /\ Len(s \o t) = Len(s) + Len(t)
         /\ Members(s \o t) = Members(s) \cup Members(t)
         /\ \A i \in DOMAIN s : (s \o t)[i] = s[i]
         /\ \A i \in DOMAIN (s \o t) \ DOMAIN s : (s \o t)[i] = t[i - Len(s)]
                                                  /\ i - Len(s) \in DOMAIN t
<1>1. /\ s \o t \in Seq(Nat) /\ Len(s \o t) = Len(s) + Len(t)
      /\ Len(s) \in Nat /\ Len(t) \in Nat
      /\ DOMAIN s = 1 .. Len(s) /\ DOMAIN t = 1 .. Len(t)
      /\ DOMAIN (s \o t) = 1 .. Len(s) + Len(t)
  BY ConcatProperties
<1>2. \A i \in 1 .. Len(s) + Len(t) : (s \o t)[i] = IF i <= Len(s) THEN s[i] ELSE t[i - Len(s)]
  BY ConcatProperties
<1>3. \A i \in DOMAIN s : (s \o t)[i] = s[i] /\ i \in DOMAIN (s \o t)
  BY <1>1, <1>2
<1>4. \A i \in DOMAIN (s \o t) \ DOMAIN s : (s \o t)[i] = t[i - Len(s)] /\ i - Len(s) \in DOMAIN t
  BY <1>1, <1>2
<1>5. \A j \in DOMAIN t : (s \o t)[Len(s) + j] = t[j] /\ Len(s) + j \in DOMAIN (s \o t)
  BY <1>1, <1>2
<1>6. Members(s \o t) = Members(s) \cup Members(t)
  <2>1. \A x \in Members(s \o t) : x \in Members(s) \cup Members(t)
    BY <1>3, <1>4 DEF Members
  <2>2. Members(s) \subseteq Members(s \o t)
    BY <1>3 DEF Members
  <2>3. Members(t) \subseteq Members(s \o t)
    BY <1>5 DEF Members
  <2>. QED
    BY <2>1, <2>2, <2>3
<1>. QED
  BY <1>1, <1>3, <1>4, <1>6

\* An injective sequence stays one when a fresh element is appended.
LEMMA ConcatApart ==
  ASSUME NEW s \in Seq(Nat), NEW t \in Seq(Nat), Len(t) <= 1,
         Members(s) \cap Members(t) = {}, \A i, j \in DOMAIN s : s[i] = s[j] => i = j
  PROVE  \A i, j \in DOMAIN (s \o t) : (s \o t)[i] = (s \o t)[j] => i = j
<1> SUFFICES ASSUME NEW i \in DOMAIN (s \o t), NEW j \in DOMAIN (s \o t), (s \o t)[i] = (s \o t)[j]
             PROVE  i = j
  OBVIOUS
<1>1. /\ Len(s) \in Nat /\ Len(t) \in Nat /\ DOMAIN s = 1 .. Len(s) /\ DOMAIN t = 1 .. Len(t)
      /\ DOMAIN (s \o t) = 1 .. Len(s) + Len(t)
  BY MembersOfConcat
<1>2. \A k \in DOMAIN s : (s \o t)[k] = s[k] /\ s[k] \in Members(s)
  BY MembersOfConcat DEF Members
<1>3. \A k \in DOMAIN (s \o t) \ DOMAIN s : (s \o t)[k] \in Members(t) /\ k = Len(s) + 1
  <2> SUFFICES ASSUME NEW k \in DOMAIN (s \o t) \ DOMAIN s
               PROVE  (s \o t)[k] \in Members(t) /\ k = Len(s) + 1
    OBVIOUS
  <2>1. (s \o t)[k] = t[k - Len(s)] /\ k - Len(s) \in DOMAIN t
    BY MembersOfConcat
  <2>2. k \in Nat /\ k - Len(s) = 1
    BY <1>1, <2>1
  <2>. QED
    BY <1>1, <2>1, <2>2 DEF Members
<1>. QED
  BY <1>2, <1>3

LEMMA NoMembers ==
  ASSUME NEW s \in Seq(Nat)
  PROVE  s = <<>> <=> Len(s) = 0
BY EmptySeq

\* What a new pair changes: a level that is not added, and who is on its bus.
Grown(l, data, instr, joining) ==
  /\ level' \in Seq(CacheLevel) /\ DOMAIN level' = DOMAIN level /\ Len(level') = Len(level)
  /\ \A m \in DOMAIN level : m # l => level'[m] = level[m]
  /\ level'[l].data = level[l].data \o data
  /\ level'[l].instr = level[l].instr \o instr
  /\ level'[l].hasInstr = level[l].hasInstr
  /\ level[l].hasInstr => Len(instr) = 1
  /\ ~level[l].hasInstr => instr = <<>>
  /\ level'[l].bus = level[l].bus \cup joining
  /\ joining # {} => Cardinality(level'[l].bus) <= level'[l].room
  /\ joining \subseteq CacheIds
  /\ cache' \in Seq(CacheState) /\ CacheIds' = CacheIds
  /\ \A c \in CacheIds : /\ cache'[c].higher = cache[c].higher
                         /\ cache'[c].lower = cache[c].lower
                         /\ cache'[c].room = cache[c].room
                         /\ cache'[c].assoc = cache[c].assoc
                         /\ cache'[c].lines = cache[c].lines
                         /\ cache'[c].bus = IF c \in joining THEN l ELSE cache[c].bus
  /\ given' = given /\ hierarchy' = hierarchy

LEMMA GrownLevel ==
  ASSUME SetupIInv, NEW l \in Open, NEW data \in Seq(Nat), NEW instr \in Seq(Nat),
         Members(data) \cup Members(instr) \subseteq Fresh, Len(data) = 1, Len(instr) <= 1,
         AddCachesToLevel(l, data, instr), result' = 0,
         NEW joining, joining = Joining(l, data, instr)
  PROVE  Grown(l, data, instr, joining)
<1> DEFINE grown == WithPair(level[l], data, instr, joining)
<1>1. /\ level \in Seq(CacheLevel) /\ cache \in Seq(CacheState) /\ l \in DOMAIN level
      /\ DOMAIN level = 1 .. Len(level) /\ Len(level) \in Nat /\ l \in Nat
      /\ CacheIds = 1 .. Len(cache) /\ Len(cache) \in Nat
      /\ level[l] \in CacheLevel
  BY DEF SetupIInv, SetupTypes, Open, CacheIds
<1>2. /\ level[l].hasInstr => instr # <<>>
      /\ ~level[l].hasInstr => instr = <<>>
      /\ level' = [level EXCEPT ![l] = grown]
      /\ cache' = [c \in CacheIds |->
            IF c \in joining THEN [cache[c] EXCEPT !.bus = l] ELSE cache[c]]
      /\ given' = given /\ hierarchy' = hierarchy
  BY <1>1 DEF AddCachesToLevel, Failed
<1>3. joining \subseteq CacheIds /\ level[l].bus \subseteq CacheIds
  <2>1. /\ Placed \subseteq CacheIds /\ Fresh \subseteq CacheIds
        /\ level[l].bus \subseteq CachesOf(l)
    BY <1>1 DEF SetupIInv, SetupTypes, Fresh, BusJoinsLevel
  <2>2. CachesOf(l) \subseteq Placed
    BY <1>1 DEF Placed
  <2>3. Members(data \o instr) = Members(data) \cup Members(instr)
    BY MembersOfConcat
  <2>. QED
    BY <2>1, <2>2, <2>3 DEF Joining
<1> DEFINE bus == level[l].bus \cup joining
           room == IF Len(level[l].data) = 1 THEN Chunk ELSE level[l].room
<1>4. Cardinality(bus) \in Nat
  <2>1. IsFiniteSet(CacheIds)
    BY <1>1, FS_Interval
  <2>. QED
    BY <1>3, <2>1, FS_Subset, FS_CardinalityType
<1>5. /\ grown \in CacheLevel /\ grown.data = level[l].data \o data
      /\ grown.instr = level[l].instr \o instr /\ grown.hasInstr = level[l].hasInstr
      /\ grown.bus = bus
      /\ joining # {} => Cardinality(bus) <= grown.room
  <2>1. /\ level[l].data \o data \in Seq(Nat) /\ level[l].instr \o instr \in Seq(Nat)
        /\ level[l].room \in Int /\ level[l].bus \in SUBSET Nat
    BY <1>1, ConcatProperties DEF CacheLevel
  <2>2. bus \in SUBSET Nat /\ room \in Int
    <3>1. CacheIds \subseteq Nat /\ Chunk \in Int
      BY <1>1, SetupAssumption
    <3>. QED
      BY <1>3, <2>1, <3>1
  <2>3. Room(room, Cardinality(bus)) \in Int /\ Cardinality(bus) <= Room(room, Cardinality(bus))
    BY <1>4, <2>2, RoomFits
  <2>4. grown = [level[l] EXCEPT !.data = level[l].data \o data, !.instr = level[l].instr \o instr,
                                 !.bus = bus,
                                 !.room = IF joining = {} THEN level[l].room
                                          ELSE Room(room, Cardinality(bus))]
    BY DEF WithPair
  <2> HIDE DEF grown, bus, room
  <2>. QED
    BY <1>1, <2>1, <2>2, <2>3, <2>4 DEF CacheLevel
<1> HIDE DEF grown, bus
<1>6. /\ level' \in Seq(CacheLevel) /\ DOMAIN level' = DOMAIN level /\ Len(level') = Len(level)
      /\ \A m \in DOMAIN level : m # l => level'[m] = level[m]
      /\ level'[l] = grown
  BY <1>1, <1>2, <1>5, ExceptSeq
<1>7. /\ cache' \in Seq(CacheState) /\ CacheIds' = CacheIds
      /\ \A c \in CacheIds : cache'[c] = IF c \in joining THEN [cache[c] EXCEPT !.bus = l] ELSE cache[c]
  <2>1. \A c \in CacheIds : cache[c] \in CacheState
    BY <1>1
  <2>2. cache' \in [1 .. Len(cache) -> CacheState]
    <3>1. \A s \in CacheState : [s EXCEPT !.bus = l] \in CacheState
      <4>1. l \in Int
        BY <1>1
      <4>. QED
        BY <4>1 DEF CacheState
    <3>. QED
      BY <1>1, <1>2, <2>1, <3>1
  <2>3. cache' \in Seq(CacheState) /\ DOMAIN cache' = 1 .. Len(cache)
    BY <1>1, <2>2, FunctionIsSeq
  <2>. QED
    BY <1>1, <1>2, <2>3 DEF CacheIds
<1>8. \A c \in CacheIds : /\ cache'[c].higher = cache[c].higher
                          /\ cache'[c].lower = cache[c].lower
                          /\ cache'[c].room = cache[c].room
                          /\ cache'[c].assoc = cache[c].assoc
                          /\ cache'[c].lines = cache[c].lines
                          /\ cache'[c].bus = IF c \in joining THEN l ELSE cache[c].bus
  <2> SUFFICES ASSUME NEW c \in CacheIds
               PROVE  /\ cache'[c].higher = cache[c].higher
                      /\ cache'[c].lower = cache[c].lower
                      /\ cache'[c].room = cache[c].room
                      /\ cache'[c].assoc = cache[c].assoc
                      /\ cache'[c].lines = cache[c].lines
                      /\ cache'[c].bus = IF c \in joining THEN l ELSE cache[c].bus
    OBVIOUS
  <2>1. cache[c] \in CacheState
    BY <1>1
  <2>2. CASE c \in joining
    <3>1. cache'[c] = [cache[c] EXCEPT !.bus = l]
      BY <1>7, <2>2
    <3>. QED
      BY <2>1, <2>2, <3>1 DEF CacheState
  <2>3. CASE c \notin joining
    BY <1>7, <2>3
  <2>. QED
    BY <2>2, <2>3
<1>9. level[l].hasInstr => Len(instr) = 1
  BY <1>2, EmptySeq
<1>. QED
  BY <1>2, <1>3, <1>5, <1>6, <1>7, <1>8, <1>9 DEF bus, Grown

LEMMA AddCachesKeeps ==
  ASSUME SetupIInv, NEW l \in Open, NEW data \in Seq(Nat), NEW instr \in Seq(Nat),
         Members(data) \cup Members(instr) \subseteq Fresh, Len(data) = 1, Len(instr) <= 1,
         Members(data) \cap Members(instr) = {}, AddCachesToLevel(l, data, instr)
  PROVE  SetupIInv'
<1>1. CASE result' # 0
  <2>1. UNCHANGED <<cache, given, level, hierarchy>> /\ result' \in Nat
    BY <1>1 DEF AddCachesToLevel, Failed
  <2>. QED
    BY <2>1, OnlyResult
<1>2. CASE result' = 0
  <2> DEFINE new == Members(data) \cup Members(instr)
  <2>0. PICK joining : joining = Joining(l, data, instr)
    OBVIOUS
  <2>g. Grown(l, data, instr, joining)
    BY <1>2, <2>0, GrownLevel
  <2>a. /\ SetupTypes /\ LinksAgree /\ BusJoinsLevel /\ LevelsServed
        /\ InOrder /\ Paired /\ Apart /\ Loose /\ OnBus /\ Whole /\ LowerKnown
    BY DEF SetupIInv
  <2>lev. /\ level' \in Seq(CacheLevel) /\ DOMAIN level' = DOMAIN level /\ Len(level') = Len(level)
          /\ \A m \in DOMAIN level : m # l => level'[m] = level[m]
    BY <2>g DEF Grown
  <2>own. /\ level'[l].data = level[l].data \o data /\ level'[l].instr = level[l].instr \o instr
          /\ level'[l].hasInstr = level[l].hasInstr
          /\ level[l].hasInstr => Len(instr) = 1
          /\ ~level[l].hasInstr => instr = <<>>
    BY <2>g DEF Grown
  <2>jo. /\ level'[l].bus = level[l].bus \cup joining
         /\ joining # {} => Cardinality(level'[l].bus) <= level'[l].room
         /\ joining \subseteq CacheIds
    BY <2>g DEF Grown
  <2>cac. /\ cache' \in Seq(CacheState) /\ CacheIds' = CacheIds
          /\ \A c \in CacheIds : /\ cache'[c].higher = cache[c].higher
                                 /\ cache'[c].lower = cache[c].lower
                                 /\ cache'[c].room = cache[c].room
                                 /\ cache'[c].assoc = cache[c].assoc
    BY <2>g DEF Grown
  <2>bus. \A c \in CacheIds : cache'[c].bus = IF c \in joining THEN l ELSE cache[c].bus
    BY <2>g DEF Grown
  <2>oth. given' = given /\ hierarchy' = hierarchy /\ Added' = Added /\ Open' = Open
    BY <2>g, <2>lev DEF Grown, Added, Members, Open
  <2>1. /\ l \in DOMAIN level /\ l \notin Added /\ Added \subseteq DOMAIN level
        /\ level[l] \in CacheLevel
        /\ level[l].data \in Seq(Nat) /\ level[l].instr \in Seq(Nat)
    <3>1. l \in DOMAIN level /\ l \notin Added /\ Added \subseteq DOMAIN level
      BY <2>a, LevelNumbers DEF Open
    <3>2. level[l] \in CacheLevel
      BY <2>a, <3>1 DEF SetupTypes
    <3>. QED
      BY <3>1, <3>2 DEF CacheLevel
  <2>2. /\ \A m \in DOMAIN level : m # l => CachesOf(m)' = CachesOf(m)
        /\ CachesOf(l)' = CachesOf(l) \cup new
    <3>1. \A m \in DOMAIN level : m # l => CachesOf(m)' = CachesOf(m)
      BY <2>lev DEF CachesOf, Members
    <3>2. CachesOf(l)' = Members(level'[l].data) \cup Members(level'[l].instr)
      BY DEF CachesOf, Members
    <3>3. CachesOf(l) = Members(level[l].data) \cup Members(level[l].instr)
      BY DEF CachesOf
    <3>. QED
      BY <2>own, <2>1, <3>1, <3>2, <3>3, MembersOfConcat
  <2>3. Placed' = Placed \cup new
    <3>1. Placed' = UNION {CachesOf(m)' : m \in DOMAIN level'}
      BY DEF Placed
    <3> HIDE DEF new
    <3>2. Placed' \subseteq Placed \cup new
      BY <2>lev, <2>2, <3>1 DEF Placed
    <3>3. Placed \subseteq Placed'
      BY <2>lev, <2>2, <3>1 DEF Placed
    <3>4. new \subseteq Placed'
      BY <2>lev, <2>1, <2>2, <3>1
    <3>. QED
      BY <3>2, <3>3, <3>4
  <2>4. /\ new \cap Placed = {} /\ new \subseteq given
        /\ \A c \in new : cache[c].higher = NULL
    BY DEF Fresh
  <2>5. /\ new \subseteq CacheIds /\ Placed \subseteq CacheIds /\ CachesOf(l) \subseteq Placed
        /\ \A m \in DOMAIN level : CachesOf(m) \subseteq Placed
    BY <2>a, <2>1, <2>4 DEF SetupTypes, Placed
  <2>6. new # {}
    BY EmptySeq DEF Members
  <2> HIDE DEF new
  <2>7. SetupTypes'
    <3>1. \A c \in CacheIds : cache'[c].higher \in {NULL} \cup CacheIds
      BY <2>a, <2>cac DEF SetupTypes
    <3>2. hierarchy' \in Seq(DOMAIN level')
      BY <2>a, <2>lev, <2>oth DEF SetupTypes
    <3>3. given' \subseteq CacheIds' /\ Placed' \subseteq CacheIds' /\ result' \in Nat
      BY <1>2, <2>a, <2>cac, <2>oth, <2>3, <2>5 DEF SetupTypes
    <3>. QED
      BY <2>lev, <2>cac, <3>1, <3>2, <3>3 DEF SetupTypes
  <2>8. /\ level'[l].bus = IF Len(level'[l].data) > 1 THEN CachesOf(l)' ELSE {}
        /\ joining \subseteq CachesOf(l)'
        /\ joining = {} => level'[l].bus = {}
    <3>1. /\ Len(level'[l].data) = Len(level[l].data) + 1 /\ Len(level[l].data) \in Nat
          /\ Members(data \o instr) = new
      <4>1. Members(data \o instr) = new
        BY MembersOfConcat DEF new
      <4>2. Len(level[l].data \o data) = Len(level[l].data) + Len(data)
        BY <2>1, MembersOfConcat
      <4>3. Len(level[l].data) \in Nat
        BY <2>1
      <4>. QED
        BY <2>own, <4>1, <4>2, <4>3
    <3>2. level[l].bus = IF Len(level[l].data) > 1 THEN CachesOf(l) ELSE {}
      BY <2>a, <2>1 DEF BusJoinsLevel
    <3>3. CASE level[l].data = <<>>
      <4>1. joining = {} /\ Len(level[l].data) = 0
        BY <2>0, <2>1, <3>3, EmptySeq DEF Joining
      <4>. QED
        BY <2>jo, <3>1, <3>2, <4>1
    <3>4. CASE Len(level[l].data) = 1
      <4>0. level[l].data # <<>>
        <5>1. level[l].data \in Seq(Nat)
          BY <2>1
        <5>2. level[l].data = <<>> <=> Len(level[l].data) = 0
          BY <5>1, NoMembers
        <5>. QED
          BY <3>4, <5>2
      <4>1. joining = new \cup CachesOf(l)
        BY <2>0, <3>1, <3>4, <4>0 DEF Joining
      <4>. QED
        BY <2>jo, <2>2, <2>6, <3>1, <3>2, <3>4, <4>1
    <3>5. CASE level[l].data # <<>> /\ Len(level[l].data) # 1
      <4>1. joining = new /\ Len(level[l].data) > 1
        BY <2>0, <2>1, <3>1, <3>5, EmptySeq DEF Joining
      <4>. QED
        BY <2>jo, <2>2, <2>6, <3>1, <3>2, <4>1
    <3>. QED
      BY <3>3, <3>4, <3>5
  <2>9. LinksAgree'
    <3>1. \A c, h \in CacheIds : cache'[c].higher = h <=> c \in cache'[h].lower
      BY <2>a, <2>cac DEF LinksAgree
    <3>2. \A c \in CacheIds : Cardinality(cache'[c].lower) <= cache'[c].room
      BY <2>a, <2>cac DEF LinksAgree
    <3>3. \A m \in DOMAIN level :
            level'[m].bus # {} => Cardinality(level'[m].bus) <= level'[m].room
      BY <2>a, <2>lev, <2>jo, <2>8 DEF LinksAgree
    <3>. QED
      BY <2>lev, <2>cac, <3>1, <3>2, <3>3 DEF LinksAgree
  <2>10. BusJoinsLevel'
    <3>1. \A m \in DOMAIN level :
            level'[m].bus = IF Len(level'[m].data) > 1 THEN CachesOf(m)' ELSE {}
      BY <2>a, <2>lev, <2>2, <2>8 DEF BusJoinsLevel
    <3>2. \A m \in DOMAIN level : m # l => joining \cap level[m].bus = {}
      <4>1. \A m \in DOMAIN level : m # l => CachesOf(l)' \cap CachesOf(m) = {}
        BY <2>a, <2>1, <2>2, <2>4, <2>5 DEF Apart
      <4>2. \A m \in DOMAIN level : level[m].bus \subseteq CachesOf(m)
        BY <2>a DEF BusJoinsLevel
      <4>. QED
        BY <2>8, <4>1, <4>2
    <3>3. \A c \in CacheIds : \A m \in DOMAIN level : cache[c].bus = m <=> c \in level[m].bus
      BY <2>a DEF BusJoinsLevel
    <3>4. \A c \in CacheIds : \A m \in DOMAIN level : cache'[c].bus = m <=> c \in level'[m].bus
      <4>1. \A c \in CacheIds : cache'[c].bus = l <=> c \in level'[l].bus
        BY <2>jo, <2>bus, <2>1, <3>3
      <4>2. \A c \in CacheIds : \A m \in DOMAIN level :
              m # l => (cache'[c].bus = m <=> c \in level[m].bus)
        BY <2>bus, <3>2, <3>3
      <4>. QED
        BY <2>lev, <4>1, <4>2
    <3>. QED
      BY <2>lev, <2>cac, <3>1, <3>4 DEF BusJoinsLevel
  <2>11. LevelsServed'
    BY <2>a, <2>lev, <2>cac, <2>oth, <2>1, <2>5, ServedKept
  <2>12. InOrder'
    BY <2>a, <2>lev, <2>oth DEF InOrder
  <2>13. Paired'
    <3>1. /\ Len(level'[l].data) = Len(level[l].data) + 1
          /\ Len(level'[l].instr) = Len(level[l].instr) + Len(instr)
          /\ Len(level[l].data) \in Nat /\ Len(level[l].instr) \in Nat /\ Len(instr) \in Nat
      <4>1. /\ Len(level[l].data \o data) = Len(level[l].data) + Len(data)
            /\ Len(level[l].instr \o instr) = Len(level[l].instr) + Len(instr)
        BY <2>1, MembersOfConcat
      <4>2. Len(level[l].data) \in Nat /\ Len(level[l].instr) \in Nat /\ Len(instr) \in Nat
        BY <2>1
      <4>. QED
        BY <2>own, <4>1, <4>2
    <3>2. level[l].hasInstr => Len(level'[l].instr) = Len(level'[l].data)
      BY <2>a, <2>own, <2>1, <3>1 DEF Paired
    <3>3. ~level[l].hasInstr => level'[l].instr = <<>>
      BY <2>a, <2>own, <2>1 DEF Paired
    <3>. QED
      BY <2>a, <2>lev, <2>own, <2>oth, <2>1, <3>2, <3>3 DEF Paired
  <2>14. Apart'
    <3>1. /\ Members(level'[l].data) = Members(level[l].data) \cup Members(data)
          /\ Members(level'[l].instr) = Members(level[l].instr) \cup Members(instr)
      BY <2>own, <2>1, MembersOfConcat
    <3>2. /\ Members(level[l].data) \subseteq Placed /\ Members(level[l].instr) \subseteq Placed
          /\ Members(data) \subseteq new /\ Members(instr) \subseteq new
      BY <2>5 DEF CachesOf, new
    <3>3. /\ \A i, j \in DOMAIN level'[l].data : level'[l].data[i] = level'[l].data[j] => i = j
          /\ \A i, j \in DOMAIN level'[l].instr : level'[l].instr[i] = level'[l].instr[j] => i = j
      <4>1. /\ \A i, j \in DOMAIN level[l].data : level[l].data[i] = level[l].data[j] => i = j
            /\ \A i, j \in DOMAIN level[l].instr : level[l].instr[i] = level[l].instr[j] => i = j
        BY <2>a, <2>1 DEF Apart
      <4>2. /\ Members(level[l].data) \cap Members(data) = {}
            /\ Members(level[l].instr) \cap Members(instr) = {}
        BY <2>4, <3>2
      <4>3. PICK s : s = level[l].data \o data
        OBVIOUS
      <4>4. \A i, j \in DOMAIN s : s[i] = s[j] => i = j
        <5>1. \A i, j \in DOMAIN (level[l].data \o data) :
                (level[l].data \o data)[i] = (level[l].data \o data)[j] => i = j
          <6>1. level[l].data \in Seq(Nat) /\ Len(data) <= 1
            BY <2>1
          <6>. QED
            BY <4>1, <4>2, <6>1, ConcatApart, Zenon
        <5>. QED
          BY <4>3, <5>1
      <4>5. PICK t : t = level[l].instr \o instr
        OBVIOUS
      <4>6. \A i, j \in DOMAIN t : t[i] = t[j] => i = j
        BY <2>1, <4>1, <4>2, <4>5, ConcatApart
      <4>. QED
        BY <2>own, <4>3, <4>4, <4>5, <4>6
    <3>4. Members(level'[l].data) \cap Members(level'[l].instr) = {}
      BY <2>a, <2>1, <2>4, <3>1, <3>2 DEF Apart
    <3>5. \A m \in DOMAIN level' :
            /\ \A i, j \in DOMAIN level'[m].data : level'[m].data[i] = level'[m].data[j] => i = j
            /\ \A i, j \in DOMAIN level'[m].instr : level'[m].instr[i] = level'[m].instr[j] => i = j
            /\ Members(level'[m].data) \cap Members(level'[m].instr) = {}
      BY ZenonT(30), <2>a, <2>lev, <3>3, <3>4 DEF Apart
    <3>6. \A m, n \in DOMAIN level : m # n => CachesOf(m)' \cap CachesOf(n)' = {}
      <4>1. \A m, n \in DOMAIN level : m # n => CachesOf(m) \cap CachesOf(n) = {}
        BY <2>a DEF Apart
      <4>2. \A m \in DOMAIN level : new \cap CachesOf(m) = {}
        BY <2>4, <2>5
      <4>. QED
        BY <2>1, <2>2, <4>1, <4>2
    <3>. QED
      BY <2>lev, <3>5, <3>6 DEF Apart
  <2>15. Loose'
    <3>1. \A m \in Open : m \in DOMAIN level
      BY DEF Open
    <3>. QED
      BY <2>a, <2>cac, <2>oth, <2>2, <2>4, <2>5, <3>1 DEF Loose
  <2>16. Whole' /\ OnBus'
    BY <2>a, <2>lev, <2>cac, <2>bus, <2>oth, <2>1, <2>3, <2>4, <2>5 DEF Whole, OnBus, SetupTypes
  <2>17. LowerKnown'
    BY <2>a, <2>cac, <2>3, <2>4, <2>5 DEF LowerKnown
  <2>. QED
    BY <2>7, <2>9, <2>10, <2>11, <2>12, <2>13, <2>14, <2>15, <2>16, <2>17 DEF SetupIInv
<1>. QED
  BY <1>1, <1>2

--------------------------------------------------------------------------------
(* add_level. *)

\* The caches of the last level that was added.
Below == IF hierarchy = <<>> THEN {} ELSE CachesOf(hierarchy[Len(hierarchy)])

\* Every cache of the last level has one in the new level to ask, and every data cache of
\* the new level is asked.
Supplied(l, low, high) ==
  /\ \A i \in DOMAIN low.data :
       Above(l, low, low.data[i]) = high.data[IF Len(high.data) = 1 THEN 1 ELSE i]
  /\ \A i \in DOMAIN low.instr :
       Above(l, low, low.instr[i]) =
         (IF high.hasInstr THEN high.instr ELSE high.data)[IF Len(high.data) = 1 THEN 1 ELSE i]
  /\ \A c \in Below : Above(l, low, c) \in CachesOf(l)
  /\ \A h \in Members(high.data) : \E c \in Below : Above(l, low, c) = h
  /\ Below = Members(low.data) \cup Members(low.instr)

LEMMA AboveIs ==
  ASSUME SetupIInv, NEW l \in Open, hierarchy # <<>>, level[l].data # <<>>, ~WrongAmount(l),
         NEW low, low = LastLevel,
         NEW high, high = level[l]
  PROVE  Supplied(l, low, high)
<1>1. PICK n : n = hierarchy[Len(hierarchy)]
  OBVIOUS
<1>2. /\ n \in DOMAIN level /\ l \in DOMAIN level /\ n \in Added /\ low = level[n]
      /\ Below = CachesOf(n)
  <2>1. Len(hierarchy) \in DOMAIN hierarchy /\ \A k \in DOMAIN hierarchy : hierarchy[k] \in DOMAIN level
    BY EmptySeq DEF SetupIInv, SetupTypes
  <2>. QED
    BY <1>1, <2>1 DEF LastLevel, Added, Members, Open, Below
<1>3. /\ low \in CacheLevel /\ high \in CacheLevel
      /\ low.data \in Seq(Nat) /\ low.instr \in Seq(Nat)
      /\ high.data \in Seq(Nat) /\ high.instr \in Seq(Nat)
  <2>1. low \in CacheLevel /\ high \in CacheLevel
    BY <1>2 DEF SetupIInv, SetupTypes
  <2>. QED
    BY <2>1 DEF CacheLevel
<1>4. /\ Len(low.data) \in Nat /\ Len(low.instr) \in Nat
      /\ Len(high.data) \in Nat /\ Len(high.instr) \in Nat
      /\ DOMAIN low.data = 1 .. Len(low.data) /\ DOMAIN low.instr = 1 .. Len(low.instr)
      /\ DOMAIN high.data = 1 .. Len(high.data) /\ DOMAIN high.instr = 1 .. Len(high.instr)
  BY <1>3
<1>5. /\ \A i, j \in DOMAIN low.data : low.data[i] = low.data[j] => i = j
      /\ \A i, j \in DOMAIN low.instr : low.instr[i] = low.instr[j] => i = j
      /\ Members(low.data) \cap Members(low.instr) = {}
  BY <1>2 DEF SetupIInv, Apart
<1>6. /\ Len(high.data) > 0 /\ Len(low.data) > 0
      /\ Len(high.data) = 1 \/ Len(high.data) = Len(low.data)
      /\ low.instr # <<>> => Len(low.instr) = Len(low.data)
      /\ high.hasInstr => Len(high.instr) = Len(high.data)
  <2>1. Paired /\ low.hasInstr \in BOOLEAN
    BY <1>3 DEF SetupIInv, CacheLevel
  <2>2. high.data # <<>> /\ low.data # <<>>
    BY <1>2, <2>1 DEF Paired
  <2>3. Len(high.data) # 0 /\ Len(low.data) # 0
    BY <1>3, <2>2, NoMembers
  <2>4. Len(high.data) = 1 \/ Len(high.data) = Len(low.data)
    BY DEF WrongAmount
  <2>5. /\ low.instr # <<>> => Len(low.instr) = Len(low.data)
        /\ high.hasInstr => Len(high.instr) = Len(high.data)
    BY <1>2, <2>1 DEF Paired
  <2>. QED
    BY <1>4, <2>3, <2>4, <2>5
<1>7. ASSUME NEW i \in DOMAIN low.data
      PROVE  /\ Above(l, low, low.data[i]) = high.data[IF Len(high.data) = 1 THEN 1 ELSE i]
             /\ Above(l, low, low.data[i]) \in Members(high.data)
             /\ low.data[i] \in Below
  <2>1. low.data[i] \in Members(low.data)
    BY DEF Members
  <2>2. (CHOOSE j \in DOMAIN low.data : low.data[j] = low.data[i]) = i
    BY <1>5
  <2>3. Above(l, low, low.data[i]) = IF Len(high.data) = 1 THEN high.data[1] ELSE high.data[i]
    BY <2>1, <2>2 DEF Above
  <2>4. 1 \in DOMAIN high.data /\ (Len(high.data) # 1 => i \in DOMAIN high.data)
    BY <1>4, <1>6
  <2>5. low.data[i] \in Below
    BY <1>2, <2>1 DEF CachesOf
  <2>. QED
    BY <2>3, <2>4, <2>5 DEF Members
<1>8. ASSUME NEW i \in DOMAIN low.instr
      PROVE  /\ Above(l, low, low.instr[i]) =
                  (IF high.hasInstr THEN high.instr ELSE high.data)
                    [IF Len(high.data) = 1 THEN 1 ELSE i]
             /\ Above(l, low, low.instr[i]) \in CachesOf(l)
  <2> DEFINE s == IF high.hasInstr THEN high.instr ELSE high.data
  <2>1. low.instr[i] \notin Members(low.data)
    BY SMTT(30), <1>5 DEF Members
  <2>2. (CHOOSE j \in DOMAIN low.instr : low.instr[j] = low.instr[i]) = i
    BY <1>5
  <2>3. Above(l, low, low.instr[i]) = IF Len(s) = 1 THEN s[1] ELSE s[i]
    BY <2>1, <2>2 DEF Above
  <2>4. Len(s) = Len(high.data) /\ DOMAIN s = 1 .. Len(high.data)
    BY <1>4, <1>6
  <2>5. Members(s) \subseteq CachesOf(l)
    BY DEF CachesOf
  <2> HIDE DEF s
  <2>6. 1 \in DOMAIN s /\ (Len(s) # 1 => i \in DOMAIN s)
    <3>1. low.instr # <<>>
      BY <1>3, <1>4, NoMembers
    <3>. QED
      BY <1>4, <1>6, <2>4, <3>1
  <2>7. Above(l, low, low.instr[i]) \in Members(s)
    BY <2>3, <2>6 DEF Members
  <2>8. Above(l, low, low.instr[i]) = s[IF Len(high.data) = 1 THEN 1 ELSE i]
    BY <2>3, <2>4
  <2>. QED
    BY <2>5, <2>7, <2>8 DEF s
<1>9. Below = Members(low.data) \cup Members(low.instr)
  BY <1>2 DEF CachesOf
<1>10. \A c \in Below : Above(l, low, c) \in CachesOf(l)
  <2>1. Members(high.data) \subseteq CachesOf(l)
    BY DEF CachesOf
  <2>. QED
    BY <1>7, <1>8, <1>9, <2>1 DEF Members
<1>11. \A h \in Members(high.data) : \E c \in Below : Above(l, low, c) = h
  <2> SUFFICES ASSUME NEW j \in DOMAIN high.data
               PROVE  \E c \in Below : Above(l, low, c) = high.data[j]
    BY DEF Members
  <2>1. j \in DOMAIN low.data \/ (Len(high.data) = 1 /\ j = 1 /\ 1 \in DOMAIN low.data)
    <3>1. \A x, y \in Nat :
            x > 0 /\ y > 0 /\ (x = 1 \/ x = y) /\ j \in 1 .. x
              => j \in 1 .. y \/ (x = 1 /\ j = 1 /\ 1 \in 1 .. y)
      OBVIOUS
    <3>. QED
      BY <1>4, <1>6, <3>1
  <2>2. CASE j \in DOMAIN low.data
    <3>1. Above(l, low, low.data[j]) = high.data[j]
      BY <1>4, <1>7, <2>2
    <3>. QED
      BY <1>7, <2>2, <3>1
  <2>3. CASE Len(high.data) = 1 /\ j = 1 /\ 1 \in DOMAIN low.data
    BY <1>7, <2>3
  <2>. QED
    BY <2>1, <2>2, <2>3
<1>. QED
  BY <1>7, <1>8, <1>9, <1>10, <1>11 DEF Supplied

\* The caches of the last level below cache c of the new one.
Under(l, low, c) == {d \in Below : Above(l, low, d) = c}

\* What add_level changes: the caches of the last level get those of the new one to ask.
Climbing(l, low) ==
  /\ cache' \in Seq(CacheState) /\ CacheIds' = CacheIds
  /\ \A c \in CacheIds : /\ cache'[c].bus = cache[c].bus
                         /\ cache'[c].assoc = cache[c].assoc
                         /\ cache'[c].lines = cache[c].lines
                         /\ Cardinality(cache'[c].lower) <= cache'[c].room
  /\ \A c \in Below : /\ cache'[c].higher = Above(l, low, c)
                      /\ cache'[c].lower = cache[c].lower
  /\ \A c \in CachesOf(l) : /\ cache'[c].higher = cache[c].higher
                          /\ cache'[c].lower = cache[c].lower \cup Under(l, low, c)
  /\ \A c \in CacheIds \ (Below \cup CachesOf(l)) : /\ cache'[c].higher = cache[c].higher
                                                  /\ cache'[c].lower = cache[c].lower

\* The last level and the new one.
LEMMA BelowApart ==
  ASSUME SetupIInv, NEW l \in Open
  PROVE  /\ l \in DOMAIN level /\ l \notin Added
         /\ Below \subseteq Placed /\ CachesOf(l) \subseteq Placed /\ Placed \subseteq CacheIds
         /\ Below \cap CachesOf(l) = {}
         /\ \A c \in Below : cache[c].higher = NULL
         /\ hierarchy # <<>> => hierarchy[Len(hierarchy)] \in Added \cap DOMAIN level
<1>1. l \in DOMAIN level /\ l \notin Added /\ Placed \subseteq CacheIds
  BY DEF SetupIInv, SetupTypes, Open
<1>2. \A m \in DOMAIN level : CachesOf(m) \subseteq Placed
  BY DEF Placed
<1>3. CASE hierarchy = <<>>
  BY <1>1, <1>2, <1>3 DEF Below
<1>4. CASE hierarchy # <<>>
  <2>1. PICK n : n = hierarchy[Len(hierarchy)]
    OBVIOUS
  <2>2. hierarchy \in Seq(DOMAIN level) /\ Len(hierarchy) \in DOMAIN hierarchy
    BY <1>4, EmptySeq DEF SetupIInv, SetupTypes
  <2>3. n \in DOMAIN level /\ n \in Added
    BY <2>1, <2>2 DEF Added, Members
  <2>4. \A c \in CachesOf(n) : cache[c].higher = NULL
    <3>1. LevelServed(Len(hierarchy))
      BY <2>2 DEF SetupIInv, LevelsServed
    <3>. QED
      BY <2>1, <3>1 DEF LevelServed
  <2>5. CachesOf(n) \cap CachesOf(l) = {}
    BY <1>1, <2>3 DEF SetupIInv, Apart
  <2>. QED
    BY <1>1, <1>2, <1>4, <2>1, <2>3, <2>4, <2>5 DEF Below
<1>. QED
  BY <1>3, <1>4

LEMMA ClimbingLevel ==
  ASSUME SetupIInv, NEW l \in Open, level[l].data # <<>>, AddLevel(l), result' = 0,
         NEW low, low = LastLevel
  PROVE  Climbing(l, low)
<1>1. /\ cache \in Seq(CacheState) /\ CacheIds = 1 .. Len(cache) /\ Len(cache) \in Nat
      /\ \A c \in CacheIds : cache[c] \in CacheState
      /\ \A c \in CacheIds : Cardinality(cache[c].lower) <= cache[c].room
  BY DEF SetupIInv, SetupTypes, CacheIds, LinksAgree
<1>2. /\ Below \subseteq Placed /\ CachesOf(l) \subseteq Placed /\ Placed \subseteq CacheIds
      /\ Below \cap CachesOf(l) = {}
  BY BelowApart
<1>3. \A c \in CacheIds : IsFiniteSet(cache[c].lower)
  BY LowerFinite DEF SetupIInv
<1>4. ~WrongAmount(l) /\ cache' = IF hierarchy = <<>> THEN cache ELSE Linked(l, low)
  BY DEF AddLevel, Failed
<1>5. CASE hierarchy = <<>>
  <2>1. Below = {} /\ cache' = cache /\ CacheIds' = CacheIds
    BY <1>4, <1>5 DEF Below, CacheIds
  <2>. QED
    BY <1>1, <1>2, <2>1 DEF Climbing, Under
<1>6. CASE hierarchy # <<>>
  <2>1. /\ Below = Members(low.data) \cup Members(low.instr)
        /\ \A c \in Below : Above(l, low, c) \in CachesOf(l)
    BY <1>4, <1>6, AboveIs DEF Supplied
  <2>2. cache' = [c \in CacheIds |->
            IF c \in Below THEN [cache[c] EXCEPT !.higher = Above(l, low, c)]
            ELSE IF c \in CachesOf(l)
                 THEN WithLower(cache[c], Under(l, low, c))
            ELSE cache[c]]
    BY <1>4, <1>6, <2>1 DEF Linked, Under
  <2>3. \A c \in CacheIds : cache'[c] =
            IF c \in Below THEN [cache[c] EXCEPT !.higher = Above(l, low, c)]
            ELSE IF c \in CachesOf(l)
                 THEN WithLower(cache[c], Under(l, low, c))
            ELSE cache[c]
    BY <2>2
  <2>4. CacheIds' = CacheIds
    BY <2>2 DEF CacheIds
  <2>5. ASSUME NEW c \in Below
        PROVE  /\ cache'[c] \in CacheState
               /\ cache'[c].higher = Above(l, low, c) /\ cache'[c].lower = cache[c].lower
               /\ cache'[c].bus = cache[c].bus /\ cache'[c].assoc = cache[c].assoc
               /\ cache'[c].lines = cache[c].lines
               /\ cache'[c].room = cache[c].room
    <3>0. c \in CacheIds /\ Above(l, low, c) \in CacheIds
      BY <1>2, <2>1
    <3>1. c \in CacheIds /\ cache[c] \in CacheState /\ Above(l, low, c) \in Nat
      BY <1>1, <3>0
    <3>2. cache'[c] = [cache[c] EXCEPT !.higher = Above(l, low, c)]
      BY <2>3, <3>1
    <3>. QED
      BY <3>1, <3>2 DEF CacheState
  <2>6. ASSUME NEW c \in CachesOf(l)
        PROVE  /\ cache'[c] \in CacheState
               /\ cache'[c].higher = cache[c].higher
               /\ cache'[c].lower = cache[c].lower \cup Under(l, low, c)
               /\ cache'[c].bus = cache[c].bus /\ cache'[c].assoc = cache[c].assoc
               /\ cache'[c].lines = cache[c].lines
               /\ Cardinality(cache'[c].lower) <= cache'[c].room
    <3>1. PICK under : under = Under(l, low, c)
      OBVIOUS
    <3>2. c \in CacheIds /\ c \notin Below /\ cache[c] \in CacheState
      BY <1>1, <1>2, <1>3
    <3>3. cache'[c] = WithLower(cache[c], under)
      BY <2>3, <3>1, <3>2
    <3>4. under \in SUBSET Nat /\ IsFiniteSet(under)
      <4>1. under \subseteq Below
        BY <3>1 DEF Under
      <4>2. under \subseteq CacheIds
        BY <1>2, <4>1
      <4>3. CacheIds \subseteq Nat
        BY <1>1
      <4>4. IsFiniteSet(CacheIds)
        BY <1>1, FS_Interval
      <4>. QED
        BY <4>2, <4>3, <4>4, FS_Subset
    <3>5. IsFiniteSet(cache[c].lower) /\ Cardinality(cache[c].lower) <= cache[c].room
      BY <1>1, <1>3, <3>2
    <3>6. /\ cache'[c] \in CacheState /\ cache'[c].lower = cache[c].lower \cup under
          /\ cache'[c].higher = cache[c].higher
          /\ cache'[c].bus = cache[c].bus /\ cache'[c].assoc = cache[c].assoc
          /\ cache'[c].lines = cache[c].lines
          /\ Cardinality(cache'[c].lower) <= cache'[c].room
      <4>1. PICK old : old = cache[c]
        OBVIOUS
      <4>2. /\ WithLower(old, under) \in CacheState
            /\ WithLower(old, under).lower = old.lower \cup under
            /\ WithLower(old, under).higher = old.higher
            /\ WithLower(old, under).bus = old.bus /\ WithLower(old, under).assoc = old.assoc
            /\ WithLower(old, under).lines = old.lines
            /\ Cardinality(WithLower(old, under).lower) <= WithLower(old, under).room
        BY <3>2, <3>4, <3>5, <4>1, WithLowerType
      <4>. QED
        BY <3>3, <4>1, <4>2
    <3>8. cache'[c].lower = cache[c].lower \cup Under(l, low, c)
      BY <3>1, <3>6
    <3>9. /\ cache'[c] \in CacheState /\ cache'[c].higher = cache[c].higher
          /\ cache'[c].bus = cache[c].bus /\ cache'[c].assoc = cache[c].assoc
          /\ cache'[c].lines = cache[c].lines
          /\ Cardinality(cache'[c].lower) <= cache'[c].room
      BY <3>6
    <3>. QED
      BY <3>8, <3>9
  <2>7. \A c \in CacheIds \ (Below \cup CachesOf(l)) : cache'[c] = cache[c]
    BY <2>3
  <2>8. cache' \in Seq(CacheState)
    <3>1. \A c \in CacheIds : cache'[c] \in CacheState
      BY <1>1, <2>5, <2>6, <2>7
    <3>2. cache' \in [1 .. Len(cache) -> CacheState]
      BY <1>1, <2>2, <3>1
    <3>. QED
      BY <1>1, <3>2, FunctionIsSeq
  <2>9. \A c \in CacheIds : /\ cache'[c].bus = cache[c].bus
                            /\ cache'[c].assoc = cache[c].assoc
                            /\ cache'[c].lines = cache[c].lines
                            /\ Cardinality(cache'[c].lower) <= cache'[c].room
    BY <1>1, <1>2, <2>5, <2>6, <2>7
  <2>. QED
    BY <2>4, <2>5, <2>6, <2>7, <2>8, <2>9 DEF Climbing
<1>. QED
  BY <1>5, <1>6

LEMMA AddLevelKeeps ==
  ASSUME SetupIInv, NEW l \in Open, level[l].data # <<>>, AddLevel(l)
  PROVE  SetupIInv'
<1>1. CASE result' # 0
  <2>1. UNCHANGED <<cache, given, level, hierarchy>> /\ result' \in Nat
    BY <1>1 DEF AddLevel, Failed
  <2>. QED
    BY <2>1, OnlyResult
<1>2. CASE result' = 0
  <2>a. /\ SetupTypes /\ LinksAgree /\ BusJoinsLevel /\ LevelsServed
        /\ InOrder /\ Paired /\ Apart /\ Loose /\ OnBus /\ Whole /\ LowerKnown
    BY DEF SetupIInv
  <2>0. PICK low : low = LastLevel
    OBVIOUS
  <2>n. PICK n : n = Len(hierarchy)
    OBVIOUS
  <2>ch. Climbing(l, low)
    BY <1>2, <2>0, ClimbingLevel
  <2>1. /\ level' = level /\ given' = given /\ hierarchy' = Append(hierarchy, l)
        /\ ~WrongAmount(l)
    BY <1>2 DEF AddLevel, Failed
  <2>2. /\ Placed' = Placed /\ \A m : CachesOf(m)' = CachesOf(m)
        /\ \A s : Members(s)' = Members(s)
    BY <2>1 DEF Placed, CachesOf, Members
  <2>3. /\ n \in Nat /\ DOMAIN hierarchy = 1 .. n /\ Added = 1 .. n
        /\ l = n + 1 /\ l = Len(level) /\ DOMAIN level = 1 .. n + 1
        /\ \A k \in 1 .. n : hierarchy[k] = k
    BY <2>a, <2>n, LevelNumbers
  <2>4. /\ hierarchy' \in Seq(DOMAIN level) /\ Len(hierarchy') = n + 1
        /\ DOMAIN hierarchy' = 1 .. n + 1
        /\ \A k \in 1 .. n + 1 : hierarchy'[k] = k
    <3>1. /\ hierarchy' \in Seq(DOMAIN level) /\ Len(hierarchy') = n + 1
          /\ hierarchy'[n + 1] = l
          /\ \A k \in 1 .. n : hierarchy'[k] = hierarchy[k]
      <4>1. hierarchy \in Seq(DOMAIN level) /\ l \in DOMAIN level
        BY <2>a DEF SetupTypes, Open
      <4>. QED
        BY <2>1, <2>n, <4>1, AppendProperties
    <3>2. DOMAIN hierarchy' = 1 .. n + 1
      BY <2>3, <3>1
    <3>3. \A k \in 1 .. n + 1 : k \in 1 .. n \/ k = n + 1
      BY <2>3
    <3>. QED
      BY <2>3, <3>1, <3>2, <3>3
  <2>5. Added' = 1 .. n + 1 /\ Open' = {}
    <3>1. Added' = {hierarchy'[k] : k \in DOMAIN hierarchy'}
      BY DEF Added, Members
    <3>2. Added' = 1 .. n + 1
      BY <2>4, <3>1
    <3>. QED
      BY <2>1, <2>3, <3>2 DEF Open
  <2>ap. /\ l \in DOMAIN level /\ Below \subseteq Placed /\ CachesOf(l) \subseteq Placed
         /\ Placed \subseteq CacheIds /\ Below \cap CachesOf(l) = {}
         /\ \A c \in Below : cache[c].higher = NULL
    BY BelowApart
  <2>lo. \A c \in CachesOf(l) : cache[c].higher = NULL
    BY <2>a DEF Loose
  <2>up. \A c \in Below : Above(l, low, c) \in CachesOf(l)
    <3>1. CASE hierarchy = <<>>
      BY <3>1 DEF Below
    <3>2. CASE hierarchy # <<>>
      BY <2>0, <2>1, <3>2, AboveIs DEF Supplied
    <3>. QED
      BY <3>1, <3>2
  <2>ca. /\ cache' \in Seq(CacheState) /\ CacheIds' = CacheIds
         /\ \A c \in CacheIds : /\ cache'[c].bus = cache[c].bus
                                /\ cache'[c].assoc = cache[c].assoc
                                /\ Cardinality(cache'[c].lower) <= cache'[c].room
    BY <2>ch DEF Climbing
  <2>cb. \A c \in Below : cache'[c].higher = Above(l, low, c) /\ cache'[c].lower = cache[c].lower
    BY <2>ch DEF Climbing
  <2>cl. \A c \in CachesOf(l) : /\ cache'[c].higher = cache[c].higher
                              /\ cache'[c].lower = cache[c].lower \cup Under(l, low, c)
    BY <2>ch DEF Climbing
  <2>co. \A c \in CacheIds \ (Below \cup CachesOf(l)) : /\ cache'[c].higher = cache[c].higher
                                                     /\ cache'[c].lower = cache[c].lower
    BY <2>ch DEF Climbing
  <2>6. SetupTypes'
    <3>1. \A c \in CacheIds : cache'[c].higher \in {NULL} \cup CacheIds
      BY <2>a, <2>ap, <2>up, <2>cb, <2>cl, <2>co DEF SetupTypes
    <3>2. given' \subseteq CacheIds' /\ Placed' \subseteq CacheIds' /\ result' \in Nat
      BY <1>2, <2>a, <2>1, <2>2, <2>ca DEF SetupTypes
    <3>3. level' \in Seq(CacheLevel) /\ hierarchy' \in Seq(DOMAIN level')
      BY <2>a, <2>1, <2>4 DEF SetupTypes
    <3>. QED
      BY <2>ca, <3>1, <3>2, <3>3 DEF SetupTypes
  <2>7. LinksAgree'
    <3>1. \A c, h \in CacheIds : cache'[c].higher = h <=> c \in cache'[h].lower
      <4> SUFFICES ASSUME NEW c \in CacheIds, NEW h \in CacheIds
                   PROVE  cache'[c].higher = h <=> c \in cache'[h].lower
        OBVIOUS
      <4>1. cache[c].higher = h <=> c \in cache[h].lower
        BY <2>a DEF LinksAgree
      <4>2. h # NULL
        BY <2>a DEF SetupTypes, CacheIds, NULL
      <4>3. CASE c \in Below /\ h \in CachesOf(l)
        BY <2>ap, <2>cb, <2>cl, <4>1, <4>2, <4>3 DEF Under
      <4>4. CASE c \in Below /\ h \notin CachesOf(l)
        BY <2>ap, <2>up, <2>cb, <2>co, <4>1, <4>2, <4>4
      <4>5. CASE c \notin Below /\ h \in CachesOf(l)
        BY <2>cl, <2>co, <4>1, <4>5 DEF Under
      <4>6. CASE c \notin Below /\ h \notin CachesOf(l)
        BY <2>cb, <2>cl, <2>co, <4>1, <4>6
      <4>. QED
        BY <4>3, <4>4, <4>5, <4>6
    <3>2. \A m \in DOMAIN level' :
            level'[m].bus # {} => Cardinality(level'[m].bus) <= level'[m].room
      BY <2>a, <2>1 DEF LinksAgree
    <3>. QED
      BY <2>ca, <3>1, <3>2 DEF LinksAgree
  <2>8. BusJoinsLevel'
    BY <2>a, <2>1, <2>2, <2>ca DEF BusJoinsLevel
  <2>9. InOrder'
    <3>1. Len(level') = n + 1
      BY <2>1, <2>3
    <3>. QED
      BY <2>3, <2>4, <3>1 DEF InOrder
  <2>10. Paired'
    BY <2>a, <2>1, <2>3, <2>5 DEF Paired
  <2>11. Apart'
    BY ZenonT(30), <2>a, <2>1, <2>2 DEF Apart
  <2>12. Loose'
    BY <2>5 DEF Loose
  <2>13. OnBus' /\ Whole'
    <3>1. \A c \in CacheIds : cache'[c].higher \in {NULL} \cup given
      BY <2>a, <2>ap, <2>up, <2>cb, <2>cl, <2>co DEF Whole
    <3>. QED
      BY <2>a, <2>1, <2>2, <2>ca, <3>1 DEF OnBus, Whole, SetupTypes
  <2>14. LowerKnown'
    <3>1. \A c \in CacheIds : cache'[c].lower \subseteq cache[c].lower \cup CacheIds
      BY <2>ap, <2>cb, <2>cl, <2>co DEF Under
    <3>. QED
      BY <2>a, <2>ca, <3>1 DEF LowerKnown
  <2>15. LevelsServed'
    <3> SUFFICES ASSUME NEW k \in DOMAIN hierarchy'
                 PROVE  LevelServed(k)'
      BY DEF LevelsServed
    <3>1. k \in 1 .. n + 1 /\ hierarchy'[k] = k /\ Len(hierarchy') = n + 1
      BY <2>4
    <3>2. CASE k = n + 1
      <4>1. \A c \in CachesOf(l)' : cache'[c].higher = NULL
        BY <2>2, <2>lo, <2>cl
      <4>. QED
        BY <2>3, <3>1, <3>2, <4>1 DEF LevelServed
    <3>3. CASE k = n
      <4>1. k \in 1 .. n /\ hierarchy # <<>> /\ hierarchy[k] = n /\ hierarchy'[k + 1] = l
            /\ n \in DOMAIN level
        BY <2>a, <2>n, <2>3, <2>4, <3>1, <3>3, EmptySeq DEF SetupTypes
      <4>2. low = level[n] /\ Below = CachesOf(n)
        BY <2>0, <2>n, <3>3, <4>1 DEF LastLevel, Below
      <4>3. PICK high : high = level[l]
        OBVIOUS
      <4>4. /\ \A i \in DOMAIN low.data :
                 Above(l, low, low.data[i]) = high.data[IF Len(high.data) = 1 THEN 1 ELSE i]
            /\ \A i \in DOMAIN low.instr :
                 Above(l, low, low.instr[i]) =
                   (IF high.hasInstr THEN high.instr ELSE high.data)
                     [IF Len(high.data) = 1 THEN 1 ELSE i]
            /\ \A h \in Members(high.data) : \E c \in Below : Above(l, low, c) = h
        <5>1. l \in Open /\ hierarchy # <<>> /\ level[l].data # <<>> /\ ~WrongAmount(l)
          BY <2>1, <4>1
        <5>2. low = LastLevel /\ high = level[l]
          BY <2>0, <4>3
        <5>3. Supplied(l, low, high)
          BY <5>1, <5>2, AboveIs
        <5>. QED
          BY <5>3 DEF Supplied
      <4>5. /\ \A i \in DOMAIN low.data : low.data[i] \in Below
            /\ \A i \in DOMAIN low.instr : low.instr[i] \in Below
            /\ Members(high.data) \subseteq CachesOf(l)
        BY <4>2, <4>3 DEF CachesOf, Members
      <4>6. \A h \in Members(high.data) : cache'[h].lower # {}
        BY <2>cl, <4>4, <4>5 DEF Under
      <4>7. /\ \A i \in DOMAIN low.data :
                 cache'[low.data[i]].higher = high.data[IF Len(high.data) = 1 THEN 1 ELSE i]
            /\ \A i \in DOMAIN low.instr :
                 cache'[low.instr[i]].higher =
                   (IF high.hasInstr THEN high.instr ELSE high.data)
                     [IF Len(high.data) = 1 THEN 1 ELSE i]
        BY <2>cb, <4>4, <4>5
      <4>8. /\ level'[hierarchy'[k]] = low /\ level'[hierarchy'[k + 1]] = high
            /\ k # Len(hierarchy') /\ Members(high.data)' = Members(high.data)
        <5>1. k # Len(hierarchy')
          BY <2>3, <2>4, <3>3
        <5>. QED
          BY <2>1, <2>2, <3>1, <3>3, <4>1, <4>2, <4>3, <5>1
      <4>. QED
        BY <4>6, <4>7, <4>8 DEF LevelServed, Members
    <3>4. CASE k # n /\ k # n + 1
      <4>1. /\ k \in 1 .. n /\ k + 1 \in 1 .. n /\ n \in 1 .. n
            /\ k # Len(hierarchy) /\ k # Len(hierarchy')
            /\ hierarchy'[k] = hierarchy[k] /\ hierarchy'[k + 1] = hierarchy[k + 1]
        BY SMTT(30), <2>n, <2>3, <2>4, <3>1, <3>4
      <4>2. /\ hierarchy[k] = k /\ hierarchy[k + 1] = k + 1 /\ hierarchy[n] = n
            /\ k \in DOMAIN level /\ k + 1 \in DOMAIN level /\ n \in DOMAIN level
            /\ l # k /\ l # k + 1
        BY <2>3, <4>1
      <4>3. LevelServed(k)
        BY <2>a, <2>3, <4>1 DEF LevelsServed
      <4>4. /\ \A c \in CachesOf(k) : c \notin CachesOf(l) /\ c \notin Below
            /\ \A c \in CachesOf(k + 1) : c \notin CachesOf(l)
            /\ CachesOf(k) \subseteq CacheIds /\ CachesOf(k + 1) \subseteq CacheIds
        <5>1. Below = CachesOf(n)
          BY <2>a, <2>n, <2>3, <4>1, <4>2, EmptySeq DEF Below, SetupTypes
        <5>2. \A m \in DOMAIN level : CachesOf(m) \subseteq CacheIds
          BY <2>ap DEF Placed
        <5>. QED
          BY <2>a, <2>ap, <3>4, <4>2, <5>1, <5>2 DEF Apart
      <4>5. /\ \A c \in CachesOf(k) : cache'[c].higher = cache[c].higher
            /\ \A c \in CachesOf(k + 1) : cache'[c].lower = cache[c].lower
        BY <2>cb, <2>co, <4>4
      <4>6. PICK under : under = level[k]
        OBVIOUS
      <4>7. PICK high : high = level[k + 1]
        OBVIOUS
      <4>8. /\ \A i \in DOMAIN under.data : under.data[i] \in CachesOf(k)
            /\ \A i \in DOMAIN under.instr : under.instr[i] \in CachesOf(k)
            /\ Members(high.data) \subseteq CachesOf(k + 1)
        BY <4>6, <4>7 DEF CachesOf, Members
      <4>9. /\ level'[hierarchy'[k]] = under /\ level'[hierarchy'[k + 1]] = high
            /\ level[hierarchy[k]] = under /\ level[hierarchy[k + 1]] = high
        BY <2>1, <4>1, <4>2, <4>6, <4>7
      <4>10. /\ \A h \in Members(high.data) : cache'[h].lower # {}
             /\ \A i \in DOMAIN under.data :
                  cache'[under.data[i]].higher = high.data[IF Len(high.data) = 1 THEN 1 ELSE i]
             /\ \A i \in DOMAIN under.instr :
                  cache'[under.instr[i]].higher =
                    (IF high.hasInstr THEN high.instr ELSE high.data)
                      [IF Len(high.data) = 1 THEN 1 ELSE i]
        BY <4>1, <4>3, <4>5, <4>8, <4>9 DEF LevelServed
      <4>. QED
        BY <4>1, <4>9, <4>10 DEF LevelServed, Members
    <3>. QED
      BY <3>2, <3>3, <3>4
  <2>. QED
    BY <2>6, <2>7, <2>8, <2>9, <2>10, <2>11, <2>12, <2>13, <2>14, <2>15 DEF SetupIInv
<1>. QED
  BY <1>1, <1>2

--------------------------------------------------------------------------------
(* The callers. *)

\* Every set of numbers that is not empty has a first.
LEMMA FirstOfIn ==
  ASSUME NEW S \in SUBSET Nat, S # {}
  PROVE  FirstOf(S) \in S
<1>1. PICK x \in S : \A y \in S : ~(<<y, x>> \in OpToRel(<, Nat))
  BY NatLessThanWellFounded, WFMin
<1>2. \A y \in S : ~(y < x)
  BY <1>1 DEF OpToRel
<1>3. \A y \in S : x <= y
  BY <1>2
<1>. QED
  BY <1>3 DEF FirstOf

\* A new cache is alone with itself in a sequence, and with a second one if there is one.
LEMMA AddFreshKeeps ==
  ASSUME SetupIInv, NEW l \in Open, NEW d \in Fresh,
         NEW instr \in {<<>>} \cup {<<i>> : i \in Fresh \ {d}}, AddCachesToLevel(l, <<d>>, instr)
  PROVE  SetupIInv'
<1>1. Fresh \subseteq Nat
  <2>1. given \subseteq CacheIds /\ CacheIds \subseteq Nat
    BY DEF SetupIInv, SetupTypes, CacheIds
  <2>. QED
    BY <2>1 DEF Fresh
<1>2. <<d>> \in Seq(Nat) /\ Len(<<d>>) = 1 /\ Members(<<d>>) = {d}
  BY <1>1 DEF Members
<1>3. /\ instr \in Seq(Nat) /\ Len(instr) <= 1
      /\ Members(instr) \subseteq Fresh /\ d \notin Members(instr)
  <2>1. CASE instr = <<>>
    BY <2>1 DEF Members
  <2>2. CASE instr # <<>>
    <3>1. PICK i \in Fresh \ {d} : instr = <<i>>
      BY <2>2
    <3>. QED
      BY <1>1, <3>1 DEF Members
  <2>. QED
    BY <2>1, <2>2
<1>. QED
  BY <1>2, <1>3, AddCachesKeeps

LEMMA TestCallKeeps ==
  ASSUME SetupIInv, TestCall
  PROVE  SetupIInv' /\ plan' = plan
<1>1. ASSUME NEW high \in {NULL} \cup given, NEW g \in Geometries,
             SetupCacheState(high, g)
      PROVE  SetupIInv' /\ plan' = plan
  <2>1. g \in AnyGeometry
    BY SetupAssumption
  <2>. QED
    BY <1>1, <2>1, SetupCacheStateKeeps DEF SetupCacheState
<1>2. ASSUME Open = {}, NEW max \in {1, AmountCpus + 1}, NEW hasInstr \in BOOLEAN,
             InitCacheLevel(max, hasInstr)
      PROVE  SetupIInv' /\ plan' = plan
  <2>1. max \in Nat
    BY SetupAssumption
  <2>. QED
    BY <1>2, <2>1, InitCacheLevelKeeps DEF InitCacheLevel
<1>3. ASSUME Fresh # {}, NEW l \in Open,
             NEW instr \in {<<>>} \cup {<<i>> : i \in Fresh \ {FirstOf(Fresh)}},
             AddCachesToLevel(l, <<FirstOf(Fresh)>>, instr)
      PROVE  SetupIInv' /\ plan' = plan
  <2>1. PICK d : d = FirstOf(Fresh)
    OBVIOUS
  <2>2. d \in Fresh
    <3>1. Fresh \in SUBSET Nat
      BY DEF Fresh, SetupIInv, SetupTypes, CacheIds
    <3>. QED
      BY <1>3, <2>1, <3>1, FirstOfIn
  <2>3. plan' = plan
    BY <1>3 DEF AddCachesToLevel, Failed
  <2>. QED
    BY <1>3, <2>1, <2>2, <2>3, AddFreshKeeps
<1>4. ASSUME NEW l \in Open, level[l].data # <<>>, AddLevel(l)
      PROVE  SetupIInv' /\ plan' = plan
  BY <1>4, AddLevelKeeps DEF AddLevel, Failed
<1>. QED
  BY <1>1, <1>2, <1>3, <1>4 DEF TestCall

LEMMA PlanCallKeeps ==
  ASSUME SetupIInv, plan \in Seq(PlannedLevel), PlanCall
  PROVE  SetupIInv' /\ plan' = plan
<1>1. Stage \in PlannedLevel /\ Wanted \in Nat \ {0} /\ PerCall \in {1, 2}
  <2>1. /\ Len(hierarchy) \in Nat /\ Len(plan) \in Nat /\ DOMAIN plan = 1 .. Len(plan)
        /\ Len(hierarchy) < Len(plan)
    BY DEF SetupIInv, SetupTypes, PlanCall
  <2>2. Stage \in PlannedLevel
    BY <2>1 DEF Stage
  <2>. QED
    BY <2>2, SetupAssumption DEF Wanted, PerCall
<1>2. Stage.hasInstr \in BOOLEAN /\ Stage.geometry \in AnyGeometry
  BY <1>1 DEF PlannedLevel
<1>3. ASSUME Open = {}, InitCacheLevel(AmountCpus, Stage.hasInstr)
      PROVE  SetupIInv' /\ plan' = plan
  <2>1. PICK hasInstr \in BOOLEAN : hasInstr = Stage.hasInstr
    BY <1>2
  <2>2. AmountCpus \in Nat
    BY SetupAssumption
  <2>. QED
    BY <1>3, <2>1, <2>2, InitCacheLevelKeeps DEF InitCacheLevel
<1>4. ASSUME SetupCacheState(NULL, Stage.geometry)
      PROVE  SetupIInv' /\ plan' = plan
  <2>1. PICK g \in AnyGeometry : g = Stage.geometry
    BY <1>2
  <2>. QED
    BY <1>4, <2>1, SetupCacheStateKeeps DEF SetupCacheState
<1>5. ASSUME NEW l \in Open, Cardinality(Fresh) = PerCall,
             AddCachesToLevel(l, <<FirstOf(Fresh)>>,
               IF Stage.hasInstr THEN <<FirstOf(Fresh \ {FirstOf(Fresh)})>> ELSE <<>>)
      PROVE  SetupIInv' /\ plan' = plan
  <2>1. PICK d : d = FirstOf(Fresh)
    OBVIOUS
  <2>2. PICK instr : instr = IF Stage.hasInstr THEN <<FirstOf(Fresh \ {d})>> ELSE <<>>
    OBVIOUS
  <2>3. Fresh \in SUBSET Nat /\ IsFiniteSet(Fresh)
    <3>1. CacheIds = 1 .. Len(cache) /\ Len(cache) \in Nat /\ Fresh \subseteq CacheIds
      BY DEF Fresh, SetupIInv, SetupTypes, CacheIds
    <3>2. CacheIds \subseteq Nat /\ IsFiniteSet(CacheIds)
      BY <3>1, FS_Interval
    <3>. QED
      BY <3>1, <3>2, FS_Subset
  <2>4. d \in Fresh
    <3>1. Fresh # {}
      BY <1>1, <1>5, FS_EmptySet
    <3>. QED
      BY <2>1, <2>3, <3>1, FirstOfIn
  <2>5. instr \in {<<>>} \cup {<<i>> : i \in Fresh \ {d}}
    <3>1. CASE Stage.hasInstr
      <4>1. Cardinality(Fresh) = 2
        BY <1>5, <3>1 DEF PerCall
      <4>2. Cardinality(Fresh \ {d}) = 1
        <5>1. Cardinality(Fresh \ {d}) = Cardinality(Fresh) - 1
          BY <2>3, <2>4, FS_RemoveElement
        <5>. QED
          BY <4>1, <5>1
      <4>3. Fresh \ {d} # {} /\ Fresh \ {d} \in SUBSET Nat
        <5>1. Cardinality({}) = 0
          BY FS_EmptySet
        <5>2. Fresh \ {d} # {}
          <6>1. Cardinality(Fresh \ {d}) # Cardinality({})
            BY <4>2, <5>1
          <6>. QED
            BY <6>1, Zenon
        <5>. QED
          BY <2>3, <5>2
      <4>4. FirstOf(Fresh \ {d}) \in Fresh \ {d}
        BY <4>3, FirstOfIn
      <4>. QED
        BY <2>2, <3>1, <4>4
    <3>2. CASE ~Stage.hasInstr
      BY <2>2, <3>2
    <3>. QED
      BY <3>1, <3>2
  <2>6. AddCachesToLevel(l, <<d>>, instr)
    BY <1>5, <2>1, <2>2
  <2>7. plan' = plan
    BY <2>6 DEF AddCachesToLevel, Failed
  <2>. QED
    BY <2>4, <2>5, <2>6, <2>7, AddFreshKeeps
<1>6. ASSUME NEW l \in Open, Len(level[l].data) = Wanted, AddLevel(l)
      PROVE  SetupIInv' /\ plan' = plan
  <2>1. level[l].data # <<>>
    BY <1>1, <1>6
  <2>. QED
    BY <1>6, <2>1, AddLevelKeeps DEF AddLevel, Failed
<1>. QED
  BY <1>3, <1>4, <1>5, <1>6 DEF PlanCall

\* A whole part is not larger than the whole.
LEMMA PartOfNumber ==
  ASSUME NEW n \in Nat, NEW d \in Nat \ {0}
  PROVE  n \div d \in Nat /\ n \div d <= n
<1>1. PICK q \in Nat, r \in 0 .. d - 1 : q = n \div d /\ n = d * q + r
  OBVIOUS
<1>2. q <= d * q
  OBVIOUS
<1>. QED
  BY <1>1, <1>2

\* A simulator goes on to follow its plan.
LEMMA PlanCallFollows ==
  ASSUME SetupIInv, PlanFollowed, PlanCall, program' = program
  PROVE  PlanFollowed'
<1>1. /\ plan # <<>> /\ plan \in Seq(PlannedLevel) /\ plan' = plan
      /\ Stage \in PlannedLevel /\ Wanted \in {1, AmountCpus}
  <2>1. /\ Len(hierarchy) \in Nat /\ Len(plan) \in Nat /\ DOMAIN plan = 1 .. Len(plan)
        /\ Len(hierarchy) < Len(plan) /\ plan \in Seq(PlannedLevel)
    BY DEF SetupIInv, SetupTypes, PlanCall, PlanFollowed
  <2>2. Stage \in PlannedLevel /\ plan # <<>>
    BY <2>1 DEF Stage
  <2>3. plan' = plan
    BY PlanCallKeeps, <2>1
  <2>. QED
    BY <2>1, <2>2, <2>3 DEF Wanted
<1>2. /\ \A l \in Added : l \in DOMAIN level /\ Len(level[l].data) \in {1, AmountCpus}
      /\ \A c \in CacheIds : cache[c].assoc \in 1 .. cache[c].lines
      /\ level \in Seq(CacheLevel) /\ hierarchy \in Seq(DOMAIN level)
  <2>1. level \in Seq(CacheLevel) /\ hierarchy \in Seq(DOMAIN level) /\ Added \subseteq DOMAIN level
    BY LevelNumbers DEF SetupIInv, SetupTypes
  <2>2. /\ \A l \in Added : Len(level[l].data) \in {1, AmountCpus}
        /\ \A c \in CacheIds : cache[c].assoc \in 1 .. cache[c].lines
    BY <1>1, Zenon DEF PlanFollowed
  <2>. QED
    BY <2>1, <2>2
<1>3. SUFFICES /\ \A l \in Added' : Len(level'[l].data) \in {1, AmountCpus}
               /\ \A c \in CacheIds' : cache'[c].assoc \in 1 .. cache'[c].lines
  BY <1>1 DEF PlanFollowed
<1>4. ASSUME InitCacheLevel(AmountCpus, Stage.hasInstr)
      PROVE  /\ \A l \in Added' : Len(level'[l].data) \in {1, AmountCpus}
             /\ \A c \in CacheIds' : cache'[c].assoc \in 1 .. cache'[c].lines
  <2>1. CacheIds' = CacheIds /\ cache' = cache /\ Added' = Added
    BY <1>4 DEF InitCacheLevel, CacheIds, Added, Members
  <2>2. \A l \in DOMAIN level : level'[l] = level[l]
    BY <1>2, <1>4, AppendProperties DEF InitCacheLevel
  <2>. QED
    BY <1>2, <2>1, <2>2
<1>5. ASSUME SetupCacheState(NULL, Stage.geometry)
      PROVE  /\ \A l \in Added' : Len(level'[l].data) \in {1, AmountCpus}
             /\ \A c \in CacheIds' : cache'[c].assoc \in 1 .. cache'[c].lines
  <2>1. PICK g \in AnyGeometry : g = Stage.geometry /\ g.assoc \in 1 .. g.size \div g.line
    BY <1>1 DEF PlannedLevel
  <2>2. Added' = Added /\ level' = level /\ Fits(NULL, g)
    BY <1>5 DEF SetupCacheState, Added, Members, Fits
  <2>3. g.size \in Nat \ {0} /\ g.line \in Nat \ {0} /\ g.assoc \in Nat
    BY DEF AnyGeometry
  <2>4. Associative(g)
    BY <2>1, <2>3, PartOfNumber DEF Associative
  <2>5. /\ CacheIds' = CacheIds \cup {NewId} /\ cache'[NewId] = Made(NULL, g)
        /\ \A c \in CacheIds : cache'[c].assoc = cache[c].assoc /\ cache'[c].lines = cache[c].lines
    BY <1>5, <2>1, <2>2, NewCache
  <2>6. cache'[NewId].assoc \in 1 .. cache'[NewId].lines
    BY <2>1, <2>4, <2>5 DEF Made
  <2>. QED
    BY <1>2, <2>2, <2>5, <2>6
<1>6. ASSUME NEW l \in Open, NEW d, NEW instr, AddCachesToLevel(l, <<d>>, instr)
      PROVE  /\ \A m \in Added' : Len(level'[m].data) \in {1, AmountCpus}
             /\ \A c \in CacheIds' : cache'[c].assoc \in 1 .. cache'[c].lines
  <2>1. l \notin Added /\ hierarchy' = hierarchy /\ Added' = Added
    BY <1>6 DEF Open, AddCachesToLevel, Failed, Added, Members
  <2>2. \A m \in DOMAIN level : m # l => level'[m] = level[m]
    BY <1>6 DEF AddCachesToLevel, Failed
  <2>3. /\ CacheIds' = CacheIds
        /\ \A c \in CacheIds : cache'[c].assoc = cache[c].assoc /\ cache'[c].lines = cache[c].lines
    <3>1. CASE cache' = cache
      BY <3>1 DEF CacheIds
    <3>2. CASE cache' = [c \in CacheIds |->
                 IF c \in Joining(l, <<d>>, instr) THEN [cache[c] EXCEPT !.bus = l] ELSE cache[c]]
      <4>1. \A c \in CacheIds : cache[c] \in CacheState
        BY DEF SetupIInv, SetupTypes, CacheIds
      <4>. QED
        BY <3>2, <4>1 DEF CacheIds, CacheState
    <3>. QED
      BY <1>6, <3>1, <3>2 DEF AddCachesToLevel, Failed
  <2>. QED
    BY <1>2, <2>1, <2>2, <2>3
<1>7. ASSUME NEW l \in Open, Len(level[l].data) = Wanted, AddLevel(l)
      PROVE  /\ \A m \in Added' : Len(level'[m].data) \in {1, AmountCpus}
             /\ \A c \in CacheIds' : cache'[c].assoc \in 1 .. cache'[c].lines
  <2>1. CASE result' # 0
    <3>1. UNCHANGED <<cache, level, hierarchy>>
      BY <1>7, <2>1 DEF AddLevel, Failed
    <3>. QED
      BY <1>2, <3>1 DEF Added, Members, CacheIds
  <2>2. CASE result' = 0
    <3>1. level' = level /\ hierarchy' = Append(hierarchy, l)
      BY <1>7, <2>2 DEF AddLevel, Failed
    <3>2. \A m \in Added' : m \in Added \/ m = l
      <4>1. /\ Len(hierarchy') = Len(hierarchy) + 1 /\ hierarchy'[Len(hierarchy) + 1] = l
            /\ \A k \in 1 .. Len(hierarchy) : hierarchy'[k] = hierarchy[k]
            /\ DOMAIN hierarchy' = 1 .. Len(hierarchy) + 1 /\ Len(hierarchy) \in Nat
            /\ DOMAIN hierarchy = 1 .. Len(hierarchy)
        BY <1>2, <3>1, AppendProperties DEF Open
      <4>. QED
        BY <4>1 DEF Added, Members
    <3>3. PICK low : low = LastLevel
      OBVIOUS
    <3>4. level[l].data # <<>>
      <4>1. level[l] \in CacheLevel
        BY <1>2 DEF Open
      <4>s. level[l].data \in Seq(Nat)
        BY <4>1 DEF CacheLevel
      <4>2. Len(level[l].data) # 0
        BY <1>1, <1>7, SetupAssumption
      <4>. QED
        BY <4>s, <4>2
    <3>5. Climbing(l, low)
      BY <1>7, <2>2, <3>3, <3>4, ClimbingLevel
    <3>. QED
      BY <1>1, <1>2, <1>7, <3>1, <3>2, <3>5 DEF Climbing
  <2>. QED
    BY <2>1, <2>2
<1>. QED
  BY <1>4, <1>5, <1>6, <1>7 DEF PlanCall

\* The caches of the added levels, which are numbered from 1, are apart.
LEMMA LevelOfIs ==
  ASSUME SetupIInv, NEW c \in InUse
  PROVE  /\ LevelOf(c) \in DOMAIN hierarchy /\ c \in CachesOf(LevelOf(c))
         /\ \A l \in DOMAIN level : c \in CachesOf(l) => l = LevelOf(c)
<1>1. /\ \A k \in DOMAIN hierarchy : hierarchy[k] = k
      /\ \A k \in DOMAIN hierarchy : hierarchy[k] \in DOMAIN level
  BY DEF SetupIInv, SetupTypes, InOrder
<1>2. PICK l \in Added : c \in CachesOf(l)
  BY DEF InUse
<1>3. \E k \in DOMAIN hierarchy : c \in CachesOf(hierarchy[k])
  BY <1>2 DEF Added, Members
<1>4. LevelOf(c) \in DOMAIN hierarchy /\ c \in CachesOf(hierarchy[LevelOf(c)])
  BY <1>3 DEF LevelOf
<1>5. \A i, j \in DOMAIN level : i # j => CachesOf(i) \cap CachesOf(j) = {}
  BY DEF SetupIInv, Apart
<1>. QED
  BY <1>1, <1>4, <1>5

\* Where a cache asks on a miss: nowhere in the last level, in the next level otherwise.
LEMMA HigherIsNext ==
  ASSUME SetupIInv, PlanFollowed, plan # <<>>, NEW k \in DOMAIN hierarchy, NEW c \in CachesOf(k)
  PROVE  /\ k = Len(hierarchy) => cache[c].higher = NULL
         /\ k # Len(hierarchy) => /\ k + 1 \in DOMAIN hierarchy
                                  /\ cache[c].higher \in CachesOf(k + 1)
<1>1. PICK n \in Nat : n = Len(hierarchy) /\ DOMAIN hierarchy = 1 .. n /\ Added = 1 .. n
  BY LevelNumbers DEF SetupIInv
<1>2. \A l \in 1 .. n : hierarchy[l] = l /\ l \in DOMAIN level
  BY <1>1, LevelNumbers DEF SetupIInv
<1>3. LevelServed(k)
  BY DEF SetupIInv, LevelsServed
<1>4. CASE k = n
  BY <1>1, <1>2, <1>3, <1>4 DEF LevelServed
<1>5. CASE k # n
  <2>1. k \in 1 .. n /\ k + 1 \in 1 .. n
    BY <1>1, <1>5
  <2>2. PICK low, high : low = level[k] /\ high = level[k + 1]
    OBVIOUS
  <2>3. /\ \A i \in DOMAIN low.data :
             cache[low.data[i]].higher = high.data[IF Len(high.data) = 1 THEN 1 ELSE i]
        /\ \A i \in DOMAIN low.instr :
             cache[low.instr[i]].higher =
               (IF high.hasInstr THEN high.instr ELSE high.data)[IF Len(high.data) = 1 THEN 1 ELSE i]
    BY <1>1, <1>2, <1>3, <1>5, <2>1, <2>2 DEF LevelServed
  <2>4. low \in CacheLevel /\ high \in CacheLevel
    BY <1>2, <2>1, <2>2 DEF SetupIInv, SetupTypes
  <2>5. /\ low.data \in Seq(Nat) /\ low.instr \in Seq(Nat) /\ high.data \in Seq(Nat)
        /\ high.instr \in Seq(Nat) /\ high.hasInstr \in BOOLEAN /\ low.hasInstr \in BOOLEAN
    BY <2>4 DEF CacheLevel
  <2>6. Len(low.data) \in {1, AmountCpus} /\ Len(high.data) \in {1, AmountCpus}
    BY <1>1, <2>1, <2>2 DEF PlanFollowed
  <2>7. /\ low.hasInstr => Len(low.instr) = Len(low.data)
        /\ ~low.hasInstr => low.instr = <<>>
        /\ high.hasInstr => Len(high.instr) = Len(high.data)
    BY <1>2, <2>1, <2>2 DEF SetupIInv, Paired
  <2>8. AmountCpus \in Nat \ {0}
    BY SetupAssumption
  <2>9. PICK a \in Nat, b \in Nat : /\ a = Len(low.data) /\ b = Len(high.data)
                                    /\ DOMAIN low.data = 1 .. a /\ DOMAIN high.data = 1 .. b
    BY <2>5
  <2>10. \A i \in 1 .. a : (IF b = 1 THEN 1 ELSE i) \in 1 .. b
    <3>1. PICK m \in Nat : m = AmountCpus /\ m # 0
      BY <2>8
    <3>2. (a = 1 \/ a = m) /\ (b = 1 \/ b = m)
      BY <2>6, <2>9, <3>1
    <3>3. b # 0 /\ (b # 1 => a <= b)
      BY <3>1, <3>2
    <3>. QED
      BY <3>3
  <2>11. DOMAIN low.instr \subseteq 1 .. a /\ (high.hasInstr => DOMAIN high.instr = 1 .. b)
    BY <2>5, <2>7, <2>9
  <2>12. CASE c \in Members(low.data)
    <3>1. PICK i \in 1 .. a : c = low.data[i]
      BY <2>9, <2>12 DEF Members
    <3>2. cache[c].higher = high.data[IF b = 1 THEN 1 ELSE i]
      BY <2>3, <2>9, <3>1
    <3>3. cache[c].higher \in Members(high.data)
      BY <2>9, <2>10, <3>1, <3>2 DEF Members
    <3>. QED
      BY <1>1, <2>1, <2>2, <3>3 DEF CachesOf
  <2>13. CASE c \in Members(low.instr)
    <3>1. PICK i \in DOMAIN low.instr : c = low.instr[i]
      BY <2>13 DEF Members
    <3>2. PICK j : j = IF b = 1 THEN 1 ELSE i
      OBVIOUS
    <3>3. /\ cache[c].higher = (IF high.hasInstr THEN high.instr ELSE high.data)[j]
          /\ j \in 1 .. b
      BY <2>3, <2>9, <2>10, <2>11, <3>1, <3>2
    <3>4. cache[c].higher \in Members(high.data) \cup Members(high.instr)
      BY <2>5, <2>9, <2>11, <3>3 DEF Members
    <3>. QED
      BY <1>1, <2>1, <2>2, <3>4 DEF CachesOf
  <2>. QED
    BY <1>1, <1>5, <2>2, <2>12, <2>13 DEF CachesOf
<1>. QED
  BY <1>1, <1>4, <1>5

\* Wherever a processor's access goes to, there is a cache of the first level.
LEMMA EntryIsFirst ==
  ASSUME SetupIInv, PlanFollowed, plan # <<>>, hierarchy # <<>>,
         NEW cpu \in 0 .. AmountCpus - 1, NEW fetch \in BOOLEAN
  PROVE  EntryCache(cpu, fetch) \in InUse
<1>1. 1 \in Added /\ hierarchy[1] = 1 /\ 1 \in DOMAIN level
  <2>1. Len(hierarchy) # 0
    BY EmptySeq DEF SetupIInv, SetupTypes
  <2>. QED
    BY <2>1, LevelNumbers DEF SetupIInv
<1>2. PICK first : first = level[1]
  OBVIOUS
<1>3. first \in CacheLevel
  BY <1>1, <1>2 DEF SetupIInv, SetupTypes
<1>4. first.data \in Seq(Nat) /\ first.instr \in Seq(Nat) /\ first.hasInstr \in BOOLEAN
  BY <1>3 DEF CacheLevel
<1>5. Len(first.data) \in {1, AmountCpus} /\ AmountCpus \in Nat \ {0}
  BY <1>1, <1>2, SetupAssumption DEF PlanFollowed
<1>6. first.hasInstr => Len(first.instr) = Len(first.data)
  BY <1>1, <1>2 DEF SetupIInv, Paired
<1>7. PICK i : i = EntryIndex(first, cpu)
  OBVIOUS
<1>8. i \in DOMAIN first.data /\ (first.hasInstr => i \in DOMAIN first.instr)
  BY <1>4, <1>5, <1>6, <1>7 DEF EntryIndex
<1>9. EntryCache(cpu, fetch) \in Members(first.data) \cup Members(first.instr)
  BY <1>1, <1>2, <1>7, <1>8 DEF EntryCache, Members
<1>. QED
  BY <1>1, <1>2, <1>9 DEF InUse, CachesOf

LEMMA Climbable ==
  ASSUME SetupIInv, PlanFollowed
  PROVE  BuiltIsClimbable
<1> SUFFICES ASSUME plan # <<>>, hierarchy # <<>>
             PROVE  Climbed!IsTopology /\ Climbed!IsGeometry
  BY DEF BuiltIsClimbable
<1>1. /\ DOMAIN hierarchy \subseteq Nat /\ Len(hierarchy) \in Nat
      /\ \A k \in DOMAIN hierarchy : k \in DOMAIN level /\ k \in Added
      /\ CacheIds = 1 .. Len(cache) /\ Len(cache) \in Nat
      /\ \A c \in CacheIds : cache[c] \in CacheState
  BY LevelNumbers DEF SetupIInv, SetupTypes, CacheIds
<1>2. InUse \subseteq CacheIds
  <2>1. Added \subseteq DOMAIN level /\ Placed \subseteq CacheIds
    BY LevelNumbers DEF SetupIInv, SetupTypes
  <2>. QED
    BY <2>1 DEF InUse, Placed
<1>3. NULL \notin InUse
  BY <1>1, <1>2 DEF NULL
<1>4. \A c \in InUse : LevelOf(c) \in DOMAIN hierarchy /\ c \in CachesOf(LevelOf(c))
  BY LevelOfIs
<1>5. ASSUME NEW c \in InUse
      PROVE  /\ cache[c].higher \in InUse \cup {NULL}
             /\ cache[c].higher \in InUse => LevelOf(cache[c].higher) > LevelOf(c)
  <2>1. PICK k \in DOMAIN hierarchy : k = LevelOf(c) /\ c \in CachesOf(k)
    BY <1>4, <1>5
  <2>2. PICK h : h = cache[c].higher
    OBVIOUS
  <2>3. CASE k = Len(hierarchy)
    BY <1>3, <2>1, <2>3, HigherIsNext
  <2>4. CASE k # Len(hierarchy)
    <3>1. k + 1 \in DOMAIN hierarchy /\ h \in CachesOf(k + 1)
      BY <2>1, <2>2, <2>4, HigherIsNext
    <3>2. h \in InUse
      BY <1>1, <3>1 DEF InUse
    <3>3. LevelOf(h) = k + 1
      BY <1>1, <3>1, <3>2, LevelOfIs
    <3>. QED
      BY <1>1, <2>1, <2>2, <3>2, <3>3
  <2>. QED
    BY <2>3, <2>4
<1>6. ASSUME NEW c \in InUse, NEW d \in InUse, cache[c].bus # Garbage, cache[c].bus = cache[d].bus
      PROVE  LevelOf(c) = LevelOf(d)
  <2>1. PICK l \in DOMAIN level : l = cache[c].bus /\ l = cache[d].bus
    BY <1>2, <1>6 DEF SetupIInv, OnBus
  <2>2. c \in level[l].bus /\ d \in level[l].bus
    BY <1>2, <2>1 DEF SetupIInv, BusJoinsLevel
  <2>3. c \in CachesOf(l) /\ d \in CachesOf(l)
    BY <2>2 DEF SetupIInv, BusJoinsLevel
  <2>. QED
    BY <2>3, LevelOfIs
<1>7. Climbed!IsTopology
  <2>1. \A p \in 0 .. AmountCpus - 1 : EntryCache(p, FALSE) \in InUse /\ EntryCache(p, TRUE) \in InUse
    BY EntryIsFirst
  <2>. QED
    BY <1>1, <1>3, <1>4, <1>5, <1>6, <2>1 DEF Climbed!IsTopology
<1>8. Climbed!IsGeometry
  <2>1. \A c \in InUse : cache[c].lines \in Nat /\ cache[c].assoc \in 1 .. cache[c].lines
    BY <1>1, <1>2 DEF PlanFollowed, CacheState
  <2>. QED
    BY <2>1 DEF Climbed!IsGeometry
<1>. QED
  BY <1>7, <1>8

--------------------------------------------------------------------------------
(* The programs. *)

LEMMA SetupInitHolds ==
  ASSUME Init
  PROVE  SetupIInv /\ PlanFollowed
<1>1. cache = <<>> /\ given = {} /\ level = <<>> /\ hierarchy = <<>> /\ result = 0
  BY DEF Init, SetupInit
<1>2. PICK f \in Inputs : program = f.program /\ plan = Plan[f.program]
  BY DEF Init, StartupInit
<1>3. CacheIds = {} /\ DOMAIN level = {} /\ DOMAIN hierarchy = {} /\ Open = {}
  BY <1>1 DEF CacheIds, Open
<1>4. Placed = {}
  BY <1>3 DEF Placed
<1>5. SetupTypes
  BY <1>1, <1>3, <1>4, EmptySeq DEF SetupTypes
<1>6. LinksAgree /\ BusJoinsLevel /\ LevelsServed
  BY <1>3 DEF LinksAgree, BusJoinsLevel, LevelsServed
<1>7. InOrder
  BY <1>1, <1>3, EmptySeq DEF InOrder
<1>8. Paired /\ Apart /\ Loose /\ OnBus /\ Whole /\ LowerKnown
  BY <1>1, <1>3, <1>4 DEF Paired, Apart, Loose, OnBus, Whole, LowerKnown
<1>9. plan \in Seq(PlannedLevel) /\ (program = "tests" => plan = <<>>)
  BY <1>2, ProgramsAssumption
<1>10. PlanFollowed
  BY <1>3, <1>9 DEF PlanFollowed, Added, Members
<1>. QED
  BY <1>5, <1>6, <1>7, <1>8, <1>10 DEF SetupIInv

LEMMA SetupStepKeeps ==
  ASSUME SetupIInv, PlanFollowed, [Next]_vars
  PROVE  SetupIInv' /\ PlanFollowed'
<1>1. CASE Test
  <2>1. SetupIInv' /\ plan' = plan
    BY <1>1, TestCallKeeps DEF Test
  <2>2. program = "tests" /\ program' = program
    BY <1>1 DEF Test, startupVars
  <2>3. plan = <<>> /\ plan \in Seq(PlannedLevel)
    BY <2>2 DEF PlanFollowed
  <2>. QED
    BY <2>1, <2>2, <2>3 DEF PlanFollowed
<1>2. CASE SetUpCaches
  <2>1. PlanCall /\ program' = program /\ plan \in Seq(PlannedLevel)
    BY <1>2 DEF SetUpCaches, startupVars, PlanFollowed
  <2>2. SetupIInv'
    BY <2>1, PlanCallKeeps
  <2>. QED
    BY <2>1, <2>2, PlanCallFollows
<1>3. CASE UNCHANGED setupVars /\ program' = program
  <2>1. UNCHANGED <<cache, given, level, hierarchy, plan>> /\ result' = result
    BY <1>3 DEF setupVars
  <2>2. result \in Nat
    BY DEF SetupIInv, SetupTypes
  <2>3. PlanFollowed'
    BY <1>3, <2>1 DEF PlanFollowed, Added, Members, CacheIds
  <2>. QED
    BY <2>1, <2>2, <2>3, OnlyResult
<1>. QED
  BY <1>1, <1>2, <1>3 DEF Next, Loop, WriteTrace, Rest, vars, startupVars

\* The inductive invariant of set-up.
THEOREM SetupInvariant == Spec => [](SetupIInv /\ PlanFollowed)
<1> DEFINE Inv == SetupIInv /\ PlanFollowed
<1>1. Init => Inv
  BY SetupInitHolds
<1>2. Inv /\ [Next]_vars => Inv'
  BY SetupStepKeeps
<1>. QED
  BY <1>1, <1>2, PTL DEF Spec

\* Type invariant: every pointer between caches and levels leads to one that was allocated
\* (state.c 22-43, hierarchy.c 9-32).
THEOREM SetupTypesHold == Spec => []SetupTypes
<1>1. SetupIInv => SetupTypes
  BY DEF SetupIInv
<1>. QED
  BY <1>1, SetupInvariant, PTL

\* A cache is among the lower caches of the one it asks, and of no other, and no array of
\* lower caches or of a bus is written over its end (state.c 57-75, bus.c 10-30).
THEOREM LinksAlwaysAgree == Spec => []LinksAgree
<1>1. SetupIInv => LinksAgree
  BY DEF SetupIInv
<1>. QED
  BY <1>1, SetupInvariant, PTL

\* All caches of a level that has several are on its bus and on no other (hierarchy.c 64-82).
THEOREM BusAlwaysJoinsLevel == Spec => []BusJoinsLevel
<1>1. SetupIInv => BusJoinsLevel
  BY DEF SetupIInv
<1>. QED
  BY <1>1, SetupInvariant, PTL

\* Every cache of a level has one of the next level to ask (hierarchy.c 91-106).
THEOREM LevelsAlwaysServed == Spec => []LevelsServed
<1>1. SetupIInv => LevelsServed
  BY DEF SetupIInv
<1>. QED
  BY <1>1, SetupInvariant, PTL

\* No access and no bus request meets a cache whose set-up was refused, and a simulator
\* never has one (state.c 22-43).
THEOREM HalfBuiltStaysConfined == Spec => []HalfBuiltConfined
<1>1. SetupIInv /\ PlanFollowed => HalfBuiltConfined
  <2> SUFFICES ASSUME SetupIInv, PlanFollowed
               PROVE  HalfBuiltConfined
    OBVIOUS
  <2>1. ASSUME NEW d \in HalfBuilt
        PROVE  /\ d \notin Placed /\ cache[d].bus = Garbage
               /\ \A c \in CacheIds : cache[c].higher # d
    <3>1. d \in CacheIds /\ d \notin given /\ d \notin Placed
      BY DEF HalfBuilt, SetupIInv, Whole
    <3>2. d # NULL
      BY <3>1 DEF SetupIInv, SetupTypes, CacheIds, NULL
    <3>3. ASSUME NEW l \in DOMAIN level, cache[d].bus = l
          PROVE  FALSE
      <4>1. d \in CachesOf(l)
        BY <3>1, <3>3 DEF SetupIInv, BusJoinsLevel
      <4>. QED
        BY <3>1, <4>1 DEF Placed
    <3>. QED
      BY <3>1, <3>2, <3>3 DEF SetupIInv, Whole, OnBus
  <2>2. ASSUME plan # <<>>
        PROVE  HalfBuilt = {}
    <3>1. \A c \in CacheIds : cache[c].assoc \in 1 .. cache[c].lines
      BY <2>2 DEF PlanFollowed
    <3>. QED
      BY <3>1 DEF HalfBuilt, Garbage
  <2>. QED
    BY <2>1, <2>2 DEF HalfBuiltConfined
<1>. QED
  BY <1>1, SetupInvariant, PTL

\* The hierarchy a simulator has built, however many of its levels are finished, is one that
\* CacheHierarchy's theorems are about: every processor has a cache to start at, a climb ends,
\* and a bus stays in a level (hierarchy.c 64-130, state.c 24-40).
THEOREM BuiltAlwaysClimbable == Spec => []BuiltIsClimbable
<1>1. SetupIInv /\ PlanFollowed => BuiltIsClimbable
  BY Climbable
<1>. QED
  BY <1>1, SetupInvariant, PTL
================================================================================
