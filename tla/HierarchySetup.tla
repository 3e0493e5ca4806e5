----------------------------- MODULE HierarchySetup -----------------------------
(***************************************************************************)
(* Building a cache hierarchy: setup_cachestate and add_lower_level_cache  *)
(* of cache/state.c, the bus of cache/bus.c, init_cache_level,             *)
(* add_caches_to_level and add_level of cache/hierarchy.c, and their       *)
(* callers: the setup_cache functions of the simulators, which follow a    *)
(* plan, and the unit tests, which make the calls in other orders and with *)
(* arguments that are refused.                                             *)
(*                                                                         *)
(* Caches and levels are numbered in the order they are allocated.         *)
(***************************************************************************)
EXTENDS Integers, Sequences, FiniteSets

CONSTANTS
  AmountCpus,     \* amount_cpus of the hierarchy
  MaxLevels,      \* MAX_CACHE_LEVELS
  Chunk,          \* entries an array of caches is enlarged by (8)
  Geometries,     \* sizes, line sizes and associativities the tests ask for
  MaxCaches       \* bound on the caches a test sets up

VARIABLES
  cache,          \* every struct CacheState that is used or linked to
  given,          \* those that setup_cachestate returned
  level,          \* every struct CacheLevel
  hierarchy,      \* hierarchy->levels
  plan,           \* the plan the caller follows, <<>> for a test
  result          \* what the last call returned

setupVars == <<cache, given, level, hierarchy, plan, result>>

AnyGeometry == [size : Nat \ {0}, line : Nat \ {0}, assoc : Nat]

\* A level of a plan: whether it has instruction caches, one cache for all processors or
\* one each, and their geometry: the simulators ask for whole sets.
PlannedLevel ==
  [hasInstr : BOOLEAN, shared : BOOLEAN,
   geometry : {g \in AnyGeometry : g.assoc \in 1 .. g.size \div g.line}]

ASSUME SetupAssumption ==
  /\ AmountCpus \in Nat \ {0} /\ MaxLevels \in Nat \ {0} /\ Chunk \in Nat \ {0}
  /\ MaxCaches \in Nat
  /\ Geometries \subseteq AnyGeometry

NULL    == 0      \* a pointer to nothing; caches and levels are numbered from 1
Garbage == -1     \* a field no code has written yet

CacheIds == DOMAIN cache
Members(s) == {s[i] : i \in DOMAIN s}

\* The caches of a level, and the caches of all levels.
CachesOf(l) == Members(level[l].data) \cup Members(level[l].instr)
Placed    == UNION {CachesOf(l) : l \in DOMAIN level}
Added     == Members(hierarchy)
LastLevel == level[hierarchy[Len(hierarchy)]]

\* Caches a caller was given that are in no level and below no other cache.
Fresh == {c \in given \ Placed : cache[c].higher = NULL}

\* Mutated form of Room: an array is enlarged once only.
RoomOnce(room, n) == IF n <= room \/ room > 0 THEN room ELSE Chunk

\* The size of an array of `room' entries after entries were added up to n.
Room(room, n) ==
  IF n <= room THEN room ELSE room + Chunk * (((n - room) + Chunk - 1) \div Chunk)

--------------------------------------------------------------------------------

SetupInit ==
  /\ cache = <<>> /\ given = {} /\ level = <<>> /\ hierarchy = <<>>
  /\ result = 0

\* add_lower_level_cache, once for every cache of `low'.
WithLower(high, low) ==
  [high EXCEPT !.lower = @ \cup low,
               !.room = Room(@, Cardinality(high.lower) + Cardinality(low))]

\* What setup_cachestate checks: the size of the higher cache is in lines, the size
\* asked for in bytes.
Fits(high, g) ==
  high # NULL => cache[high].lines % g.size = 0 /\ cache[high].line = g.line
Associative(g) == 0 < g.assoc /\ g.assoc <= g.size

\* Mutated form of Returned: a refused associativity is only reported.
ReturnedAnyway(g, new) == new

Returned(g, new) == IF Associative(g) THEN new ELSE NULL

\* Mutated form of Made: without `higher_level_cache = NULL' for a cache below none.
MadeUninitialised(high, g) ==
  [higher |-> IF high = NULL THEN Garbage ELSE high, lower |-> {}, room |-> 0, bus |-> Garbage,
   lines |-> g.size \div g.line, line |-> g.line,
   assoc |-> IF Associative(g) THEN g.assoc ELSE Garbage]

Made(high, g) ==
  [higher |-> high, lower |-> {}, room |-> 0, bus |-> Garbage,
   lines |-> g.size \div g.line, line |-> g.line,
   assoc |-> IF Associative(g) THEN g.assoc ELSE Garbage]

\* setup_cachestate: a refused associativity is found out after the new cache has
\* been linked below `high', which keeps it.
SetupCacheState(high, g) ==
  LET new == Len(cache) + 1
  IN  /\ IF ~Fits(high, g) THEN result' = NULL /\ UNCHANGED <<cache, given>>
         ELSE /\ result' = Returned(g, new)
              /\ given' = given \cup ({result'} \ {NULL})
              /\ cache' = Append([c \in CacheIds |->
                   IF c = high THEN WithLower(cache[c], {new}) ELSE cache[c]],
                   Made(high, g))
      /\ UNCHANGED <<level, hierarchy, plan>>

\* init_cache_level; the bus is left uninitialised.
InitCacheLevel(max, hasInstr) ==
  /\ level' = Append(level, [max |-> max, hasInstr |-> hasInstr, data |-> <<>>,
                             instr |-> <<>>, bus |-> {}, room |-> Garbage])
  /\ result' = 0
  /\ UNCHANGED <<cache, given, hierarchy, plan>>

\* Mutated form of Joining: the first instruction cache is left off the new bus.
JoiningWithoutFirst(l, data, instr) ==
  IF level[l].data = <<>> THEN {}
  ELSE Members(data \o instr) \cup {level[l].data[1]}

\* The caches add_caches_to_level puts on the bus: none of the first call's; the
\* second call makes the bus and puts the first caches on it too.
Joining(l, data, instr) ==
  IF level[l].data = <<>> THEN {}
  ELSE Members(data \o instr) \cup (IF Len(level[l].data) = 1 THEN CachesOf(l) ELSE {})

\* A level with a pair of caches more; the array of the bus is made by the second.
WithPair(before, data, instr, joining) ==
  LET room == IF Len(before.data) = 1 THEN Chunk ELSE before.room
  IN  [before EXCEPT !.data = @ \o data, !.instr = @ \o instr, !.bus = @ \cup joining,
                     !.room = IF joining = {} THEN @
                              ELSE Room(room, Cardinality(before.bus \cup joining))]

Failed(code) == result' = code /\ UNCHANGED <<cache, given, level, hierarchy, plan>>

\* add_caches_to_level; `instr' is <<>> for a NULL instruction cache.
AddCachesToLevel(l, data, instr) ==
  IF Len(level[l].data) = level[l].max THEN Failed(1)
  ELSE IF level[l].hasInstr /\ instr = <<>> THEN Failed(2)
  ELSE IF ~level[l].hasInstr /\ instr # <<>> THEN Failed(3)
  ELSE LET joining == Joining(l, data, instr)
       IN  /\ level' = [level EXCEPT ![l] = WithPair(level[l], data, instr, joining)]
           /\ cache' = [c \in CacheIds |->
                IF c \in joining THEN [cache[c] EXCEPT !.bus = l] ELSE cache[c]]
           /\ result' = 0
           /\ UNCHANGED <<given, hierarchy, plan>>

\* The cache of level l that add_level puts above cache c of the level below: the
\* only one, or the one with the same index; an instruction cache if l has some.
Above(l, below, c) ==
  LET at(s, i) == IF Len(s) = 1 THEN s[1] ELSE s[i]
  IN  IF c \in Members(below.data)
      THEN at(level[l].data, CHOOSE i \in DOMAIN below.data : below.data[i] = c)
      ELSE at(IF level[l].hasInstr THEN level[l].instr ELSE level[l].data,
              CHOOSE i \in DOMAIN below.instr : below.instr[i] = c)

\* The caches after add_level has linked the level `below' to level l.
Linked(l, below) ==
  LET low == Members(below.data) \cup Members(below.instr)
  IN  [c \in CacheIds |->
         IF c \in low THEN [cache[c] EXCEPT !.higher = Above(l, below, c)]
         ELSE IF c \in CachesOf(l) THEN WithLower(cache[c], {d \in low : Above(l, below, d) = c})
         ELSE cache[c]]

\* Mutated form of WrongAmount: any number of caches is accepted.
WrongAmountNever(l) == FALSE

WrongAmount(l) ==
  /\ hierarchy # <<>>
  /\ Len(level[l].data) # 1
  /\ Len(level[l].data) # Len(LastLevel.data)

\* add_level.
AddLevel(l) ==
  IF Len(hierarchy) = MaxLevels \/ AmountCpus < Len(level[l].data) THEN Failed(1)
  ELSE IF WrongAmount(l) THEN Failed(2)
  ELSE /\ cache' = IF hierarchy = <<>> THEN cache ELSE Linked(l, LastLevel)
       /\ hierarchy' = Append(hierarchy, l)
       /\ result' = 0
       /\ UNCHANGED <<given, level, plan>>

--------------------------------------------------------------------------------
(* The callers. *)

Open == {l \in DOMAIN level : l \notin Added}
FirstOf(S) == CHOOSE c \in S : \A d \in S : c <= d

\* A unit test makes the calls in any order, with caches it was given: it sets a cache
\* up below any of them, in a level or not, and adds those with lower caches too.  But it
\* completes a level before it starts another, gives instruction caches to the lowest
\* levels only, and adds no cache that it set up below another.
TestCall ==
  \/ /\ Len(cache) < MaxCaches
     /\ \E high \in {NULL} \cup given, g \in Geometries : SetupCacheState(high, g)
  \/ /\ Open = {} /\ Len(level) <= MaxLevels
     /\ \E max \in {1, AmountCpus + 1}, hasInstr \in BOOLEAN :
          /\ hasInstr => \A l \in DOMAIN level : level[l].hasInstr
          /\ InitCacheLevel(max, hasInstr)
  \/ /\ Fresh # {}
     /\ LET d == FirstOf(Fresh)
        IN  \E l \in Open, instr \in {<<>>} \cup {<<i>> : i \in Fresh \ {d}} :
              AddCachesToLevel(l, <<d>>, instr)
  \/ \E l \in Open : level[l].data # <<>> /\ AddLevel(l)

Stage    == plan[Len(hierarchy) + 1]

\* Mutated form of Wanted: the last processor is left out.
WantedButOne == IF Stage.shared THEN 1 ELSE AmountCpus - 1

Wanted   == IF Stage.shared THEN 1 ELSE AmountCpus
PerCall  == IF Stage.hasInstr THEN 2 ELSE 1

\* A simulator builds level after level: for every processor, or once for a shared
\* level, it sets up a data cache, and an instruction cache if the level has them,
\* and adds them.
PlanCall ==
  /\ Len(hierarchy) < Len(plan)
  /\ \/ Open = {} /\ InitCacheLevel(AmountCpus, Stage.hasInstr)
     \/ \E l \in Open :
          /\ Len(level[l].data) < Wanted /\ Cardinality(Fresh) < PerCall
          /\ SetupCacheState(NULL, Stage.geometry)
     \/ \E l \in Open :
          /\ Len(level[l].data) < Wanted /\ Cardinality(Fresh) = PerCall
          /\ LET d == FirstOf(Fresh)
             IN  AddCachesToLevel(l, <<d>>, IF Stage.hasInstr THEN <<FirstOf(Fresh \ {d})>>
                                            ELSE <<>>)
     \/ \E l \in Open : Len(level[l].data) = Wanted /\ AddLevel(l)

--------------------------------------------------------------------------------

CacheState == [higher : Nat, lower : SUBSET Nat, room : Nat, bus : Int,
               lines : Nat, line : Nat, assoc : Int]
CacheLevel == [max : Nat, hasInstr : BOOLEAN, data : Seq(Nat), instr : Seq(Nat),
               bus : SUBSET Nat, room : Int]

\* Type invariant of the allocated caches and levels; every pointer leads to one.
SetupTypes ==
  /\ cache \in Seq(CacheState) /\ level \in Seq(CacheLevel)
  /\ \A c \in CacheIds : cache[c].higher \in {NULL} \cup CacheIds
  /\ given \subseteq CacheIds /\ Placed \subseteq CacheIds
  /\ hierarchy \in Seq(DOMAIN level)
  /\ result \in Nat

\* The two directions of a link agree (state.c 57-75): a cache is among the lower caches
\* of the one it asks on a miss, so that an eviction there reaches it, and of no other;
\* the arrays of lower caches and of buses have room for what they hold.
LinksAgree ==
  /\ \A c, h \in CacheIds : cache[c].higher = h <=> c \in cache[h].lower
  /\ \A c \in CacheIds : Cardinality(cache[c].lower) <= cache[c].room
  /\ \A l \in DOMAIN level : level[l].bus # {} => Cardinality(level[l].bus) <= level[l].room

\* A level of several caches has all its data and instruction caches on one bus, although
\* the bus is only made when the second pair is added; a level of one pair has none
\* (hierarchy.c 64-82).
BusJoinsLevel ==
  /\ \A l \in DOMAIN level :
       level[l].bus = IF Len(level[l].data) > 1 THEN CachesOf(l) ELSE {}
  /\ \A c \in CacheIds : \A l \in DOMAIN level : cache[c].bus = l <=> c \in level[l].bus

\* The caches of level number k of the hierarchy, and those they ask on a miss.
LevelServed(k) ==
  LET low == level[hierarchy[k]]
  IN  IF k = Len(hierarchy)
      THEN \A c \in CachesOf(hierarchy[k]) : cache[c].higher = NULL
      ELSE LET high == level[hierarchy[k + 1]]
           IN  /\ \A h \in Members(high.data) : cache[h].lower # {}
               /\ \A i \in DOMAIN low.data :
                    cache[low.data[i]].higher = high.data[IF Len(high.data) = 1 THEN 1 ELSE i]
               /\ \A i \in DOMAIN low.instr :
                    cache[low.instr[i]].higher =
                      (IF high.hasInstr THEN high.instr ELSE high.data)
                        [IF Len(high.data) = 1 THEN 1 ELSE i]

\* Every cache of a level but the last has a higher cache, of the next level; the caches
\* of one processor have the same; those of the last level have none, and no data cache of a
\* higher level is left without lower ones (hierarchy.c 91-106).
LevelsServed == \A k \in DOMAIN hierarchy : LevelServed(k)

\* The caches whose set-up was refused after they had been linked (state.c 22-43).
HalfBuilt == {d \in CacheIds : cache[d].assoc = Garbage}

\* A half-built cache is met by no access and no bus request: it is in no level and on no
\* bus, and no cache asks it on a miss.  A simulator has none.  (Only the cache it was set
\* up below knows it, and informs it of evictions.)
HalfBuiltConfined ==
  /\ \A d \in HalfBuilt :
       /\ d \notin Placed /\ cache[d].bus = Garbage
       /\ \A c \in CacheIds : cache[c].higher # d
  /\ plan # <<>> => HalfBuilt = {}

\* The caches an access may meet, and the number of the level of each.
InUse      == UNION {CachesOf(l) : l \in Added}
LevelOf(c) == CHOOSE k \in DOMAIN hierarchy : c \in CachesOf(hierarchy[k])

\* Mutated form of EntryIndex: the processors are counted from 1.
EntryIndexFromOne(first, cpu) == IF Len(first.data) = 1 THEN 1 ELSE cpu + 2

\* The cache access_cache_in_hierarchy takes for a processor, wherever its index leads to.
EntryIndex(first, cpu) == IF Len(first.data) = 1 THEN 1 ELSE cpu + 1
EntryCache(cpu, fetch) ==
  LET first == level[hierarchy[1]]
      s     == IF first.hasInstr /\ fetch THEN first.instr ELSE first.data
      i     == EntryIndex(first, cpu)
  IN  IF i \in DOMAIN s THEN s[i] ELSE Garbage

Climbed == INSTANCE Topology WITH
  Cpus <- 0 .. AmountCpus - 1, Caches <- InUse, NoCache <- NULL, NoBus <- Garbage,
  DataCache <- [p \in 0 .. AmountCpus - 1 |-> EntryCache(p, FALSE)],
  InstrCache <- [p \in 0 .. AmountCpus - 1 |-> EntryCache(p, TRUE)],
  Higher <- [c \in InUse |-> cache[c].higher], Level <- [c \in InUse |-> LevelOf(c)],
  BusOf <- [c \in InUse |-> cache[c].bus],
  Size <- [c \in InUse |-> cache[c].lines], Assoc <- [c \in InUse |-> cache[c].assoc]

\* What a simulator has built, level after level, is what CacheHierarchy assumes of the
\* hierarchy its accesses climb: the index of access_cache_in_hierarchy is inside the first
\* level's array for every processor, whether the level is shared or not, the links of
\* add_level never lead out of the hierarchy or round in it, no bus joins two levels, and
\* every cache has a whole set (hierarchy.c 64-110, 125-130, state.c 24-40).
BuiltIsClimbable ==
  plan # <<>> /\ hierarchy # <<>> => Climbed!IsTopology /\ Climbed!IsGeometry

Built == plan # <<>> /\ Len(hierarchy) = Len(plan)

\* Whatever the simulators ask for is granted: a hierarchy that was begun gets built, exit(1)
\* is not reached (worker.c 45-63), and its first level, which access_cache_in_hierarchy
\* indexes with the processor, has a cache for each of them.
PlanBuilt ==
  plan # <<>> /\ level # <<>> ~> Built /\ Len(level[hierarchy[1]].data) = AmountCpus
================================================================================
