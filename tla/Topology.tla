-------------------------------- MODULE Topology --------------------------------
(***************************************************************************)
(* The part of a hierarchy that an access only reads: which cache it       *)
(* starts at, which one it asks on a miss, which caches share a bus, and   *)
(* their sizes. CacheHierarchy, where accesses climb it, assumes what is   *)
(* stated here; HierarchySetup, which builds it, promises it.              *)
(***************************************************************************)
EXTENDS Integers

CONSTANTS
  Cpus,           \* processors
  Caches,         \* every struct CacheState of the hierarchy
  NoCache,        \* NULL where a cache is expected
  DataCache,      \* [Cpus -> Caches]: the cache reads and writes go to
  InstrCache,     \* [Cpus -> Caches]: the cache instruction fetches go to
  Higher,         \* [Caches -> Caches \cup {NoCache}]: higher_level_cache
  Level,          \* [Caches -> Nat]: the level a cache was added to
  BusOf, NoBus,   \* bus of a cache, NoBus when it was never put on one
  Size, Assoc     \* [Caches -> Nat]: lines, and lines per set

\* Every processor has a cache to start at; the higher level of a cache is a later level,
\* and a bus joins caches of one level.
IsTopology ==
  /\ NoCache \notin Caches
  /\ DataCache \in [Cpus -> Caches] /\ InstrCache \in [Cpus -> Caches]
  /\ Higher \in [Caches -> Caches \cup {NoCache}]
  /\ Level \in [Caches -> Nat]
  /\ \A c \in Caches : Higher[c] \in Caches => Level[Higher[c]] > Level[c]
  /\ \A c, d \in Caches :
       BusOf[c] # NoBus /\ BusOf[c] = BusOf[d] => Level[c] = Level[d]

\* A set has lines, and not more than the cache.
IsGeometry ==
  /\ Size \in [Caches -> Nat] /\ Assoc \in [Caches -> Nat]
  /\ \A c \in Caches : 0 < Assoc[c] /\ Assoc[c] <= Size[c]
================================================================================
