---------------------------- MODULE CacheHierarchy -----------------------------
(***************************************************************************)
(* The hierarchy of set-associative caches: cache/state.c, cache/lru.c,    *)
(* cache/bus.c and the entry point in cache/hierarchy.c.                   *)
(*                                                                         *)
(* access_cache calls itself on the higher level when it misses, so one    *)
(* access is a stack of activations, lowest cache at the bottom.  `frames' *)
(* is that stack with the running activation at its head.  An activation   *)
(* is in phase "lookup" until it knows whether it hit; when the higher     *)
(* level has returned (or there is none) it is in phase "fill" and does    *)
(* everything from the eviction to its return in one step.                 *)
(***************************************************************************)
EXTENDS Sequences, FiniteSets, Msi, Topology

CONSTANTS
  Blocks,         \* line numbers (address / line_size) in use
  Coherent,       \* caches with a coherency_protocol (MSI)
  MissFunc,       \* caches with a cache_miss_func
  MaxTime         \* bound on timestamps

NumSets(c) == Size[c] \div Assoc[c]

\* What set-up builds, and what its callers ask for: caches that share a bus have a protocol.
ASSUME HierarchyAssumption ==
  /\ IsTopology /\ IsGeometry
  /\ \A c \in Caches : BusOf[c] # NoBus => c \in Coherent
  /\ Blocks \subseteq Nat /\ MaxTime \in Nat

Lines(c)     == 0 .. Size[c] - 1
SetIndex(c, b) == b % NumSets(c)
Tag(c, b)      == b \div NumSets(c)
NoTag          == -1

\* Mutated form of Window: the search's last line is off by one.
WindowTooLong(c, b) == SetIndex(c, b) .. SetIndex(c, b) + Assoc[c]

Window(c, b) == SetIndex(c, b) .. SetIndex(c, b) + Assoc[c] - 1
OnBusWith(c) == {d \in Caches \ {c} : BusOf[d] = BusOf[c] /\ BusOf[c] # NoBus}

VARIABLES
  tag, state, lastUsed,   \* [Caches -> [Lines -> ...]]: struct CacheLine
  frames,                 \* activations of access_cache, the running one first
  phase,                  \* "idle", "lookup", "fill" or "crashed"
  req,                    \* the access: block, write and timestamp
  reported                \* calls of cache_miss_func made for this access

lineVars == <<tag, state, lastUsed>>
callVars == <<frames, phase, req, reported>>
vars     == <<tag, state, lastUsed, frames, phase, req, reported>>

First(S) == CHOOSE l \in S : \A m \in S : l <= m

\* get_line_location_in_cache compares tags only, whatever the line's state.
Matches(c, b) == {l \in Window(c, b) : tag[c][l] = Tag(c, b)}
\* Mutated form of Found: a lookup that skips INVALID lines.
FoundValid(c, b) == \E l \in Matches(c, b) : state[c][l] # INVALID

Found(c, b)    == Matches(c, b) # {}
Location(c, b) == First(Matches(c, b))

\* The state the hierarchy's tests read: absent blocks count as INVALID.
StateOf(c, b) == IF Found(c, b) THEN state[c][Location(c, b)] ELSE INVALID

\* find_line_to_evict_lru: the first INVALID line of the window.  Otherwise the
\* scan compares lines[set_idx].last_used with itself and keeps set_idx.
FreeLines(c, b) == {l \in Window(c, b) : state[c][l] = INVALID}
LineToEvict(c, b) ==
  IF FreeLines(c, b) # {} THEN First(FreeLines(c, b)) ELSE SetIndex(c, b)

\* Mutated form of Event: the recursion drops the write flag.
EventAlwaysRead(write) == READ

Event(write) == IF write THEN WRITE ELSE READ

\* One snooping cache of handle_bus_event.  A cache without the block applies
\* the event to the line it would evict, taken to be INVALID.
Snooped(d, b, event) ==
  LET line == IF Found(d, b) THEN Location(d, b) ELSE LineToEvict(d, b)
  IN  [state[d] EXCEPT ![line] = NewState(StateOf(d, b), event)]

\* One lower cache of inform_lower_level_caches_eviction.
Informed(d, b) ==
  IF Found(d, b) THEN [state[d] EXCEPT ![Location(d, b)] = INVALID] ELSE state[d]

ProtocolState(c, old) ==
  IF c \in Coherent THEN NewState(old, Event(req.write)) ELSE MODIFIED

Request(c, old) ==
  IF c \in Coherent THEN BusRequest(old, Event(req.write)) ELSE NoRequest

\* The states after the activation on c gives `line' its new state, having
\* informed the lower caches if it filled, and puts its request on the bus.
StatesAfter(c, line, old, filled) ==
  [d \in Caches |->
     IF d = c THEN [state[c] EXCEPT ![line] = ProtocolState(c, old)]
     ELSE IF filled /\ Higher[d] = c THEN Informed(d, req.block)
     ELSE IF d \in OnBusWith(c) /\ Request(c, old) # NoRequest
       THEN Snooped(d, req.block, Request(c, old))
     ELSE state[d]]

\* Mutated forms of Return: the last return forgets that nothing is running;
\* the caller looks the block up again when the recursive call returns.
ReturnKeepsRunning ==
  frames' = Tail(frames) /\ phase' = "fill"
ReturnToLookup ==
  /\ frames' = Tail(frames)
  /\ phase' = IF Len(frames) = 1 THEN "idle" ELSE "lookup"

\* access_cache returns to the activation that called it.
Return ==
  /\ frames' = Tail(frames)
  /\ phase' = IF Len(frames) = 1 THEN "idle" ELSE "fill"

--------------------------------------------------------------------------------

Init ==
  /\ tag = [c \in Caches |-> [l \in Lines(c) |-> NoTag]]
  /\ state = [c \in Caches |-> [l \in Lines(c) |-> INVALID]]
  /\ lastUsed = [c \in Caches |-> [l \in Lines(c) |-> 0]]
  /\ frames = <<>>
  /\ phase = "idle"
  /\ req \in [block : Blocks, write : {FALSE}, time : {0}]
  /\ reported = 0

\* access_cache_in_hierarchy: only a write to the data cache is a write, and
\* the timestamps of a trace never decrease.
Access(cache, b, write) ==
  /\ phase = "idle"
  /\ frames' = <<cache>>
  /\ phase' = "lookup"
  /\ \E t \in req.time .. MaxTime :
       req' = [block |-> b, write |-> write, time |-> t]
  /\ reported' = 0
  /\ UNCHANGED lineVars

AccessData(cpu, b, write) == Access(DataCache[cpu], b, write)
AccessInstr(cpu, b)       == Access(InstrCache[cpu], b, FALSE)

\* access_cache, first branch: a line of the window carries the tag.
Hit ==
  /\ phase = "lookup"
  /\ LET c == Head(frames)
         line == Location(c, req.block)
     IN /\ Found(c, req.block)
        /\ lastUsed' = [lastUsed EXCEPT ![c][line] = req.time]
        /\ state' = StatesAfter(c, line, state[c][line], FALSE)
  /\ Return
  /\ UNCHANGED <<tag, req, reported>>

\* Mutated form of MissToHigher: the higher level is asked before the lookup.
MissToHigherUnchecked ==
  /\ phase = "lookup"
  /\ Higher[Head(frames)] # NoCache
  /\ frames' = <<Higher[Head(frames)]>> \o frames
  /\ UNCHANGED <<tag, state, lastUsed, phase, req, reported>>

\* access_cache, second branch: the recursive call.
MissToHigher ==
  /\ phase = "lookup"
  /\ ~Found(Head(frames), req.block)
  /\ Higher[Head(frames)] # NoCache
  /\ frames' = <<Higher[Head(frames)]>> \o frames
  /\ UNCHANGED <<tag, state, lastUsed, phase, req, reported>>

\* access_cache, second branch at the last level: report the miss if asked to.
MissAtTop ==
  /\ phase = "lookup"
  /\ ~Found(Head(frames), req.block)
  /\ Higher[Head(frames)] = NoCache
  /\ reported' = IF Head(frames) \in MissFunc THEN reported + 1 ELSE reported
  /\ phase' = "fill"
  /\ UNCHANGED <<tag, state, lastUsed, frames, req>>

\* access_cache from the eviction on.  last_used is not written here.
Fill ==
  /\ phase = "fill"
  /\ LET c == Head(frames)
         line == LineToEvict(c, req.block)
         flush == /\ c \in Coherent /\ FlushNeededOnEviction(state[c][line])
                  /\ Higher[c] = NoCache /\ c \in MissFunc
     IN /\ reported' = IF flush THEN reported + 1 ELSE reported
        /\ tag' = [tag EXCEPT ![c][line] = Tag(c, req.block)]
        /\ state' = StatesAfter(c, line, INVALID, TRUE)
  /\ Return
  /\ UNCHANGED <<lastUsed, req>>

\* setup_cachestate does not initialise `bus', and only add_cache_to_bus writes
\* it: a cache that is on no bus may find NULL there, which the steps above
\* model, or a wild pointer that ends the process when a request is made.
WildBus ==
  /\ phase \in {"lookup", "fill"}
  /\ BusOf[Head(frames)] = NoBus
  /\ phase = "lookup" => Found(Head(frames), req.block)
  /\ LET c == Head(frames)
     IN Request(c, IF phase = "lookup" THEN StateOf(c, req.block) ELSE INVALID)
          # NoRequest
  /\ phase' = "crashed"
  /\ UNCHANGED <<tag, state, lastUsed, frames, req, reported>>

Crashed == phase = "crashed" /\ UNCHANGED vars

Step == Hit \/ MissToHigher \/ MissAtTop \/ Fill \/ WildBus

Next ==
  \/ \E cpu \in Cpus, b \in Blocks, write \in BOOLEAN : AccessData(cpu, b, write)
  \/ \E cpu \in Cpus, b \in Blocks : AccessInstr(cpu, b)
  \/ Step
  \/ Crashed

Spec == Init /\ [][Next]_vars

\* access_cache is straight-line code on one thread: a started access goes on.
FairSpec == Spec /\ WF_vars(Step)

--------------------------------------------------------------------------------

Requests == [block : Blocks, write : BOOLEAN, time : 0 .. MaxTime]

\* One array of lines per cache, each line's field in S.
IsLineArray(f, S) ==
  f = [c \in Caches |-> f[c]] /\ \A c \in Caches : f[c] \in [Lines(c) -> S]

\* The searches stay in the window, the window in the cache's array of lines, and
\* what the searches return is a line of the window (state.c 83-91, lru.c 5-17).
SearchesInArray ==
  \A c \in Caches, b \in Blocks :
    /\ Window(c, b) \subseteq Lines(c)
    /\ LineToEvict(c, b) \in Window(c, b)
    /\ Found(c, b) => Location(c, b) \in Window(c, b)

\* Type invariant of the line arrays, the call stack and the counters: every
\* line a lookup, a snoop, an invalidation or a fill reads or writes exists.
TypeOK ==
  /\ SearchesInArray
  /\ IsLineArray(tag, Nat \cup {NoTag})
  /\ IsLineArray(state, LineStates)
  /\ IsLineArray(lastUsed, 0 .. MaxTime)
  /\ frames \in Seq(Caches)
  /\ phase \in {"idle", "lookup", "fill", "crashed"}
  /\ phase = "idle" <=> frames = <<>>
  /\ req \in Requests
  /\ reported \in Nat

\* No two blocks with the same tag share a line of their windows.  It holds when
\* a cache has one line per set or a single set, and for the block numbers of a
\* workload that leaves enough distance between them; it fails for the
\* overlapping windows get_line_location_in_cache searches otherwise.
NoAliasing ==
  \A c \in Caches : \A b1, b2 \in Blocks :
    b1 # b2 /\ Tag(c, b1) = Tag(c, b2) => Window(c, b1) \cap Window(c, b2) = {}

\* Coherence (msi.c, bus.c): a block one cache may write is valid in no other
\* cache of its bus, between any two steps of any access.
SingleWriter ==
  \A c \in Caches, b \in Blocks :
    StateOf(c, b) = MODIFIED => \A d \in OnBusWith(c) : StateOf(d, b) = INVALID

\* A block is in at most one line of a cache (state.c): a second copy would be
\* missed by the snoops and invalidations, which stop at the first.
OneLinePerBlock ==
  \A c \in Caches, b \in Blocks : \A l, m \in Window(c, b) :
    tag[c][l] = Tag(c, b) /\ tag[c][m] = Tag(c, b) => l = m

\* The lookup of access_cache is still right when it is used (state.c 122-137):
\* whatever the higher levels did meanwhile, a cache fills a block it lacks.
FillOnlyWhatIsAbsent ==
  phase = "fill" => \A i \in DOMAIN frames : ~Found(frames[i], req.block)

\* access_cache fills a level only from a higher level that holds the block,
\* and for a write the higher level holds it writable (state.c 131-143).
ServedByHigherLevel ==
  phase = "fill" /\ Higher[Head(frames)] # NoCache =>
    StateOf(Higher[Head(frames)], req.block)
      \in IF req.write THEN {MODIFIED} ELSE {SHARED, MODIFIED}

\* The line a fill takes from a full set is the one used longest ago
\* (find_line_to_evict_lru; "evict the oldest one", cache/state.c).
EvictsOldest ==
  [][Fill => LET c == Head(frames)
             IN FreeLines(c, req.block) = {} =>
                  \A m \in Window(c, req.block) :
                    lastUsed[c][LineToEvict(c, req.block)] <= lastUsed[c][m]]_vars

\* A block that leaves a higher level leaves the caches below it: the purpose of
\* inform_lower_level_caches_eviction, and what the hierarchy's test is named for.
EvictionReachesLower ==
  [][\A c \in Caches, b \in Blocks :
       /\ Higher[c] # NoCache /\ phase # "crashed"
       /\ Found(Higher[c], b) /\ ~Found(Higher[c], b)'
       => StateOf(c, b)' = INVALID]_vars

\* Every access_cache returns, unless the process died in it: the recursion
\* climbs the levels and unwinds.
AccessReturns == phase # "idle" ~> phase \in {"idle", "crashed"}

\* The caches on buses implement the abstract coherent blocks.
BusCaches == {c \in Caches : BusOf[c] # NoBus}
st == [c \in BusCaches |-> [b \in Blocks |-> StateOf(c, b)]]
Coherence == INSTANCE CoherentBlocks WITH Caches <- BusCaches
CoherenceSpec == Coherence!Spec
================================================================================
