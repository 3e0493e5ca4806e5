------------------------- MODULE CacheHierarchyProofs --------------------------
(***************************************************************************)
(* Theorems about CacheHierarchy, for every topology, geometry, set of     *)
(* blocks and number of processors that satisfies its assumptions.         *)
(***************************************************************************)
EXTENDS CacheHierarchy, TLAPS, WellFoundedInduction, SequenceTheorems

\* The activations climb the links between levels, so no cache is on the stack
\* twice; the hierarchy is at most MAX_CACHE_LEVELS deep.
FramesClimb ==
  /\ \A i \in 1 .. Len(frames) - 1 : Higher[frames[i + 1]] = frames[i]
  /\ \A i, j \in 1 .. Len(frames) : i < j => Level[frames[i]] > Level[frames[j]]

\* FillOnlyWhatIsAbsent while the running activation has not looked up yet.
SuspendedLack ==
  phase = "lookup" => \A i \in 2 .. Len(frames) : ~Found(frames[i], req.block)

\* The inductive invariant that the proofs use.
IInv ==
  /\ TypeOK
  /\ FramesClimb
  /\ SuspendedLack /\ FillOnlyWhatIsAbsent
  /\ OneLinePerBlock
  /\ SingleWriter

--------------------------------------------------------------------------------

LEMMA LessThanOnNat == \A x, y \in Nat : x < y => <<x, y>> \in OpToRel(<, Nat)
<1>1. OpToRel(<, Nat) = {ss \in Nat \X Nat : ss[1] < ss[2]}
  BY Zenon DEF OpToRel
<1> QED
  BY <1>1

\* First picks the least member of every non-empty set of line numbers.
LEMMA FirstIsLeast ==
  ASSUME NEW S \in SUBSET Nat, S # {}
  PROVE  First(S) \in S /\ \A m \in S : First(S) <= m
<1>1. PICK x \in S : \A y \in S : ~(<<y, x>> \in OpToRel(<, Nat))
  BY NatLessThanWellFounded, WFMin, Zenon
<1>2. \A y \in S : ~(y < x)
  BY <1>1, LessThanOnNat, Zenon
<1>3. \A y \in S : x <= y
  BY <1>2
<1> QED
  BY <1>3 DEF First

\* The set index and the tag are natural numbers.
LEMMA DivisionBounds ==
  ASSUME NEW c \in Caches, NEW b \in Blocks
  PROVE  /\ NumSets(c) \in Nat /\ NumSets(c) >= 1
         /\ NumSets(c) * Assoc[c] <= Size[c]
         /\ Assoc[c] \in Nat /\ Assoc[c] >= 1 /\ Size[c] \in Nat
         /\ SetIndex(c, b) \in 0 .. NumSets(c) - 1
         /\ Tag(c, b) \in Nat
<1>1. /\ Assoc[c] \in Nat /\ Assoc[c] >= 1 /\ Size[c] \in Nat /\ Assoc[c] <= Size[c]
      /\ b \in Nat
  BY HierarchyAssumption DEF IsGeometry
<1>2. NumSets(c) \in Nat /\ NumSets(c) >= 1 /\ NumSets(c) * Assoc[c] <= Size[c]
  <2> DEFINE A == Assoc[c]  N == Size[c]
  <2>1. A \in Nat /\ A >= 1 /\ N \in Nat /\ A <= N
    BY <1>1
  <2> HIDE DEF A, N
  <2>2. N \div A \in Nat /\ N \div A >= 1 /\ (N \div A) * A <= N
    BY <2>1, SMT
  <2> QED
    BY <2>2 DEF NumSets, A, N
<1>3. SetIndex(c, b) \in 0 .. NumSets(c) - 1 /\ Tag(c, b) \in Nat
  <2> DEFINE S == NumSets(c)
  <2>1. S \in Nat /\ S >= 1
    BY <1>2
  <2> HIDE DEF S
  <2>2. b % S \in 0 .. S - 1 /\ b \div S \in Nat
    BY <1>1, <2>1, SMT
  <2> QED
    BY <2>2 DEF SetIndex, Tag, S
<1> QED
  BY <1>1, <1>2, <1>3

\* Every line that get_line_location_in_cache and find_line_to_evict_lru read is
\* in the array, whatever the geometry: the windows overlap but never overrun.
LEMMA WindowInLines ==
  ASSUME NEW c \in Caches, NEW b \in Blocks
  PROVE  /\ Window(c, b) \subseteq Lines(c) /\ Window(c, b) \subseteq Nat
         /\ SetIndex(c, b) \in Window(c, b)
<1> DEFINE S == NumSets(c)  A == Assoc[c]  N == Size[c]  i == SetIndex(c, b)
<1>1. S \in Nat /\ S >= 1 /\ A \in Nat /\ A >= 1 /\ N \in Nat /\ S * A <= N
      /\ i \in 0 .. S - 1
  BY DivisionBounds
<1> HIDE DEF S, A, N, i
<1>2. (S - 1) * (A - 1) >= 0
  BY <1>1, SMT
<1>3. S + A - 1 <= S * A
  BY <1>1, <1>2, SMT
<1>4. i + A - 1 <= N - 1
  BY <1>1, <1>3, SMT
<1>5. i .. i + A - 1 \subseteq 0 .. N - 1 /\ i \in i .. i + A - 1
  BY <1>1, <1>4, SMT
<1> QED
  BY <1>5, SMT DEF Window, Lines, i, A, N

--------------------------------------------------------------------------------

\* Caches with one line per set or one set have windows that do not alias.
THEOREM SimpleGeometryHasNoAliasing ==
  (\A c \in Caches : Assoc[c] = 1 \/ NumSets(c) = 1) => NoAliasing
<1> SUFFICES ASSUME \A c \in Caches : Assoc[c] = 1 \/ NumSets(c) = 1,
                    NEW c \in Caches, NEW b1 \in Blocks, NEW b2 \in Blocks,
                    Tag(c, b1) = Tag(c, b2),
                    NEW l \in Window(c, b1) \cap Window(c, b2)
             PROVE  b1 = b2
  BY DEF NoAliasing
<1> DEFINE S == NumSets(c)
<1>1. S \in Nat /\ S >= 1 /\ b1 \in Nat /\ b2 \in Nat
  BY DivisionBounds, HierarchyAssumption DEF IsGeometry
<1>2. b1 \div S = b2 \div S
  BY DEF Tag
<1>3. b1 % S = b2 % S
  <2>1. CASE Assoc[c] = 1
    <3>1. SetIndex(c, b1) \in Int /\ SetIndex(c, b2) \in Int
      BY DivisionBounds
    <3>2. l = SetIndex(c, b1) /\ l = SetIndex(c, b2)
      BY <2>1, <3>1 DEF Window
    <3> QED
      BY <3>2 DEF SetIndex
  <2>2. CASE S = 1
    BY <2>2, <1>1, SMT
  <2> QED
    BY <2>1, <2>2
<1> HIDE DEF S
<1>4. b1 = S * (b1 \div S) + (b1 % S) /\ b2 = S * (b2 \div S) + (b2 % S)
  BY <1>1, SMT
<1> QED
  BY <1>1, <1>2, <1>3, <1>4, Zenon

\* get_line_location_in_cache returns a line of the window with the tag.
LEMMA LocationMatches ==
  ASSUME NEW c \in Caches, NEW b \in Blocks, Found(c, b)
  PROVE  Location(c, b) \in Window(c, b) /\ tag[c][Location(c, b)] = Tag(c, b)
<1>1. Matches(c, b) \in SUBSET Nat /\ Matches(c, b) # {}
  BY WindowInLines DEF Matches, Found
<1>2. Location(c, b) \in Matches(c, b)
  BY <1>1, FirstIsLeast DEF Location
<1> QED
  BY <1>2 DEF Matches

\* A line of the window with the tag is found, and without a second one it is
\* the line that is returned.
LEMMA MatchIsFound ==
  ASSUME NEW c \in Caches, NEW b \in Blocks,
         NEW l \in Window(c, b), tag[c][l] = Tag(c, b)
  PROVE  Found(c, b) /\ (OneLinePerBlock => l = Location(c, b))
<1>1. Found(c, b)
  BY DEF Found, Matches
<1> QED
  BY <1>1, LocationMatches DEF OneLinePerBlock

\* find_line_to_evict_lru returns a line of the window.
LEMMA LineToEvictInWindow ==
  ASSUME NEW c \in Caches, NEW b \in Blocks
  PROVE  LineToEvict(c, b) \in Window(c, b)
<1>1. CASE FreeLines(c, b) = {}
  BY <1>1, WindowInLines DEF LineToEvict
<1>2. CASE FreeLines(c, b) # {}
  <2>1. FreeLines(c, b) \in SUBSET Nat
    BY WindowInLines DEF FreeLines
  <2>2. First(FreeLines(c, b)) \in FreeLines(c, b)
    BY <2>1, <1>2, FirstIsLeast
  <2> QED
    BY <2>2, <1>2 DEF LineToEvict, FreeLines
<1> QED
  BY <1>1, <1>2

--------------------------------------------------------------------------------

\* The protocol table maps line states to line states.
LEMMA NewStateType ==
  ASSUME NEW old \in LineStates, NEW event
  PROVE  NewState(old, event) \in LineStates
BY DEF NewState, LineStates, INVALID, SHARED, MODIFIED

LEMMA StateOfType ==
  ASSUME IsLineArray(state, LineStates), NEW c \in Caches, NEW b \in Blocks
  PROVE  StateOf(c, b) \in LineStates
<1>1. CASE Found(c, b)
  <2>1. Location(c, b) \in Lines(c)
    BY <1>1, LocationMatches, WindowInLines
  <2> QED
    BY <1>1, <2>1 DEF StateOf, IsLineArray
<1>2. CASE ~Found(c, b)
  BY <1>2 DEF StateOf, LineStates
<1> QED
  BY <1>1, <1>2

\* The effect of one activation on all the lines' states keeps their type.
LEMMA StatesAfterType ==
  ASSUME IsLineArray(state, LineStates), req.block \in Blocks,
         NEW c \in Caches, NEW line \in Lines(c), NEW old \in LineStates,
         NEW filled \in BOOLEAN
  PROVE  IsLineArray(StatesAfter(c, line, old, filled), LineStates)
<1> DEFINE b == req.block
<1>1. ProtocolState(c, old) \in LineStates
  BY NewStateType DEF ProtocolState, LineStates
<1>2. ASSUME NEW d \in Caches
      PROVE  /\ Informed(d, b) \in [Lines(d) -> LineStates]
             /\ \A ev : Snooped(d, b, ev) \in [Lines(d) -> LineStates]
  <2>1. state[d] \in [Lines(d) -> LineStates]
    BY DEF IsLineArray
  <2>2. Informed(d, b) \in [Lines(d) -> LineStates]
    BY <2>1 DEF Informed, LineStates
  <2>3. ASSUME NEW ev PROVE Snooped(d, b, ev) \in [Lines(d) -> LineStates]
    <3>1. NewState(StateOf(d, b), ev) \in LineStates
      BY StateOfType, NewStateType
    <3> QED
      BY <2>1, <3>1 DEF Snooped
  <2> QED
    BY <2>2, <2>3
<1>3. ASSUME NEW d \in Caches
      PROVE  StatesAfter(c, line, old, filled)[d] \in [Lines(d) -> LineStates]
  <2>1. state[d] \in [Lines(d) -> LineStates]
    BY DEF IsLineArray
  <2>2. [state[c] EXCEPT ![line] = ProtocolState(c, old)] \in [Lines(c) -> LineStates]
    BY <1>1 DEF IsLineArray
  <2> QED
    BY <2>1, <2>2, <1>2 DEF StatesAfter
<1>4. StatesAfter(c, line, old, filled)
        = [d \in Caches |-> StatesAfter(c, line, old, filled)[d]]
  BY DEF StatesAfter
<1> QED
  BY <1>3, <1>4 DEF IsLineArray

\* Writing one line of one array keeps the arrays' type.
LEMMA LineArrayExcept ==
  ASSUME NEW S, NEW f, IsLineArray(f, S),
         NEW c \in Caches, NEW line \in Lines(c), NEW v \in S
  PROVE  IsLineArray([f EXCEPT ![c][line] = v], S)
BY DEF IsLineArray

\* access_cache returning: the caller runs next, in phase "fill".
LEMMA ReturnType ==
  ASSUME frames \in Seq(Caches), frames # <<>>, Return
  PROVE  /\ frames' \in Seq(Caches)
         /\ phase' \in {"idle", "fill"}
         /\ phase' = "idle" <=> frames' = <<>>
         /\ Len(frames') = Len(frames) - 1
         /\ \A i \in 1 .. Len(frames') : frames'[i] = frames[i + 1]
BY HeadTailProperties, EmptySeq DEF Return

\* No search of a line array leaves it, in any state.
LEMMA SearchesStay == SearchesInArray
BY LocationMatches, LineToEvictInWindow, WindowInLines DEF SearchesInArray

LEMMA SearchesStayNext == SearchesInArray'
BY SearchesStay, PTL

LEMMA InitTypeOK == Init => TypeOK
<1> SUFFICES ASSUME Init PROVE TypeOK
  OBVIOUS
<1>1. IsLineArray(tag, Nat \cup {NoTag}) /\ IsLineArray(state, LineStates)
      /\ IsLineArray(lastUsed, 0 .. MaxTime)
  BY HierarchyAssumption DEF IsGeometry, Init, IsLineArray, LineStates
<1>2. req \in Requests
  <2>1. 0 \in 0 .. MaxTime /\ FALSE \in BOOLEAN
    BY HierarchyAssumption DEF IsGeometry
  <2>2. PICK b \in Blocks : req = [block |-> b, write |-> FALSE, time |-> 0]
    BY Zenon DEF Init
  <2> QED
    BY <2>1, <2>2, Zenon DEF Requests
<1> QED
  BY <1>1, <1>2, SearchesStay, EmptySeq DEF Init, TypeOK

\* The steps of the hierarchy, with the access entering at any cache.
LEMMA StepCases ==
  ASSUME [Next]_vars
  PROVE  \/ \E cache \in Caches, b \in Blocks, write \in BOOLEAN : Access(cache, b, write)
         \/ Hit \/ MissToHigher \/ MissAtTop \/ Fill \/ WildBus
         \/ UNCHANGED vars
<1>1. \A cpu \in Cpus : DataCache[cpu] \in Caches /\ InstrCache[cpu] \in Caches
  BY HierarchyAssumption DEF IsTopology
<1> QED
  BY <1>1, Zenon DEF Next, Step, Crashed, AccessData, AccessInstr

LEMMA NextTypeOK == TypeOK /\ [Next]_vars => TypeOK'
<1> SUFFICES ASSUME TypeOK, [Next]_vars PROVE TypeOK'
  OBVIOUS
<1> USE SearchesStayNext DEF TypeOK
<1>1. ASSUME NEW cache \in Caches, NEW b \in Blocks, NEW write \in BOOLEAN,
             Access(cache, b, write)
      PROVE  TypeOK'
  <2>1. req' \in Requests
    <3>1. PICK t \in req.time .. MaxTime : req' = [block |-> b, write |-> write, time |-> t]
      BY <1>1 DEF Access
    <3>2. t \in 0 .. MaxTime
      BY HierarchyAssumption DEF IsGeometry, Requests
    <3> QED
      BY <3>1, <3>2 DEF Requests
  <2>2. frames' \in Seq(Caches) /\ frames' # <<>> /\ phase' = "lookup" /\ reported' \in Nat
    BY <1>1 DEF Access
  <2> QED
    BY <1>1, <2>1, <2>2 DEF Access, lineVars, IsLineArray
<1>2. CASE Hit
  <2> DEFINE c == Head(frames)  line == Location(c, req.block)
  <2>1. c \in Caches /\ frames # <<>> /\ req.block \in Blocks
    BY <1>2, HeadTailProperties DEF Hit, Requests
  <2>2. line \in Lines(c) /\ req.time \in 0 .. MaxTime
    BY <1>2, <2>1, LocationMatches, WindowInLines DEF Hit, Requests
  <2>3. state[c][line] \in LineStates
    BY <2>1, <2>2 DEF IsLineArray
  <2>4. IsLineArray(state', LineStates) /\ IsLineArray(lastUsed', 0 .. MaxTime)
    BY <1>2, <2>1, <2>2, <2>3, StatesAfterType, LineArrayExcept DEF Hit
  <2> QED
    BY <1>2, <2>1, <2>4, ReturnType DEF Hit, IsLineArray
<1>3. CASE MissToHigher
  <2>1. frames # <<>> /\ Head(frames) \in Caches
    BY <1>3, HeadTailProperties DEF MissToHigher
  <2>2. <<Higher[Head(frames)]>> \in Seq(Caches)
    BY <1>3, <2>1, HierarchyAssumption DEF IsTopology, MissToHigher
  <2>3. frames' \in Seq(Caches) /\ Len(frames') = 1 + Len(frames) /\ Len(frames) \in Nat
    BY <1>3, <2>2, ConcatProperties, LenProperties DEF MissToHigher
  <2>4. frames' # <<>>
    BY <2>3, EmptySeq
  <2> QED
    BY <1>3, <2>3, <2>4 DEF MissToHigher, IsLineArray
<1>4. CASE MissAtTop
  BY <1>4 DEF MissAtTop, IsLineArray
<1>5. CASE Fill
  <2> DEFINE c == Head(frames)  line == LineToEvict(c, req.block)
  <2>1. c \in Caches /\ frames # <<>> /\ req.block \in Blocks
    BY <1>5, HeadTailProperties DEF Fill, Requests
  <2>2. line \in Lines(c) /\ Tag(c, req.block) \in Nat
    BY <2>1, LineToEvictInWindow, WindowInLines, DivisionBounds
  <2>3. IsLineArray(state', LineStates)
    BY <1>5, <2>1, <2>2, StatesAfterType DEF Fill, LineStates
  <2>4. IsLineArray(tag', Nat \cup {NoTag})
    BY <1>5, <2>1, <2>2, LineArrayExcept DEF Fill
  <2>5. reported' \in Nat
    BY <1>5 DEF Fill
  <2> QED
    BY <1>5, <2>1, <2>3, <2>4, <2>5, ReturnType DEF Fill, IsLineArray
<1>6. CASE WildBus
  BY <1>6 DEF WildBus, IsLineArray
<1>7. CASE UNCHANGED vars
  BY <1>7 DEF vars, IsLineArray
<1> QED
  BY <1>1, <1>2, <1>3, <1>4, <1>5, <1>6, <1>7, StepCases, Zenon

\* Every cache array, the stack of activations and the pending access keep their
\* types, and the lines the searches of access_cache, of the bus and of an eviction
\* return, which are all a step reads or writes, are lines of the cache's array.
THEOREM TypeCorrect == Spec => []TypeOK
<1> QED
  BY InitTypeOK, NextTypeOK, PTL DEF Spec

--------------------------------------------------------------------------------

\* What the higher levels do cannot disturb the suspended activations.
StackInv == TypeOK /\ FramesClimb /\ SuspendedLack /\ FillOnlyWhatIsAbsent

\* A cache whose tags stay as they are finds the same blocks in the same lines.
LEMMA SameTagsSameLookup ==
  ASSUME NEW d \in Caches, tag'[d] = tag[d], NEW b \in Blocks
  PROVE  /\ Matches(d, b)' = Matches(d, b)
         /\ Found(d, b)' = Found(d, b)
         /\ Location(d, b)' = Location(d, b)
<1>1. Matches(d, b)' = Matches(d, b)
  BY DEF Matches
<1> QED
  BY <1>1, Zenon DEF Found, Location

\* Fill rewrites a tag of the running activation's cache and of no other.
LEMMA FillTags ==
  ASSUME TypeOK, Fill
  PROVE  /\ Head(frames) \in Caches /\ frames # <<>> /\ req.block \in Blocks
         /\ LineToEvict(Head(frames), req.block) \in Window(Head(frames), req.block)
         /\ tag' = [tag EXCEPT ![Head(frames)][LineToEvict(Head(frames), req.block)]
                      = Tag(Head(frames), req.block)]
         /\ \A d \in Caches : d # Head(frames) => tag'[d] = tag[d]
<1>1. Head(frames) \in Caches /\ frames # <<>> /\ req.block \in Blocks
  BY HeadTailProperties DEF Fill, TypeOK, Requests
<1>2. LineToEvict(Head(frames), req.block) \in Window(Head(frames), req.block)
  BY <1>1, LineToEvictInWindow
<1>3. tag' = [tag EXCEPT ![Head(frames)][LineToEvict(Head(frames), req.block)]
                = Tag(Head(frames), req.block)]
  BY DEF Fill
<1> QED
  BY <1>1, <1>2, <1>3 DEF TypeOK, IsLineArray

\* The caches below the head of the stack are other caches than the head's.
LEMMA HeadIsAlone ==
  ASSUME TypeOK, FramesClimb, frames # <<>>, NEW i \in 2 .. Len(frames)
  PROVE  frames[i] \in Caches /\ frames[i] # Head(frames)
<1>1. 1 \in 1 .. Len(frames) /\ i \in 1 .. Len(frames) /\ 1 < i /\ Head(frames) = frames[1]
  BY EmptySeq, LenProperties DEF TypeOK
<1>2. Level[frames[1]] > Level[frames[i]]
  BY <1>1 DEF FramesClimb
<1>3. frames[1] \in Caches /\ frames[i] \in Caches
  BY <1>1, ElementOfSeq DEF TypeOK
<1>4. Level[frames[1]] \in Nat /\ Level[frames[i]] \in Nat
  BY <1>3, HierarchyAssumption DEF IsTopology
<1> QED
  BY <1>1, <1>2, <1>3, <1>4

LEMMA NextFramesClimb == TypeOK /\ FramesClimb /\ [Next]_vars => FramesClimb'
<1> SUFFICES ASSUME TypeOK, FramesClimb, [Next]_vars PROVE FramesClimb'
  OBVIOUS
<1>1. ASSUME NEW cache \in Caches, NEW b \in Blocks, NEW write \in BOOLEAN,
             Access(cache, b, write)
      PROVE  FramesClimb'
  BY <1>1 DEF Access, FramesClimb
<1>2. ASSUME frames # <<>>, Return PROVE FramesClimb'
  <2>1. Len(frames) \in Nat /\ Len(frames') = Len(frames) - 1
        /\ \A i \in 1 .. Len(frames') : frames'[i] = frames[i + 1]
    BY <1>2, ReturnType, LenProperties DEF TypeOK
  <2>2. ASSUME NEW i \in 1 .. Len(frames') - 1
        PROVE  Higher[frames'[i + 1]] = frames'[i]
    <3>1. frames'[i + 1] = frames[i + 2] /\ frames'[i] = frames[i + 1]
          /\ i + 1 \in 1 .. Len(frames) - 1 /\ (i + 1) + 1 = i + 2
      BY <2>1
    <3> QED
      BY <3>1, Zenon DEF FramesClimb
  <2>3. ASSUME NEW i \in 1 .. Len(frames'), NEW j \in 1 .. Len(frames'), i < j
        PROVE  Level[frames'[i]] > Level[frames'[j]]
    <3>1. i + 1 \in 1 .. Len(frames) /\ j + 1 \in 1 .. Len(frames) /\ i + 1 < j + 1
          /\ frames'[i] = frames[i + 1] /\ frames'[j] = frames[j + 1]
      BY <2>1, <2>3
    <3> QED
      BY <3>1, Zenon DEF FramesClimb
  <2> QED
    BY <2>2, <2>3 DEF FramesClimb
<1>3. CASE MissToHigher
  <2> DEFINE h == Higher[Head(frames)]
  <2>1. frames # <<>> /\ Len(frames) \in Nat /\ Len(frames) >= 1
        /\ Head(frames) = frames[1] /\ frames[1] \in Caches
    BY <1>3, HeadTailProperties, EmptySeq, LenProperties DEF MissToHigher, TypeOK
  <2>2. h \in Caches
    BY <1>3, <2>1, HierarchyAssumption DEF IsTopology, MissToHigher
  <2>3. <<h>> \in Seq(Caches) /\ Len(<<h>>) = 1 /\ <<h>>[1] = h
    BY <2>2
  <2>4. frames' = <<h>> \o frames
    BY <1>3 DEF MissToHigher
  <2>5. Len(frames') = Len(frames) + 1 /\ frames'[1] = h
        /\ \A i \in 2 .. Len(frames') : frames'[i] = frames[i - 1]
    BY <2>1, <2>3, <2>4, ConcatProperties DEF TypeOK
  <2>6. \A i \in 1 .. Len(frames) : Level[frames[i]] \in Nat /\ Level[h] > Level[frames[i]]
    <3>1. Level[h] > Level[frames[1]] /\ Level[h] \in Nat
      BY <2>1, <2>2, HierarchyAssumption DEF IsTopology
    <3>2. \A i \in 1 .. Len(frames) : frames[i] \in Caches
      BY ElementOfSeq DEF TypeOK
    <3>3. \A i \in 1 .. Len(frames) : Level[frames[i]] \in Nat
      BY <3>2, HierarchyAssumption DEF IsTopology
    <3>4. \A i \in 1 .. Len(frames) : 1 < i => Level[frames[1]] > Level[frames[i]]
      BY <2>1 DEF FramesClimb
    <3> QED
      BY <2>1, <3>1, <3>3, <3>4
  <2>7. \A i \in 1 .. Len(frames') - 1 : Higher[frames'[i + 1]] = frames'[i]
    BY <2>1, <2>5 DEF FramesClimb
  <2>8. \A i, j \in 1 .. Len(frames') : i < j => Level[frames'[i]] > Level[frames'[j]]
    <3> SUFFICES ASSUME NEW i \in 1 .. Len(frames'), NEW j \in 1 .. Len(frames'), i < j
                 PROVE  Level[frames'[i]] > Level[frames'[j]]
      OBVIOUS
    <3>1. j - 1 \in 1 .. Len(frames) /\ frames'[j] = frames[j - 1]
      BY <2>1, <2>5
    <3>2. CASE i = 1
      BY <3>1, <3>2, <2>5, <2>6
    <3>3. CASE i > 1
      <4>1. i - 1 \in 1 .. Len(frames) /\ i - 1 < j - 1 /\ frames'[i] = frames[i - 1]
        BY <3>3, <2>1, <2>5
      <4> QED
        BY <4>1, <3>1, Zenon DEF FramesClimb
    <3> QED
      BY <3>2, <3>3
  <2> QED
    BY <2>7, <2>8 DEF FramesClimb
<1>4. CASE UNCHANGED frames
  BY <1>4 DEF FramesClimb
<1>5. Hit \/ Fill => frames # <<>> /\ Return
  BY DEF Hit, Fill, TypeOK
<1>6. MissAtTop \/ WildBus \/ UNCHANGED vars => UNCHANGED frames
  BY DEF MissAtTop, WildBus, vars
<1> QED
  BY <1>1, <1>2, <1>3, <1>4, <1>5, <1>6, StepCases, Zenon

LEMMA NextStackInv == StackInv /\ [Next]_vars => StackInv'
<1> SUFFICES ASSUME StackInv, [Next]_vars PROVE StackInv'
  OBVIOUS
<1>1. TypeOK' /\ FramesClimb' /\ TypeOK /\ FramesClimb
  BY NextTypeOK, NextFramesClimb DEF StackInv
<1>2. ASSUME NEW cache \in Caches, NEW b \in Blocks, NEW write \in BOOLEAN,
             Access(cache, b, write)
      PROVE  SuspendedLack' /\ FillOnlyWhatIsAbsent'
  <2>1. phase' = "lookup" /\ Len(frames') = 1
    BY <1>2 DEF Access
  <2> QED
    BY <2>1 DEF SuspendedLack, FillOnlyWhatIsAbsent
<1>3. ASSUME frames # <<>>, Return, UNCHANGED req, Hit \/ Fill,
             \A d \in Caches : d # Head(frames) => tag'[d] = tag[d]
      PROVE  SuspendedLack' /\ FillOnlyWhatIsAbsent'
  <2>1. phase' # "lookup" /\ Len(frames) \in Nat
    BY <1>3, ReturnType, LenProperties DEF StackInv, TypeOK
  <2>2. ASSUME NEW i \in DOMAIN frames'
        PROVE  {l \in Window(frames'[i], req'.block) :
                  tag'[frames'[i]][l] = Tag(frames'[i], req'.block)} = {}
    <3>1. i \in 1 .. Len(frames) - 1 /\ frames'[i] = frames[i + 1]
      BY <1>3, ReturnType, LenProperties DEF StackInv, TypeOK
    <3>2. i + 1 \in 2 .. Len(frames) /\ i + 1 \in DOMAIN frames
      BY <2>1, <3>1, LenProperties DEF StackInv, TypeOK
    <3>3. frames[i + 1] \in Caches /\ frames[i + 1] # Head(frames)
      BY <1>1, <1>3, <3>2, HeadIsAlone
    <3>4. ~Found(frames[i + 1], req.block)
      BY <1>3, <3>2, Zenon DEF StackInv, SuspendedLack, FillOnlyWhatIsAbsent, Hit, Fill
    <3>5. tag'[frames[i + 1]] = tag[frames[i + 1]] /\ req' = req
      BY <1>3, <3>3
    <3> QED
      BY <3>1, <3>4, <3>5 DEF Found, Matches
  <2> QED
    BY <2>1, <2>2, Zenon DEF SuspendedLack, FillOnlyWhatIsAbsent, Found, Matches
<1>4. CASE Hit
  <2>1. frames # <<>> /\ Return /\ UNCHANGED <<req, tag>>
    BY <1>1, <1>4 DEF Hit, TypeOK
  <2> QED
    BY <1>1, <1>3, <1>4, <2>1 DEF StackInv
<1>5. CASE Fill
  <2>1. frames # <<>> /\ Return /\ UNCHANGED req
    BY <1>1, <1>5 DEF Fill, TypeOK
  <2> QED
    BY <1>1, <1>3, <1>5, <2>1, FillTags DEF StackInv
<1>6. CASE MissToHigher
  <2>1. phase' = "lookup" /\ phase = "lookup" /\ UNCHANGED <<tag, req>>
        /\ ~Found(Head(frames), req.block)
    BY <1>6 DEF MissToHigher
  <2>2. frames # <<>> /\ Len(frames) \in Nat /\ Head(frames) = frames[1]
        /\ Head(frames) \in Caches
    BY <1>1, <2>1, HeadTailProperties, LenProperties DEF TypeOK
  <2>3. Higher[Head(frames)] \in Caches
    BY <1>6, <2>2, HierarchyAssumption DEF IsTopology, MissToHigher
  <2>4. <<Higher[Head(frames)]>> \in Seq(Caches) /\ Len(<<Higher[Head(frames)]>>) = 1
    BY <2>3
  <2>5. Len(frames') = Len(frames) + 1
        /\ \A i \in 2 .. Len(frames') : frames'[i] = frames[i - 1]
    BY <1>6, <2>2, <2>4, ConcatProperties DEF MissToHigher, StackInv, TypeOK
  <2>6. ASSUME NEW i \in 2 .. Len(frames')
        PROVE  {l \in Window(frames'[i], req'.block) :
                  tag'[frames'[i]][l] = Tag(frames'[i], req'.block)} = {}
    <3>1. i - 1 \in 1 .. Len(frames) /\ frames'[i] = frames[i - 1]
          /\ (i - 1 = 1 \/ i - 1 \in 2 .. Len(frames))
      BY <2>2, <2>5
    <3>2. ~Found(frames[i - 1], req.block)
      BY <2>1, <2>2, <3>1, Zenon DEF StackInv, SuspendedLack
    <3> QED
      BY <2>1, <3>1, <3>2 DEF Found, Matches
  <2> QED
    BY <1>1, <2>1, <2>6, Zenon DEF StackInv, SuspendedLack, FillOnlyWhatIsAbsent, Found, Matches
<1>7. CASE MissAtTop
  <2>1. phase' = "fill" /\ phase = "lookup" /\ UNCHANGED <<tag, req, frames>>
        /\ ~Found(Head(frames), req.block)
    BY <1>7 DEF MissAtTop
  <2>2. \A i \in DOMAIN frames : i = 1 \/ i \in 2 .. Len(frames)
    BY <1>1, LenProperties DEF TypeOK
  <2>3. frames[1] = Head(frames)
    BY <1>1, <2>1, HeadTailProperties DEF TypeOK
  <2>4. \A i \in DOMAIN frames : ~Found(frames[i], req.block)
    BY <2>1, <2>2, <2>3, Zenon DEF StackInv, SuspendedLack
  <2> QED
    BY <1>1, <2>1, <2>4, Zenon DEF StackInv, SuspendedLack, FillOnlyWhatIsAbsent, Found, Matches
<1>8. CASE WildBus
  <2>1. phase' = "crashed"
    BY <1>8 DEF WildBus
  <2> QED
    BY <1>1, <2>1 DEF StackInv, SuspendedLack, FillOnlyWhatIsAbsent
<1>9. CASE UNCHANGED vars
  BY <1>1, <1>9, Zenon
  DEF StackInv, SuspendedLack, FillOnlyWhatIsAbsent, vars, Found, Matches
<1> QED
  BY <1>1, <1>2, <1>4, <1>5, <1>6, <1>7, <1>8, <1>9, StepCases, Zenon DEF StackInv

LEMMA InitStackInv == Init => StackInv
<1> SUFFICES ASSUME Init PROVE StackInv
  OBVIOUS
<1>1. frames = <<>> /\ Len(frames) = 0 /\ phase = "idle"
  BY EmptySeq DEF Init
<1> QED
  BY <1>1, InitTypeOK DEF StackInv, FramesClimb, SuspendedLack, FillOnlyWhatIsAbsent

\* The result of a lookup is still true when access_cache uses it after the
\* recursive call on the higher level, in every geometry.
THEOREM FillsAreOfAbsentBlocks == Spec => []FillOnlyWhatIsAbsent
<1>1. StackInv => FillOnlyWhatIsAbsent
  BY DEF StackInv
<1> QED
  BY <1>1, InitStackInv, NextStackInv, PTL DEF Spec

--------------------------------------------------------------------------------

\* A step that gives blocks a line or a state: Hit and Fill seen as one, the
\* activation on c puts req.block in `line' and applies the protocol to it.
Touches(c, line, filled) ==
  /\ c \in Caches /\ req.block \in Blocks /\ line \in Window(c, req.block)
  /\ filled \in BOOLEAN
  /\ tag' = [tag EXCEPT ![c][line] = Tag(c, req.block)]
  /\ state' = StatesAfter(c, line, StateOf(c, req.block), filled)
  /\ req' = req

LEMMA HitTouches ==
  ASSUME TypeOK, Hit
  PROVE  Touches(Head(frames), Location(Head(frames), req.block), FALSE)
<1> DEFINE c == Head(frames)  b == req.block  line == Location(c, b)
<1>1. c \in Caches /\ b \in Blocks
  BY HeadTailProperties DEF Hit, TypeOK, Requests
<1>2. line \in Window(c, b) /\ tag[c][line] = Tag(c, b) /\ line \in Lines(c)
  BY <1>1, LocationMatches, WindowInLines DEF Hit
<1>3. tag' = tag /\ tag = [tag EXCEPT ![c][line] = Tag(c, b)]
  BY <1>1, <1>2 DEF Hit, TypeOK, IsLineArray
<1>4. state' = StatesAfter(c, line, StateOf(c, b), FALSE) /\ req' = req
  BY Zenon DEF Hit, StateOf
<1> QED
  BY <1>1, <1>2, <1>3, <1>4 DEF Touches

LEMMA FillTouches ==
  ASSUME StackInv, Fill
  PROVE  /\ Touches(Head(frames), LineToEvict(Head(frames), req.block), TRUE)
         /\ ~Found(Head(frames), req.block)
<1> DEFINE c == Head(frames)  b == req.block
<1>1. TypeOK /\ phase = "fill"
  BY DEF StackInv, Fill
<1>2. ~Found(c, b)
  <2>1. c = frames[1] /\ 1 \in DOMAIN frames
    BY <1>1, EmptySeq, LenProperties DEF TypeOK
  <2> QED
    BY <1>1, <2>1, Zenon DEF StackInv, FillOnlyWhatIsAbsent
<1>3. StateOf(c, b) = INVALID
  BY <1>2 DEF StateOf
<1>4. state' = StatesAfter(c, LineToEvict(c, b), StateOf(c, b), TRUE) /\ req' = req
  BY <1>3, Zenon DEF Fill
<1> QED
  BY <1>1, <1>2, <1>4, FillTags DEF Touches

\* Without aliasing, a line that carries one block carries no other.
LEMMA OneBlockPerLine ==
  ASSUME NoAliasing, NEW c \in Caches, NEW x \in Blocks, NEW y \in Blocks, x # y,
         NEW l \in Window(c, x), l \in Window(c, y)
  PROVE  Tag(c, x) # Tag(c, y)
BY DEF NoAliasing

LEMMA TouchesKeepsOneLine ==
  ASSUME NoAliasing, TypeOK, OneLinePerBlock,
         NEW c, NEW line, NEW filled, Touches(c, line, filled),
         Found(c, req.block) => line = Location(c, req.block)
  PROVE  OneLinePerBlock'
<1> DEFINE b == req.block
<1>1. c \in Caches /\ b \in Blocks /\ line \in Window(c, b) /\ line \in Lines(c)
  BY WindowInLines DEF Touches
<1>2. \A d \in Caches : d # c => tag'[d] = tag[d]
  BY <1>1 DEF Touches, TypeOK, IsLineArray
<1>3. /\ tag'[c][line] = Tag(c, b)
      /\ \A l \in Lines(c) : l # line => tag'[c][l] = tag[c][l]
  BY <1>1 DEF Touches, TypeOK, IsLineArray
<1> SUFFICES ASSUME NEW d \in Caches, NEW x \in Blocks,
                    NEW l \in Window(d, x), NEW m \in Window(d, x),
                    tag'[d][l] = Tag(d, x), tag'[d][m] = Tag(d, x)
             PROVE  l = m
  BY DEF OneLinePerBlock
<1>4. CASE d # c
  BY <1>2, <1>4 DEF OneLinePerBlock
<1>5. CASE d = c /\ x = b
  <2>1. ASSUME NEW k \in Window(c, b), tag'[c][k] = Tag(c, b) PROVE k = line
    <3> SUFFICES ASSUME k # line PROVE FALSE
      OBVIOUS
    <3>1. tag[c][k] = Tag(c, b)
      BY <1>1, <1>3, <2>1, WindowInLines
    <3> QED
      BY <1>1, <3>1, MatchIsFound
  <2> QED
    BY <1>5, <2>1
<1>6. CASE d = c /\ x # b
  <2>1. l # line /\ m # line
    BY <1>1, <1>3, <1>6, OneBlockPerLine
  <2>2. tag[c][l] = Tag(c, x) /\ tag[c][m] = Tag(c, x)
    BY <1>3, <1>6, <2>1, WindowInLines
  <2> QED
    BY <1>6, <2>2 DEF OneLinePerBlock
<1> QED
  BY <1>4, <1>5, <1>6

\* With one line per block, StateOf reads the line that carries the block.
StateOfReadsLine ==
  \A c \in Caches, b \in Blocks :
    /\ \A l \in Window(c, b) : tag[c][l] = Tag(c, b) => StateOf(c, b) = state[c][l]
    /\ (\A l \in Window(c, b) : tag[c][l] # Tag(c, b)) => StateOf(c, b) = INVALID

LEMMA StateOfLine == OneLinePerBlock => StateOfReadsLine
<1> SUFFICES ASSUME OneLinePerBlock, NEW c \in Caches, NEW b \in Blocks
             PROVE  /\ \A l \in Window(c, b) :
                         tag[c][l] = Tag(c, b) => StateOf(c, b) = state[c][l]
                    /\ (\A l \in Window(c, b) : tag[c][l] # Tag(c, b))
                         => StateOf(c, b) = INVALID
  BY DEF StateOfReadsLine
<1>1. ASSUME NEW l \in Window(c, b), tag[c][l] = Tag(c, b) PROVE StateOf(c, b) = state[c][l]
  BY <1>1, MatchIsFound DEF StateOf
<1>2. ASSUME \A l \in Window(c, b) : tag[c][l] # Tag(c, b) PROVE StateOf(c, b) = INVALID
  BY <1>2 DEF StateOf, Found, Matches
<1> QED
  BY <1>1, <1>2

\* What the snooping bus does to one other cache, block by block.
LEMMA SnoopEffect ==
  ASSUME NoAliasing, TypeOK, OneLinePerBlock,
         NEW d \in Caches, NEW b \in Blocks, NEW ev \in BusEvents,
         NEW x \in Blocks, NEW l \in Window(d, x), tag[d][l] = Tag(d, x)
  PROVE  /\ x = b => Snooped(d, b, ev)[l] = NewState(StateOf(d, b), ev)
         /\ x # b => Snooped(d, b, ev)[l] \in {state[d][l], INVALID}
<1> DEFINE v == IF Found(d, b) THEN Location(d, b) ELSE LineToEvict(d, b)
<1>1. v \in Window(d, b) /\ v \in Lines(d) /\ l \in Lines(d)
  BY LocationMatches, LineToEvictInWindow, WindowInLines
<1>2. state[d] \in [Lines(d) -> LineStates]
  BY DEF TypeOK, IsLineArray
<1>3. Snooped(d, b, ev) = [state[d] EXCEPT ![v] = NewState(StateOf(d, b), ev)]
  BY DEF Snooped
<1>4. Snooped(d, b, ev)[l] = IF l = v THEN NewState(StateOf(d, b), ev) ELSE state[d][l]
  BY <1>1, <1>2, <1>3
<1>5. ASSUME x = b PROVE l = v
  BY <1>5, MatchIsFound
<1>6. ASSUME x # b, l = v PROVE NewState(StateOf(d, b), ev) = INVALID
  <2>1. ~Found(d, b)
    <3> SUFFICES ASSUME Found(d, b) PROVE FALSE
      OBVIOUS
    <3>1. l \in Window(d, b) /\ tag[d][l] = Tag(d, b)
      BY <1>6, LocationMatches
    <3> QED
      BY <1>6, <3>1, OneBlockPerLine
  <2>2. StateOf(d, b) = INVALID
    BY <2>1 DEF StateOf
  <2> QED
    BY <2>2, Zenon DEF NewState, BusEvents, BUS_READ, BUS_READ_X, BUS_UPGRADE, READ, WRITE,
                       INVALID, SHARED, MODIFIED
<1> QED
  BY <1>4, <1>5, <1>6

\* What inform_lower_level_caches_eviction does to one cache, block by block.
LEMMA InformEffect ==
  ASSUME NoAliasing, TypeOK, OneLinePerBlock,
         NEW d \in Caches, NEW b \in Blocks,
         NEW x \in Blocks, NEW l \in Window(d, x), tag[d][l] = Tag(d, x)
  PROVE  Informed(d, b)[l] = IF x = b THEN INVALID ELSE state[d][l]
<1>1. state[d] \in [Lines(d) -> LineStates] /\ l \in Lines(d)
  BY WindowInLines DEF TypeOK, IsLineArray
<1>2. CASE x = b
  <2>1. Found(d, b) /\ l = Location(d, b)
    BY <1>2, MatchIsFound
  <2> QED
    BY <1>1, <1>2, <2>1 DEF Informed
<1>3. CASE x # b
  <2>1. ASSUME Found(d, b) PROVE l # Location(d, b) /\ Location(d, b) \in Lines(d)
    BY <1>3, <2>1, LocationMatches, OneBlockPerLine, WindowInLines
  <2> QED
    BY <1>1, <1>3, <2>1 DEF Informed
<1> QED
  BY <1>2, <1>3

LEMMA RequestIsBusEvent ==
  ASSUME NEW c, NEW old, Request(c, old) # NoRequest
  PROVE  Request(c, old) \in BusEvents
BY Zenon DEF Request, BusRequest, BusEvents, NoRequest

\* A bus joins caches of one level, so no cache is both snooped and informed.
LEMMA BusPeersAreNotLower ==
  ASSUME NEW c \in Caches, NEW d \in OnBusWith(c)
  PROVE  d \in Caches /\ Higher[d] # c
<1>1. d \in Caches /\ Level[c] = Level[d] /\ Level[c] \in Nat
  BY HierarchyAssumption DEF IsTopology, OnBusWith
<1> QED
  BY <1>1, HierarchyAssumption DEF IsTopology

\* The effect of an activation on every cache's view of every block.
LEMMA TouchEffect ==
  ASSUME NoAliasing, TypeOK, OneLinePerBlock, OneLinePerBlock',
         NEW c, NEW line, NEW filled, Touches(c, line, filled),
         NEW b, b = req.block
  PROVE  /\ StateOf(c, b)' = ProtocolState(c, StateOf(c, b))
         /\ \A d \in Caches, x \in Blocks : x # b => StateOf(d, x)' \in {StateOf(d, x), INVALID}
         /\ \A d \in Caches \ {c} :
              IF d \in OnBusWith(c) /\ Request(c, StateOf(c, b)) # NoRequest
                THEN StateOf(d, b)' = NewState(StateOf(d, b), Request(c, StateOf(c, b)))
                ELSE StateOf(d, b)' \in {StateOf(d, b), INVALID}
<1> DEFINE r == Request(c, StateOf(c, b))
           after == StatesAfter(c, line, StateOf(c, b), filled)
<1>1. c \in Caches /\ b \in Blocks /\ line \in Window(c, b) /\ line \in Lines(c)
      /\ filled \in BOOLEAN
  BY WindowInLines DEF Touches
<1>2. /\ \A d \in Caches : d # c => tag'[d] = tag[d]
      /\ tag'[c][line] = Tag(c, b)
      /\ \A l \in Lines(c) : l # line => tag'[c][l] = tag[c][l]
  BY <1>1 DEF Touches, TypeOK, IsLineArray
<1>3. state' = after
  BY DEF Touches
<1>4. \A d \in Caches, x \in Blocks :
        /\ \A l \in Window(d, x) : tag[d][l] = Tag(d, x) => StateOf(d, x) = state[d][l]
        /\ (\A l \in Window(d, x) : tag[d][l] # Tag(d, x)) => StateOf(d, x) = INVALID
  BY StateOfLine DEF StateOfReadsLine
<1>5. \A d \in Caches, x \in Blocks :
        /\ \A l \in Window(d, x) : tag'[d][l] = Tag(d, x) => StateOf(d, x)' = state'[d][l]
        /\ (\A l \in Window(d, x) : tag'[d][l] # Tag(d, x)) => StateOf(d, x)' = INVALID
  <2>1. StateOfReadsLine'
    BY StateOfLine, PTL
  <2> QED
    BY <2>1 DEF StateOfReadsLine
<1>6. after[c] = [state[c] EXCEPT ![line] = ProtocolState(c, StateOf(c, b))]
  BY <1>1 DEF StatesAfter, Touches
<1>7. state[c] \in [Lines(c) -> LineStates]
  BY <1>1 DEF TypeOK, IsLineArray
<1>8. StateOf(c, b)' = ProtocolState(c, StateOf(c, b))
  <2>1. StateOf(c, b)' = state'[c][line]
    BY <1>1, <1>2, <1>5
  <2> QED
    BY <2>1, <1>1, <1>3, <1>6, <1>7
<1>9. ASSUME NEW x \in Blocks, x # b
      PROVE  StateOf(c, x)' \in {StateOf(c, x), INVALID}
  <2>1. CASE \E l \in Window(c, x) : tag'[c][l] = Tag(c, x)
    <3>1. PICK l \in Window(c, x) : tag'[c][l] = Tag(c, x)
      BY <2>1
    <3>2. l # line /\ l \in Lines(c)
      BY <1>1, <1>2, <1>9, <3>1, OneBlockPerLine, WindowInLines
    <3>3. tag[c][l] = Tag(c, x)
      BY <1>2, <3>1, <3>2
    <3>4. state'[c][l] = state[c][l]
      BY <1>1, <1>3, <1>6, <1>7, <3>2
    <3> QED
      BY <1>1, <1>4, <1>5, <3>1, <3>3, <3>4
  <2> QED
    BY <1>1, <1>5, <2>1
<1>10. ASSUME NEW d \in Caches, d # c, NEW x \in Blocks
       PROVE  IF x = b /\ d \in OnBusWith(c) /\ r # NoRequest
                THEN StateOf(d, b)' = NewState(StateOf(d, b), r)
                ELSE StateOf(d, x)' \in {StateOf(d, x), INVALID}
  <2>1. \/ after[d] = Informed(d, b) /\ Higher[d] = c
        \/ after[d] = Snooped(d, b, r) /\ d \in OnBusWith(c) /\ r # NoRequest
        \/ after[d] = state[d] /\ ~(d \in OnBusWith(c) /\ r # NoRequest)
    BY <1>1, <1>10 DEF StatesAfter
  <2>2. d \in OnBusWith(c) => Higher[d] # c
    BY <1>1, BusPeersAreNotLower
  <2>3. CASE \A l \in Window(d, x) : tag[d][l] # Tag(d, x)
    <3>1. StateOf(d, x) = INVALID /\ StateOf(d, x)' = INVALID
      BY <1>2, <1>4, <1>5, <1>10, <2>3
    <3>2. ASSUME r # NoRequest PROVE NewState(INVALID, r) = INVALID
      BY <3>2, RequestIsBusEvent, Zenon
      DEF NewState, BusEvents, BUS_READ, BUS_READ_X, BUS_UPGRADE, READ, WRITE
    <3> QED
      BY <3>1, <3>2
  <2>4. CASE \E l \in Window(d, x) : tag[d][l] = Tag(d, x)
    <3>1. PICK l \in Window(d, x) : tag[d][l] = Tag(d, x)
      BY <2>4
    <3>2. StateOf(d, x)' = after[d][l] /\ StateOf(d, x) = state[d][l]
      BY <1>2, <1>3, <1>4, <1>5, <1>10, <3>1
    <3>3. Informed(d, b)[l] = IF x = b THEN INVALID ELSE state[d][l]
      BY <1>1, <3>1, InformEffect
    <3>4. r # NoRequest => /\ x = b => Snooped(d, b, r)[l] = NewState(StateOf(d, b), r)
                           /\ x # b => Snooped(d, b, r)[l] \in {state[d][l], INVALID}
      BY <1>1, <3>1, RequestIsBusEvent, SnoopEffect
    <3> QED
      BY <2>1, <2>2, <3>2, <3>3, <3>4
  <2> QED
    BY <2>3, <2>4
<1>11. \A d \in Caches \ {c} :
         IF d \in OnBusWith(c) /\ r # NoRequest
           THEN StateOf(d, b)' = NewState(StateOf(d, b), r)
           ELSE StateOf(d, b)' \in {StateOf(d, b), INVALID}
  BY <1>1, <1>10
<1>12. \A d \in Caches, x \in Blocks : x # b => StateOf(d, x)' \in {StateOf(d, x), INVALID}
  BY <1>9, <1>10
<1> QED
  BY <1>8, <1>11, <1>12

\* The rows of the MSI table that coherence rests on.
LEMMA ProtocolTable ==
  \A old \in LineStates :
    /\ \A ev \in BusEvents : /\ NewState(old, ev) # MODIFIED
                             /\ old = INVALID => NewState(old, ev) = INVALID
    /\ NewState(old, BUS_READ_X) = INVALID /\ NewState(old, BUS_UPGRADE) = INVALID
    /\ NewState(old, WRITE) = MODIFIED
    /\ NewState(old, READ) = IF old = INVALID THEN SHARED ELSE old
    /\ BusRequest(old, WRITE) \in {BUS_READ_X, BUS_UPGRADE} \/ old = MODIFIED
    /\ BusRequest(old, READ) = BUS_READ \/ old # INVALID
    /\ \A ev \in {READ, WRITE} : old = MODIFIED => BusRequest(old, ev) = NoRequest
    /\ old # INVALID => BusRequest(old, READ) = NoRequest
<1> SUFFICES ASSUME NEW old \in {"INVALID", "SHARED", "MODIFIED"}
             PROVE
    /\ \A ev \in BusEvents : /\ NewState(old, ev) # MODIFIED
                             /\ old = INVALID => NewState(old, ev) = INVALID
    /\ NewState(old, BUS_READ_X) = INVALID /\ NewState(old, BUS_UPGRADE) = INVALID
    /\ NewState(old, WRITE) = MODIFIED
    /\ NewState(old, READ) = IF old = INVALID THEN SHARED ELSE old
    /\ BusRequest(old, WRITE) \in {BUS_READ_X, BUS_UPGRADE} \/ old = MODIFIED
    /\ BusRequest(old, READ) = BUS_READ \/ old # INVALID
    /\ \A ev \in {READ, WRITE} : old = MODIFIED => BusRequest(old, ev) = NoRequest
    /\ old # INVALID => BusRequest(old, READ) = NoRequest
  BY DEF LineStates, INVALID, SHARED, MODIFIED
<1> USE DEF READ, WRITE, BUS_READ, BUS_READ_X, BUS_UPGRADE, INVALID, SHARED, MODIFIED, NoRequest
<1>1. \A ev \in BusEvents : NewState(old, ev) # MODIFIED /\ (old = INVALID => NewState(old, ev) = INVALID)
  BY Zenon DEF NewState, BusEvents
<1>2. NewState(old, BUS_READ_X) = INVALID /\ NewState(old, BUS_UPGRADE) = INVALID
  BY Zenon DEF NewState
<1>3. NewState(old, WRITE) = MODIFIED
  BY Zenon DEF NewState
<1>4. NewState(old, READ) = IF old = INVALID THEN SHARED ELSE old
  BY Zenon DEF NewState
<1>5. BusRequest(old, WRITE) \in {BUS_READ_X, BUS_UPGRADE} \/ old = MODIFIED
  BY Zenon DEF BusRequest
<1>6. BusRequest(old, READ) = BUS_READ \/ old # INVALID
  BY Zenon DEF BusRequest
<1>7. \A ev \in {READ, WRITE} : old = MODIFIED => BusRequest(old, ev) = NoRequest
  BY Zenon DEF BusRequest
<1>8. old # INVALID => BusRequest(old, READ) = NoRequest
  BY Zenon DEF BusRequest
<1> QED
  BY <1>1, <1>2, <1>3, <1>4, <1>5, <1>6, <1>7, <1>8, Zenon

\* A coherent cache's own view of the block it accesses.
LEMMA TouchOwnState ==
  ASSUME NoAliasing, TypeOK, OneLinePerBlock, OneLinePerBlock',
         NEW c, NEW line, NEW filled, Touches(c, line, filled),
         c \in Coherent, NEW b, b = req.block
  PROVE  StateOf(c, b)' = IF req.write THEN MODIFIED
                          ELSE IF StateOf(c, b) = INVALID THEN SHARED ELSE StateOf(c, b)
<1>1. StateOf(c, b)' = NewState(StateOf(c, b), Event(req.write))
  BY TouchEffect DEF ProtocolState
<1>2. StateOf(c, b) \in LineStates
  BY StateOfType DEF Touches, TypeOK
<1> QED
  BY <1>1, <1>2, ProtocolTable DEF Event

\* What an access leaves of the block in another cache of the bus.
LEMMA TouchPeerState ==
  ASSUME NoAliasing, TypeOK, OneLinePerBlock, OneLinePerBlock', SingleWriter,
         NEW c, NEW line, NEW filled, Touches(c, line, filled),
         NEW b, b = req.block, NEW d \in OnBusWith(c)
  PROVE  /\ req.write => StateOf(d, b)' = INVALID
         /\ StateOf(d, b)' # MODIFIED
         /\ StateOf(d, b) = INVALID => StateOf(d, b)' = INVALID
         /\ StateOf(c, b) = MODIFIED => StateOf(d, b)' = INVALID
<1> DEFINE s == StateOf(c, b)  t == StateOf(d, b)  ev == Event(req.write)  r == Request(c, s)
<1>1. c \in Caches /\ d \in Caches /\ d # c /\ c \in Coherent /\ b \in Blocks
      /\ c \in OnBusWith(d)
  BY HierarchyAssumption DEF IsTopology, OnBusWith, Touches
<1>2. s \in LineStates /\ t \in LineStates
  BY <1>1, StateOfType DEF TypeOK
<1>3. r = BusRequest(s, ev) /\ ev = (IF req.write THEN WRITE ELSE READ)
  BY <1>1 DEF Request, Event
<1>4. IF r # NoRequest THEN StateOf(d, b)' = NewState(t, r) ELSE StateOf(d, b)' \in {t, INVALID}
  BY <1>1, TouchEffect
<1>5. s = MODIFIED => t = INVALID
  BY <1>1 DEF SingleWriter
<1>6. t = MODIFIED => s = INVALID
  BY <1>1 DEF SingleWriter
<1>7. r # NoRequest => r \in BusEvents
  BY RequestIsBusEvent
<1>8. BUS_READ # NoRequest /\ BUS_READ_X # NoRequest /\ BUS_UPGRADE # NoRequest
      /\ INVALID # MODIFIED
  BY DEF BUS_READ, BUS_READ_X, BUS_UPGRADE, NoRequest, INVALID, MODIFIED
<1>9. s = MODIFIED => r = NoRequest
  BY <1>2, <1>3, ProtocolTable
<1>10. req.write => (r \in {BUS_READ_X, BUS_UPGRADE} \/ s = MODIFIED)
  BY <1>2, <1>3, ProtocolTable
<1>11. ~req.write => (r = BUS_READ \/ s # INVALID)
  BY <1>2, <1>3, ProtocolTable
<1>12. NewState(t, BUS_READ_X) = INVALID /\ NewState(t, BUS_UPGRADE) = INVALID
  BY <1>2, ProtocolTable
<1>13. r # NoRequest => NewState(t, r) # MODIFIED /\ (t = INVALID => NewState(t, r) = INVALID)
  BY <1>2, <1>7, ProtocolTable
<1>14. req.write \in BOOLEAN
  BY DEF TypeOK, Requests
<1>15. req.write => StateOf(d, b)' = INVALID
  BY <1>4, <1>5, <1>8, <1>9, <1>10, <1>12, Zenon
<1>16. StateOf(d, b)' # MODIFIED
  <2>1. CASE r # NoRequest
    BY <2>1, <1>4, <1>13
  <2>2. CASE r = NoRequest
    <3>1. s # INVALID
      BY <2>2, <1>8, <1>10, <1>11
    <3> QED
      BY <2>2, <3>1, <1>4, <1>6, <1>8
  <2> QED
    BY <2>1, <2>2
<1> QED
  BY <1>4, <1>5, <1>9, <1>13, <1>15, <1>16

LEMMA TouchSingleWriter ==
  ASSUME NoAliasing, TypeOK, OneLinePerBlock, OneLinePerBlock', SingleWriter,
         NEW c, NEW line, NEW filled, Touches(c, line, filled)
  PROVE  SingleWriter'
<1> SUFFICES ASSUME NEW e \in Caches, NEW x \in Blocks, StateOf(e, x)' = MODIFIED,
                    NEW d \in OnBusWith(e)
             PROVE  StateOf(d, x)' = INVALID
  BY DEF SingleWriter
<1>1. d \in Caches /\ d # e /\ e \in Coherent /\ e \in OnBusWith(d) /\ c \in Caches
      /\ req.block \in Blocks /\ INVALID # MODIFIED
  BY HierarchyAssumption DEF IsTopology, OnBusWith, Touches, INVALID, MODIFIED
<1> DEFINE b == req.block
<1>2. PICK k : k = b
  OBVIOUS
<1>3. CASE x # k
  <2>1. StateOf(e, x)' \in {StateOf(e, x), INVALID} /\ StateOf(d, x)' \in {StateOf(d, x), INVALID}
    BY <1>1, <1>2, <1>3, TouchEffect
  <2>2. StateOf(d, x) = INVALID
    BY <1>1, <2>1 DEF SingleWriter
  <2> QED
    BY <2>1, <2>2
<1>4. CASE x = k /\ e = c
  <2>1. StateOf(e, x)' = IF req.write THEN MODIFIED
                         ELSE IF StateOf(e, x) = INVALID THEN SHARED ELSE StateOf(e, x)
    BY <1>1, <1>2, <1>4, TouchOwnState
  <2>2. req.write \/ StateOf(e, x) = MODIFIED
    BY <2>1 DEF SHARED, MODIFIED
  <2> QED
    BY <1>2, <1>4, <2>2, TouchPeerState
<1>5. CASE x = k /\ d = c
  BY <1>1, <1>2, <1>5, TouchPeerState
<1>6. CASE x = k /\ e # c /\ d # c
  <2>1. CASE e \in OnBusWith(c)
    BY <1>2, <1>6, <2>1, TouchPeerState
  <2>2. CASE e \notin OnBusWith(c)
    <3>1. d \notin OnBusWith(c)
      BY <1>1, <1>6, <2>2 DEF OnBusWith
    <3>2. StateOf(e, x)' \in {StateOf(e, x), INVALID} /\ StateOf(d, x)' \in {StateOf(d, x), INVALID}
      BY <1>1, <1>2, <1>6, <2>2, <3>1, TouchEffect
    <3>3. StateOf(d, x) = INVALID
      BY <1>1, <3>2 DEF SingleWriter
    <3> QED
      BY <3>2, <3>3
  <2> QED
    BY <2>1, <2>2
<1> QED
  BY <1>3, <1>4, <1>5, <1>6

--------------------------------------------------------------------------------

\* Every step is an activation touching a line, or leaves all lines as they are.
LEMMA TouchOrKeep ==
  ASSUME StackInv, [Next]_vars
  PROVE  \/ UNCHANGED <<tag, state>>
         \/ \E c, line, filled : /\ Touches(c, line, filled)
                                 /\ Found(c, req.block) => line = Location(c, req.block)
<1>1. CASE Hit
  <2>1. TypeOK
    BY DEF StackInv
  <2> QED
    BY <1>1, <2>1, HitTouches, Zenon
<1>2. CASE Fill
  BY <1>2, FillTouches, Zenon
<1>3. (\E cache \in Caches, b \in Blocks, write \in BOOLEAN : Access(cache, b, write))
        => UNCHANGED <<tag, state>>
  BY DEF Access, lineVars
<1>4. MissToHigher \/ MissAtTop \/ WildBus \/ UNCHANGED vars => UNCHANGED <<tag, state>>
  BY DEF MissToHigher, MissAtTop, WildBus, vars
<1> QED
  BY <1>1, <1>2, <1>3, <1>4, StepCases, Zenon

LEMMA SameLinesSameView ==
  ASSUME UNCHANGED <<tag, state>>
  PROVE  /\ OneLinePerBlock => OneLinePerBlock'
         /\ SingleWriter => SingleWriter'
         /\ \A c \in Caches, b \in Blocks : StateOf(c, b)' = StateOf(c, b)
<1>1. \A c \in Caches, b \in Blocks : StateOf(c, b)' = StateOf(c, b)
  BY DEF StateOf, Found, Location, Matches
<1>2. OneLinePerBlock => OneLinePerBlock'
  BY DEF OneLinePerBlock
<1>3. \A c \in Caches : OnBusWith(c) \subseteq Caches
  BY DEF OnBusWith
<1>4. ASSUME SingleWriter, NEW c \in Caches, NEW b \in Blocks, StateOf(c, b)' = MODIFIED,
             NEW d \in OnBusWith(c)
      PROVE  StateOf(d, b)' = INVALID
  <2>1. StateOf(c, b) = MODIFIED /\ d \in Caches
    BY <1>1, <1>3, <1>4
  <2> QED
    BY <2>1, <1>1, <1>4 DEF SingleWriter
<1>5. SingleWriter => SingleWriter'
  BY <1>4 DEF SingleWriter
<1> QED
  BY <1>1, <1>2, <1>5

LEMMA InitIInv == Init => IInv
<1> SUFFICES ASSUME Init PROVE IInv
  OBVIOUS
<1>1. StackInv
  BY InitStackInv
<1>2. ASSUME NEW c \in Caches, NEW b \in Blocks, NEW l \in Window(c, b)
      PROVE  tag[c][l] # Tag(c, b)
  <2>1. tag[c][l] = -1 /\ Tag(c, b) \in Nat
    BY WindowInLines, DivisionBounds DEF Init, NoTag
  <2> QED
    BY <2>1
<1>3. OneLinePerBlock
  BY <1>2 DEF OneLinePerBlock
<1>4. \A c \in Caches, b \in Blocks : StateOf(c, b) = INVALID
  BY <1>2 DEF StateOf, Found, Matches
<1>5. SingleWriter
  BY <1>4 DEF SingleWriter, OnBusWith
<1> QED
  BY <1>1, <1>3, <1>5 DEF IInv, StackInv

LEMMA NextIInv == NoAliasing /\ IInv /\ [Next]_vars => IInv'
<1> SUFFICES ASSUME NoAliasing, IInv, [Next]_vars PROVE IInv'
  OBVIOUS
<1>1. StackInv /\ TypeOK /\ OneLinePerBlock /\ SingleWriter
  BY DEF IInv, StackInv
<1>2. StackInv'
  BY <1>1, NextStackInv
<1>3. OneLinePerBlock' /\ SingleWriter'
  <2>1. CASE UNCHANGED <<tag, state>>
    BY <1>1, <2>1, SameLinesSameView
  <2>2. ASSUME NEW c, NEW line, NEW filled, Touches(c, line, filled),
               Found(c, req.block) => line = Location(c, req.block)
        PROVE  OneLinePerBlock' /\ SingleWriter'
    <3>1. OneLinePerBlock'
      BY <1>1, <2>2, TouchesKeepsOneLine
    <3> QED
      BY <1>1, <2>2, <3>1, TouchSingleWriter
  <2> QED
    BY <1>1, <2>1, <2>2, TouchOrKeep, Zenon
<1> QED
  BY <1>2, <1>3 DEF IInv, StackInv

\* Coherence: if windows do not alias, a block that one cache of a bus may write
\* is valid in no other cache of that bus, whatever the topology, the geometry
\* and the sequence of accesses, evictions and spurious invalidations.
THEOREM CoherentBuses == NoAliasing => (Spec => []SingleWriter)
<1> SUFFICES ASSUME NoAliasing PROVE Spec => []SingleWriter
  OBVIOUS
<1>1. IInv /\ [Next]_vars => IInv'
  BY NextIInv
<1>2. IInv => SingleWriter
  BY DEF IInv
<1> QED
  BY <1>1, <1>2, InitIInv, PTL DEF Spec

\* If windows do not alias, no block is ever in two lines of a cache.
THEOREM BlocksAreNotDuplicated == NoAliasing => (Spec => []OneLinePerBlock)
<1> SUFFICES ASSUME NoAliasing PROVE Spec => []OneLinePerBlock
  OBVIOUS
<1>1. IInv /\ [Next]_vars => IInv'
  BY NextIInv
<1>2. IInv => OneLinePerBlock
  BY DEF IInv
<1> QED
  BY <1>1, <1>2, InitIInv, PTL DEF Spec

--------------------------------------------------------------------------------

\* The refinement mapping takes values in the abstract state space.
MappingTypeOK == st \in [BusCaches -> [Blocks -> LineStates]]

LEMMA MappingTyped == TypeOK => MappingTypeOK
<1> SUFFICES ASSUME TypeOK, NEW c \in BusCaches, NEW b \in Blocks
             PROVE  StateOf(c, b) \in LineStates
  BY DEF MappingTypeOK, st
<1> QED
  BY StateOfType DEF BusCaches, TypeOK

\* Both modules name the line states alike.
LEMMA SameStateNames ==
  /\ Coherence!INVALID = INVALID /\ Coherence!SHARED = SHARED
  /\ Coherence!MODIFIED = MODIFIED /\ Coherence!LineStates = LineStates
BY DEF Coherence!INVALID, Coherence!SHARED, Coherence!MODIFIED, Coherence!LineStates,
       INVALID, SHARED, MODIFIED, LineStates

LEMMA InitRefines == Init => Coherence!Init
<1> SUFFICES ASSUME Init, NEW c \in BusCaches, NEW b \in Blocks
             PROVE  StateOf(c, b) = INVALID
  BY SameStateNames DEF Coherence!Init, st
<1>1. c \in Caches
  BY DEF BusCaches
<1>2. ASSUME NEW l \in Window(c, b) PROVE tag[c][l] # Tag(c, b)
  <2>1. tag[c][l] = -1 /\ Tag(c, b) \in Nat
    BY <1>1, WindowInLines, DivisionBounds DEF Init, NoTag
  <2> QED
    BY <2>1
<1> QED
  BY <1>2 DEF StateOf, Found, Matches

\* One activation is one abstract read or write, or loses copies.
LEMMA TouchRefines ==
  ASSUME NoAliasing, TypeOK, TypeOK', OneLinePerBlock, OneLinePerBlock', SingleWriter,
         NEW c, NEW line, NEW filled, Touches(c, line, filled)
  PROVE  Coherence!Next
<1>1. PICK b : b = req.block
  OBVIOUS
<1>2. c \in Caches /\ b \in Blocks /\ BusCaches \subseteq Caches
  BY <1>1 DEF Touches, BusCaches
<1>3. Coherence!Typed
  <2>1. MappingTypeOK'
    BY MappingTyped, PTL
  <2> QED
    BY <2>1, SameStateNames DEF MappingTypeOK, Coherence!Typed
<1>4. \A d \in BusCaches, x \in Blocks :
        st[d][x] = StateOf(d, x) /\ st'[d][x] = StateOf(d, x)'
  BY DEF st
<1>5. \A d \in BusCaches, x \in Blocks :
        x # b => StateOf(d, x)' \in {StateOf(d, x), INVALID}
  BY <1>1, <1>2, TouchEffect
<1>6. \A d \in BusCaches \ {c} :
        d \notin OnBusWith(c) => StateOf(d, b)' \in {StateOf(d, b), INVALID}
  BY <1>1, <1>2, TouchEffect
<1>7. CASE c \in BusCaches
  <2>1. Coherence!Peers(c) = OnBusWith(c)
    BY <1>7 DEF Coherence!Peers, OnBusWith, BusCaches
  <2>2. Coherence!OthersKeptOrLost(c, b)
    BY <1>2, <1>4, <1>5, <1>6, <1>7, <2>1, SameStateNames
    DEF Coherence!OthersKeptOrLost, Coherence!KeptOrLost
  <2>3. StateOf(c, b)' = IF req.write THEN MODIFIED
                         ELSE IF StateOf(c, b) = INVALID THEN SHARED ELSE StateOf(c, b)
    BY <1>1, <1>7, HierarchyAssumption, TouchOwnState DEF IsTopology, BusCaches
  <2>4. \A d \in OnBusWith(c) :
          /\ d \in BusCaches
          /\ req.write => StateOf(d, b)' = INVALID
          /\ StateOf(d, b)' # MODIFIED
          /\ StateOf(d, b) = INVALID => StateOf(d, b)' = INVALID
    BY <1>1, TouchPeerState DEF OnBusWith, BusCaches
  <2>5. CASE req.write
    <3>1. Coherence!Write(c, b)
      BY <1>2, <1>3, <1>4, <1>7, <2>1, <2>2, <2>3, <2>4, <2>5, SameStateNames DEF Coherence!Write
    <3> QED
      BY <1>2, <1>7, <3>1 DEF Coherence!Next
  <2>6. CASE ~req.write
    <3>1. \A d \in OnBusWith(c) : Coherence!NotWritable(d, b)
      BY <1>2, <1>4, <2>4, SameStateNames DEF Coherence!NotWritable
    <3>2. Coherence!Read(c, b)
      BY <1>2, <1>3, <1>4, <1>7, <2>1, <2>2, <2>3, <2>6, <3>1, SameStateNames DEF Coherence!Read
    <3> QED
      BY <1>2, <1>7, <3>2 DEF Coherence!Next
  <2> QED
    BY <2>5, <2>6
<1>8. CASE c \notin BusCaches
  <2>1. \A d \in BusCaches : d # c /\ d \notin OnBusWith(c)
    BY <1>2, <1>8 DEF BusCaches, OnBusWith
  <2>2. \A d \in BusCaches, x \in Blocks : Coherence!KeptOrLost(d, x)
    BY <1>4, <1>5, <1>6, <2>1, SameStateNames DEF Coherence!KeptOrLost
  <2> QED
    BY <1>3, <2>2 DEF Coherence!Next, Coherence!Lose
<1> QED
  BY <1>7, <1>8

\* The caches of the buses implement coherent blocks without lines, tags, sets or
\* levels, if windows do not alias.
THEOREM ImplementsCoherentBlocks == NoAliasing => (Spec => CoherenceSpec)
<1> SUFFICES ASSUME NoAliasing PROVE Spec => CoherenceSpec
  OBVIOUS
<1>1. IInv /\ [Next]_vars => IInv'
  BY NextIInv
<1>2. IInv /\ IInv' /\ [Next]_vars => [Coherence!Next]_st
  <2> SUFFICES ASSUME IInv, IInv', [Next]_vars PROVE [Coherence!Next]_st
    OBVIOUS
  <2>1. StackInv /\ TypeOK /\ TypeOK' /\ OneLinePerBlock /\ OneLinePerBlock' /\ SingleWriter
    BY DEF IInv, StackInv
  <2>2. CASE UNCHANGED <<tag, state>>
    <3>1. \A c \in BusCaches, b \in Blocks : StateOf(c, b)' = StateOf(c, b)
      BY <2>2, SameLinesSameView DEF BusCaches
    <3> QED
      BY <3>1 DEF st
  <2>3. ASSUME NEW c, NEW line, NEW filled, Touches(c, line, filled)
        PROVE  Coherence!Next
    BY <2>1, <2>3, TouchRefines
  <2> QED
    BY <2>1, <2>2, <2>3, TouchOrKeep, Zenon
<1> QED
  BY <1>1, <1>2, InitIInv, InitRefines, PTL DEF Spec, CoherenceSpec, Coherence!Spec

--------------------------------------------------------------------------------

\* In every geometry, an activation leaves the block it was asked for in its
\* cache, in the state the protocol gives it.
LEMMA TouchServes ==
  ASSUME TypeOK, NEW c, NEW line, NEW filled, Touches(c, line, filled),
         NEW b, b = req.block, Found(c, b) => line = Location(c, b)
  PROVE  StateOf(c, b)' = ProtocolState(c, StateOf(c, b))
<1>1. c \in Caches /\ b \in Blocks /\ line \in Window(c, b) /\ line \in Lines(c)
      /\ line \in Nat
  BY WindowInLines DEF Touches
<1>2. /\ tag'[c][line] = Tag(c, b)
      /\ \A l \in Lines(c) : l # line => tag'[c][l] = tag[c][l]
  BY <1>1 DEF Touches, TypeOK, IsLineArray
<1>3. state'[c][line] = ProtocolState(c, StateOf(c, b))
  <2>1. state'[c] = [state[c] EXCEPT ![line] = ProtocolState(c, StateOf(c, b))]
    BY <1>1 DEF Touches, StatesAfter
  <2> QED
    BY <2>1, <1>1 DEF TypeOK, IsLineArray
<1>4. Found(c, b)' /\ Location(c, b)' = line
  <2>1. CASE Found(c, b)
    <3>1. tag[c][line] = Tag(c, b)
      BY <1>1, <2>1, LocationMatches
    <3>2. tag'[c] = tag[c]
      BY <1>1, <3>1 DEF Touches, TypeOK, IsLineArray
    <3> QED
      BY <1>1, <2>1, <3>2, SameTagsSameLookup
  <2>2. CASE ~Found(c, b)
    <3>1. {l \in Window(c, b) : tag'[c][l] = Tag(c, b)} = {line}
      BY <1>1, <1>2, <2>2, WindowInLines DEF Found, Matches
    <3>2. First({line}) = line
      BY <1>1, FirstIsLeast
    <3>3. Matches(c, b)' = {line}
      BY <3>1 DEF Matches
    <3> QED
      BY <3>2, <3>3, Zenon DEF Found, Location
  <2> QED
    BY <2>1, <2>2
<1> QED
  BY <1>3, <1>4, Zenon DEF StateOf

ServedInv == StackInv /\ ServedByHigherLevel

LEMMA NextServedInv == ServedInv /\ [Next]_vars => ServedInv'
<1> SUFFICES ASSUME ServedInv, [Next]_vars PROVE ServedInv'
  OBVIOUS
<1>1. StackInv /\ StackInv' /\ TypeOK /\ TypeOK' /\ FramesClimb
  BY NextStackInv DEF ServedInv, StackInv
<1>2. CASE Hit \/ Fill
  <2>1. frames # <<>> /\ Return /\ req' = req
    BY <1>1, <1>2 DEF Hit, Fill, TypeOK
  <2>2. PICK c, line, filled :
          /\ c = Head(frames) /\ Touches(c, line, filled)
          /\ Found(c, req.block) => line = Location(c, req.block)
    BY <1>1, <1>2, HitTouches, FillTouches, Zenon
  <2> SUFFICES ASSUME phase' = "fill"
               PROVE  /\ Higher[Head(frames')] = c
                      /\ StateOf(c, req.block)'
                           \in IF req'.write THEN {MODIFIED} ELSE {SHARED, MODIFIED}
    BY <1>1 DEF ServedInv, ServedByHigherLevel, StateOf, Found, Location, Matches
  <2>3. Higher[Head(frames')] = c
    <3>1. frames' # <<>> /\ frames' \in Seq(Caches) /\ Len(frames') = Len(frames) - 1
          /\ Len(frames) \in Nat /\ \A i \in 1 .. Len(frames') : frames'[i] = frames[i + 1]
      BY <1>1, <2>1, ReturnType, LenProperties DEF TypeOK
    <3>2. Len(frames') >= 1 /\ Head(frames') = frames'[1] /\ Head(frames) = frames[1]
      BY <1>1, <2>1, <3>1, EmptySeq, LenProperties DEF TypeOK
    <3>3. 1 \in 1 .. Len(frames) - 1 /\ frames'[1] = frames[1 + 1]
      BY <3>1, <3>2
    <3>4. Higher[frames[1 + 1]] = frames[1]
      BY <1>1, <3>3, Zenon DEF FramesClimb
    <3> QED
      BY <2>2, <3>2, <3>3, <3>4
  <2>4. PICK b : b = req.block
    OBVIOUS
  <2>5. StateOf(c, b)' = ProtocolState(c, StateOf(c, b))
    BY <1>1, <2>2, <2>4, TouchServes
  <2>6. StateOf(c, b) \in LineStates
    BY <1>1, <2>2, <2>4, StateOfType DEF Touches, TypeOK
  <2>7. ProtocolState(c, StateOf(c, b)) \in IF req.write THEN {MODIFIED} ELSE {SHARED, MODIFIED}
    BY <2>6, ProtocolTable DEF ProtocolState, Event, LineStates
  <2>8. StateOf(c, req.block)' = StateOf(c, b)'
    BY <2>1, <2>4 DEF StateOf, Found, Location, Matches
  <2> QED
    BY <2>1, <2>3, <2>5, <2>7, <2>8
<1>3. CASE MissAtTop
  BY <1>1, <1>3 DEF MissAtTop, ServedInv, ServedByHigherLevel
<1>4. CASE MissToHigher \/ WildBus
           \/ \E cache \in Caches, b \in Blocks, write \in BOOLEAN : Access(cache, b, write)
  <2>1. phase' # "fill"
    BY <1>4 DEF MissToHigher, WildBus, Access
  <2> QED
    BY <1>1, <2>1 DEF ServedInv, ServedByHigherLevel
<1>5. CASE UNCHANGED vars
  BY <1>1, <1>5 DEF vars, ServedInv, ServedByHigherLevel, StateOf, Found, Location, Matches
<1> QED
  BY <1>2, <1>3, <1>4, <1>5, StepCases, Zenon

\* In every geometry, a level is filled only from a higher level that holds the
\* block, and for a write holds it writable.
THEOREM FillsAreServed == Spec => []ServedByHigherLevel
<1>1. Init => ServedInv
  <2>1. Init => phase = "idle"
    BY DEF Init
  <2> QED
    BY <2>1, InitStackInv DEF ServedInv, ServedByHigherLevel
<1>2. ServedInv => ServedByHigherLevel
  BY DEF ServedInv
<1> QED
  BY <1>1, <1>2, NextServedInv, PTL DEF Spec
================================================================================
