# A TLA+ model of the functional cache simulator

The program replays a memory trace of a guest machine (made by QEMU) through simulated
caches. It exists as a single-process simulator (`simulator/simple`), one for gem5 traces
(`simulator/gem`) and one distributed over MPI processes (`simulator/distributed`). The
modules here model the caches and their coherence protocol, the two double-buffered trace
readers, the distribution of accesses over workers, the simulator's copy of the guest's
memory with the address translation that reads its page tables, and every program of the
repository from `main` to its end: how it builds its caches, what it reads and receives,
and how it decodes its trace and acts on it. All are checked by TLC on small instances;
the safety invariants of all of them are proved with TLAPS for every value of the
constants, under assumptions that are listed below.

`build.sh` defines `MULTI_LEVEL_MEMORY`, `ADDRESS_TRANSLATION`, `INPUT_FILE` and
`SIMULATE_CACHE`; where the preprocessor selects code, this is the code modelled. Paths
and line numbers are those under `src/`.

## The system

| part | state | operations | talks to |
|---|---|---|---|
| caches (`cache/`) | lines (tag, state, last_used) of each cache; links to the higher and lower caches; buses | `access_cache_in_hierarchy`, which runs `access_cache` recursively, `handle_bus_event`, `inform_lower_level_caches_eviction`, `find_line_to_evict_lru`, `new_state_msi`; set-up calls | called by the simulators and workers; calls back on a miss |
| MPI trace reader (`filereader/mpireader.c`) | two buffers, the current one, a read index, one open receive | `read_from_buffer` | receives what the input reader sends |
| shared memory reader (`filereader/sharedmemreader.c`) | two shared buffers, four semaphores, a read index | `read_from_smem`, `get_current_buffer` | QEMU writes the buffers |
| input reader (`input_reader.c`) | a buffer | sends memory ranges, mapping, control registers, then the trace | coordinator |
| coordinator (`coordinator.c`) | control registers, copy of memory, two batches per worker and an open request | the event loop, `process_cache_access` | receives the trace, sends batches |
| worker (`worker.c`) | 16 cache hierarchies, a buffer | receive a batch, access the caches | coordinator; the output writer, in code commented out |
| simple simulator (`simulator.c`) | the same event loop with the caches in the process | | a file or the shared memory reader |
| memory copy (`memory/`, `pagetable/`, `control_registers/`) | pages loaded so far, registers of each CPU | `read_sim_memory`, `write_sim_memory`, `vaddr_to_phys`, `set_cr_value` | called by the event loops |
| gem5 simulator (`simulator/gem`) | one hierarchy of two levels, counters of misses | reads fixed records, accesses the caches | a file; called back on a miss |
| printtrace (`printtrace.c`) | counters | the event loop without caches and memory | a file or the shared memory reader |
| output writer (`output.c`) | a list of buffers per worker | receive, merge by timestamp | would receive from workers |

The hard behaviours are these.

- *Interleaving.* MPI writes a posted receive buffer and reads a sent batch whenever it
  likes; QEMU writes a shared buffer while the reader copies out of the other. Each pair of
  buffers is safe only because of the order of wait, copy, post and swap.
- *State used after a call.* `access_cache` decides that it misses, then runs the whole
  access on the levels above, whose fills invalidate lines below and whose bus requests
  change their peers, and only then fills.
- *Stale copies.* Stores to user pages are never copied, and pages are loaded late from an
  old dump, yet every translation reads this copy.
- *Sequences.* The state a block has in several caches of a bus is the result of every
  read, write, fetch and eviction since the start.
- *Starts.* The coordinator posts the receive for the trace before it receives ranges,
  mapping and registers by tag from the same sender; each side reads files that may be
  missing and returns early, and the other must not wait for it for ever.
- *Decoding.* Records follow each other without separators, with times of two lengths: one
  wrong width and the rest of a trace is garbage that still decodes.
- *Ends.* The event loops stop without flushing batches; the input reader drops the last
  part of a buffer; the end of a process without `MPI_Finalize` is what ends the others.
  Nothing is persisted and no process is restarted, so there is no crash recovery to model.

What makes each part correct:

- caches: a block writable in one cache of a bus is in no other; a block is in one line of
  a cache; a fill puts in a block that is still absent and that the level above has; an
  access returns; an eviction takes the oldest line and reaches the levels below;
- readers: reads return the bytes of the trace, once each and in order, and a read whose
  bytes are there returns; reader and writer do not wait for each other;
- distribution: stores stay in the buffers, a batch is not overwritten while it is sent,
  each worker sees its shard in order, every full batch is simulated;
- set-up: links between levels go both ways, a bus has all caches of its level, every
  processor has a cache on the first level and a way up from it to the last, and an access
  meets nothing half built;
- programs: the loop has what the files say, every event is handled as it was written,
  every block of code is fetched, counters add up, and all processes end with the trace;
- simulated memory: dump, tables and stores together are one flat memory;
- memory copy: the pages that hold page tables are right, so translations and the
  addresses given to the caches are.

`PROJECT.json` lists all components with what is left out of each, and under `hazards`,
line by line, what can go wrong and which property would show it.

## Modules

```
Msi ────────────┐                                 InOrderStream ─┬─ MpiReader ─── MpiReaderProofs
CoherentBlocks ─┼─ CacheHierarchy ─┬─ MCHierarchy   (abstract)    ├─ SmemReader ── SmemReaderProofs
  (abstract)    │                  └─ CacheHierarchyProofs         └─ Dispatch ──── DispatchProofs
Topology ───────┤                                 MemoryReplica ─┬─ MCReplica
                │                                                └─ MemoryReplicaProofs
                └─ HierarchySetup ──────┬─ Programs ─┬─ MCPrograms
                                        │            ├─ HierarchySetupProofs
SimMemory ─── Startup ─── EventLoops ─┬─┘            └─ ProgramsProofs
                                      └─ EventLoopsProofs ──┘
```

**Msi** is the table of `cache/msi.c`. **CacheHierarchy** is `access_cache` on any
topology. `frames` is the stack of its activations; the running one is in phase `lookup`
until it knows whether it hits (`Hit`, `MissToHigher`, `MissAtTop`), and in phase `fill`
when its recursive call has returned. `Fill` is the rest of the function in one step:
choice of the line, informing the lower caches, flush report, new tag and state, bus
request with its effect on every peer, return. The code is sequential, so the steps of
one access do not interleave with another access; they are separate because the invariants
are about what a suspended activation may still assume. `WildBus` is the outcome of
reading the pointer `bus` that `setup_cachestate` leaves unset. Windows are as in the
code: lines `set_idx .. set_idx + associativity - 1`, which overlap for neighbouring sets.
`SearchesInArray`, a part of `TypeOK`, says that each window, and the line a search takes from
it, is in the array of its cache.
**CoherentBlocks** says what the caches of a bus promise, without lines, tags, sets or
levels. **MCHierarchy** holds the small topologies.

**Topology** is what one half of the cache code relies on and the other half provides: where
an access starts, how links lead on, which caches share a bus, how large sets are.
CacheHierarchy assumes it of its constants; HierarchySetup instantiates it with the caches it
has built, and `BuiltIsClimbable` says that it holds of them.

**InOrderStream** is what a reader of a stream is promised: consecutive reads give
consecutive items. Three modules implement it.

**MpiReader** is `read_from_buffer` and the network. The call is split where it waits:
`FirstBuffer`, `CopyWithin`, or `CopyFirstPart`, `ChangeBuffer`, `CopyRest`. `Arrive` is
MPI (external) writing one byte into the posted buffer at any time; `Send` is the sending
loop of `run_input_reader`. A byte is its position in the trace.

**SmemReader** is `read_from_smem` and `get_current_buffer`, from the point where
`setup_shared_mem` has initialised the semaphores and waits for the first buffer. The post
(`Release`) and the wait (`Acquire`) are separate steps. The writer's actions (`TakeBuffer`,
`WriteByte`, `Publish`) are external: QEMU, as the semaphores' names and initial values
imply.

**Dispatch** is `process_cache_access` (`Store`, `Wait`, one `Send` per round of its loop,
`Sent`), the end of `run_coordinator` (`Stop`), the transport (`Take`: MPI takes the data of
a message out of its batch at any time between the send and the receive) and the receive
loop of `run_worker` (`Receive`). A store outside the worker buffers sets `pc` to
`corrupt`. `WorkersPerCache` is the 8 of the code. A worker that cannot handle an access ends
within its batch (`worker.c:101-104`); the accesses here are ones it can handle.

**MemoryReplica** has the guest (memory, registers, its memory management unit) next to
the simulator (`replica`, `cr`, `userPage`); `registers` are the guest's control registers,
`cr` what the simulator takes them for. The variable `program` chooses which of the
two event loops runs; they differ in clearing `is_user_page_access` and in translating
fetches. `VaddrToPhys` is the page walk, in words and frames. An entry has a frame (bits 12 to
49, `Frames` of them) and, in `high`, what is above it up to bit 62. Tables and 4 KB pages are
`Masked` with 0x3fffffffff000; of large pages the code clears only bit 63 and the low bits, so
their `high` bits reach the address (`Unmasked`). That is a fault of the code (a finding), and
`Disciplined` leaves it out: the guest sets no such bit in the entry of a large page. It
also sets no page size bit in the first table (line 67, which keeps bits 30 to 47 only). Each
event of the trace is one action: `DataLoad`, `DataStore`, `Fetch`, `UpdateCr`, `End`.
**MCReplica** is a guest with two roots, four-level tables, a large and a huge page, an
uncached device page and an unmapped one, whose tables and small pages have a software bit
set. With that bit in the entry of its large page as well, TLC refutes `TranslatesLikeGuest`.

**HierarchySetup** is `setup_cachestate`, `add_lower_level_cache`, the bus, and
`init_cache_level`, `add_caches_to_level` and `add_level`, one action each, with every
refusal and what it leaves behind. Callers are of two kinds. `PlanCall` is a `setup_cache`
function: it follows a plan of levels. `TestCall` is a unit test: it makes the calls in any
order and with arguments that are refused, also below caches that are in a level or were set up
below others. It keeps to what the tests and simulators do: caches it adds to a level ask no
other cache yet, one level is built at a time, and instruction caches are on the lowest levels
only. (Above a level without them `add_level` would read pointers nobody wrote.)
`setup_cachestate` links a cache before it refuses its associativity: the higher cache keeps it
(a finding), and `HalfBuiltConfined` says what still holds: no access
and no bus request meets it. An eviction in the higher cache does inform it.

**SimMemory** is `memory.c` and `get_memory_for_address` byte by byte, for several ranges.
A byte is named by where it comes from, a place in a dump or a store, so a page in the wrong
place, or loaded again, shows. `Parts` is the recursion at a page end. `Copied` has the
sizes for which the code has an assignment; a part of another size is skipped. `flat` is
what the guest has, `lost` the bytes of the last store to them that were skipped. Ranges
start at a page and are at most `PageSize * Level2 * Level1` (2^40 bytes) long; longer ones
would share table slots.

**Startup** is everything before a loop: `Role` and `Main` for the processes of the
distributed simulator, `ReadAndSend` for the input reader, `ReceiveRanges`, `SetUpMemory`,
`ReceiveMapping`, `ReceiveRegisters` for the coordinator, `ReadNext` and `SetUpMemory` along
`Stages` for the others. `ReadRegisters` is `read_cr_values_from_dump`: one round for each
processor, whatever the number of entries, with unchecked calls of `fscanf`; a round behind the
last entry overwrites that entry's processor with the last value. `mail` has the messages in transit, with their tags. External are
`SendReturns` (a send may return before or only after its message is received), `TraceArrives`
and `EndJob` (mpirun ends a job that has lost a process).

**EventLoops** is the four loops. The trace is bytes: an external writer appends what
`Encoded` makes of an event, while `Delta`, `Widths` and `Heard` take it apart as the readers
do. A word has three bytes of 32 values here. A round of a loop is one action
(`MemoryAccess`, `ControlRegister`, `Invlpg`, `Block`, `GemAccess`, or one of the ways out:
`NoEvent`, `CutEvent`, `UnknownEvent`, `LimitReached`), but for the page table reads of a
translation, which load pages: they are a step of their own, `Translate`. What they find is
MemoryReplica's subject: here pages are user, uncached or unmapped by a constant.

**Programs** puts them together: `program` chooses one of the five, `SetUpCaches`, `Start`
and `Loop` are its parts in the order of its `main`. Since a worker's caches are its own, the
plan of the distributed simulator is taken before its processes start. **MCPrograms** has the
plans of the three `setup_cache` functions and the inputs.

Definitions named "mutated form of X" in a module are plausible wrong versions of X, not
used by the specification: substituting one for X makes TLC refute the property
`PROJECT.json` names with it, which shows that the property depends on X.

## Runs

| run | what it asks | instance | bounds and why they are enough |
|---|---|---|---|
| `hierarchy_deep` | single writer, fills of absent blocks, served by the level above, accesses return | two processors with L1 data and instruction caches on a bus, private L2 on a bus, shared L3: the shape of `worker.c:38-64` | one line per cache and two blocks: every fill evicts the other block, in each of the seven caches; two processors give every order of reads, writes and fetches |
| `hierarchy_assoc` | types, searches in the array, one line per block, refinement of CoherentBlocks | two caches on a bus, one set of two lines | three blocks, so that a set overflows |
| `hierarchy_overlap_msi` (violation) | single writer when windows overlap | two sets of two lines | two neighbouring blocks with one tag suffice |
| `hierarchy_lru` (violation) | a fill takes the oldest line | one set of two lines | timestamps to 3 |
| `hierarchy_inclusion` (violation) | a block leaving a level leaves the levels below | L1s under one last level | one line per cache |
| `mpi_reader` | stream refinement, a read whose bytes were sent returns | buffers of 4 bytes, reads of 1 to 4 | 21 bytes: five messages, so both buffers are reused, and a rest that is not sent; up to 2 messages ahead |
| `smem_reader` | the same, and no mutual wait | buffers of 4 bytes, reads of 1 to 4 | 21 bytes: five buffers and a rest |
| `dispatch` | bounds, no write in transit, order, full batches simulated | 11 processes: 8 workers, two of them used | batches of 2, up to 7 accesses per shard: three full batches and a partial one |
| `dispatch_world_size` (violation) | bounds for 8 processes | as above | |
| `replica` | copy, translation and forwarded addresses right | MCReplica with two processors, one of them with paging disabled at first; both event loops; real mode only in the simple simulator's trace | tables of 2 entries; each processor changes its root, loses paging or gets 32-bit tables; 1 store of 2 values, enough to change a table entry and use it, or to be skipped; what more stores do follows from the theorems |
| `replica_real_mode` (violation) | stores with paging disabled reach the copy | one processor, 2 stores, real mode in both | |
| `programs` | the seventeen properties of HierarchySetup, SimMemory, Startup, EventLoops and Programs | every program; good inputs, each file missing once, no range, a range without a dump, three ranges and four (the limits of both simulators) | below |

The run `programs` has two processors, 2 MPI processes (refused) and 4 (one worker, and each
other role once); more workers only repeat one that has settled. Tests set up at most four
caches, enough for two levels of two, or for a level of two pairs, and arrays of two entries,
so that they are enlarged. Pages have 8 bytes and accesses up to 8, so an access may end
on, or run over, a page end, into a page of the same range or out of all ranges; tables have 2
and 4 entries, so both indexes are used; one range has only part of its dump. Up to three
events: each event after each other one, and a third to see that the trace is still in step.
The files of initial registers have an entry for each processor, too few (simple) or too many
(coordinator). A trace may lack its last one or two bytes, which cuts headers and records. `Lead` = 1: the
writer is at most one event ahead, as the loops look at one record at a time. Limits are
2 events in simple and 3 in the coordinator, gem's interval is 2.
`MaxLevels`, `MaxRanges`, `Limit`, `CoordinatorLimit` and `Interval` are constants of the code
made small; `MaxCaches`, `MaxEvents` and `Lead` are bounds of the model.

The bounds named as constants are `MaxTime`, `TraceSize`, `Buffered` (bytes `MPI_Send` may
return ahead of the receiver), `MaxAccesses` and `MaxStores`. Only TLC needs them; the
proofs hold for all values.

The violation runs show where the code does not do what its comments, tests or messages
say; `findings` in `PROJECT.json` quotes them:

1. `get_line_location_in_cache` starts at `set_idx`, not `set_idx * associativity`: sets
   share lines, the state of one block is read as another's, and two caches disagree about
   who may write.
2. `find_line_to_evict_lru` compares the wrong timestamp: a full set always loses its first
   line.
3. Lower levels are informed of the block that comes in, not of the one that goes out.
4. With fewer than 11 processes the coordinator stores outside its worker buffers.
5. The coordinator does not clear `is_user_page_access`, and with paging disabled drops
   stores depending on what it was left at.

Others were met while modelling and have no run of their own; the models follow the code:
a cache refused for its associativity stays among the lower caches of the cache it was to be
below (`state.c:22`); the address of a large page keeps bits 50 to 62 of its entry
(`pagetable.c:89`, `115`); a file of initial registers with too few entries spoils the last
processor it lists (`control_registers.c:32-43`); the split of a store across a page end loses parts of 3, 5, 6 or 7 bytes (`memory.c:132`;
`LostOnlyInSplits` says that nothing else is lost); with `INPUT_SMEM` the input reader drops
the first buffer of the trace (`input_reader.c:117`); a block of code may lack its last line in
the simple simulator (`simulator.c:484`; `BlocksAreFetched`); `setup_cachestate` takes its
size in bytes where header and tests say lines (`state.c:29`, `state.c:36`); the datatype of
memory ranges describes more than the ranges (`mpi_datatype.c:32`); transfers of a whole page
are skipped and reported done (`pagetable.c:139`); printtrace stops at the first
`invlpg` (`printtrace.c:137`); the simple simulator refuses its tenth range
(`simulator.c:359`), reads an argument that may not be there (`simulator.c:260`) and an old
register value from the wrong place (`simulator.c:442`); and a comment has gem5's
record in another order (`gemfilereader.c:24`).

Deadlock is checked where the system always has a next step (the caches: a next access is
always possible). It is off in `mpi_reader` and `smem_reader` (the reader waits for ever at the
end of the trace), `dispatch` (the coordinator stops, workers wait for ever; the trace is
bounded), the runs of MCReplica (the event loops end) and `programs` (programs end, and tests stop when
their caches are used up).

## Fairness and liveness

- `AccessReturns`: weak fairness of the steps of `access_cache`, straight-line code on one
  thread. Without it nothing is assumed; in particular not that accesses are made.
- `SentBytesAreRead`: weak fairness of the reader's thread and of `Arrive` (MPI completes a
  receive that has a matching message). The input reader may stop at any time.
- `PublishedBytesAreRead`: weak fairness of the reader's thread only. The writer may stop in
  the middle of a buffer.
- `FullBatchesSimulated`: weak fairness of the coordinator's steps after a batch is full, of
  each worker's receive loop, and of the delivery of the first message to each worker. The
  trace may end at any time, and a batch that is not full is never promised anything:
  nothing sends it. Every full batch is, up to the bound of the run, as long as the coordinator
  has not returned; once it has, mpirun ends the workers and nothing is promised.
- `PlanBuilt`, `StartupSettles` and `ProgramEnds`: weak fairness of each process's next step
  (straight-line code), of MPI's deliveries and of the return of a send whose message was
  received, and of mpirun ending a job that lost a process. The last is not the
  repository's code, and `ProgramEnds` needs it for the distributed simulator: no process tells
  the workers that the trace has ended. Tests need not make calls, nor writers write.

Weak fairness is enough everywhere: none of these steps is disabled by another process once
it is enabled.

## Proofs

Each proof module defines an inductive invariant, proves that `Init` implies it and every
step keeps it, one lemma per action or group of actions, and derives the theorems. TLC
checked the invariants on the instances above before they were proved.

**CacheHierarchyProofs.** The invariant has the types; that the stack climbs from a cache to
its higher level (`FramesClimb`), so an access never meets the cache it started from; that
every suspended activation lacks the block (`SuspendedLack`); and coherence, one line per
block and, while a level fills, the state of the block in the level above. The climb is
what makes the lookup safe to use after the recursive call: the levels above inform only
lower caches of *invalidations*, which keep a tag absent that was absent, and their bus
peers are on their own level. Theorems: `TypeCorrect` (with the windows
of `SearchesInArray`, which need only that an associativity is at most the number of lines),
`FillsAreOfAbsentBlocks` and `FillsAreServed` in every geometry; `CoherentBuses`, `BlocksAreNotDuplicated` and
`ImplementsCoherentBlocks` under `NoAliasing` (no two blocks with one tag share a line of
their windows). `SimpleGeometryHasNoAliasing` proves this of caches with one line per set or
one set. The shipped configuration (16-way, many sets) does not satisfy it in general:
finding 1 is the counterexample. `HierarchyAssumption` is Topology's `IsTopology` and
`IsGeometry`, and is not taken on trust: `BuiltAlwaysClimbable` (below) is the theorem that
the simulators' hierarchies satisfy it. What stays assumed is that caches of one bus
have the same protocol, which the callers pass.

**MpiReaderProofs.** `Filling` and `Reading` say that the current buffer holds the piece of
the trace before the one that is arriving in the posted buffer, and that the two buffers
differ; `InCall` relates the call's position to the read index, and `result` to the bytes
copied. Then each return is a read of the stream and every other step stutters.

**SmemReaderProofs.** `OneOwner` counts, for each buffer, its two semaphores, the writer and
the reader: always one. `Turns` says that buffers are filled and read alternately, `Contents`
that the full ones and the current one hold consecutive pieces. The refinement follows as
for MPI; `NeverBothWait` follows from `Turns` and `OneOwner`: if the reader waits, no buffer
is full, the writer's next buffer is the reader's next, and nobody else can own it.

**DispatchProofs.** Under `OneReplica` (11 to 16 processes: all eight worker buffers exist,
and the loop sends one message per full batch). The invariant says that mail goes to the
worker its shard names and holds consecutive batches of it, that messages, batches and
simulated accesses add up to the accesses made, and that the only message that may be in
transit is the last one, from the batch that is not being filled. Theorems: `TypeCorrect`,
`StoresStayInBounds`, `BatchesInTransitAreIntact`, `WorkersSimulateInOrder`.

**MemoryReplicaProofs.** Under `AlwaysPaged` (the coordinator's trace has no access with
paging disabled; 5 above is what happens otherwise; the simple simulator's may have) and the
discipline of the guest's kernel, `Disciplined`: page tables are in kernel frames, user mode has
no access to those, and the entries of large pages have none of bits 50 to 62. A store the simulator skips is then to a page that is not a kernel frame, so the
copy of the kernel frames stays right, so the walk is right, so the user bit it returns for
the next store is: the invariant needs all of this at once. Theorems: `TypeCorrect`,
`CopyIsRight`, `TranslationIsRight`, `ForwardingIsRight`.

**HierarchySetupProofs.** The calls of HierarchySetup, in any order. The invariant adds to
the stated properties what is true between calls: a cache has one place in one level
(`Apart`), the caches of a level that was not added are not linked (`Loose`), levels have their
data and instruction caches in pairs (`Paired`), only caches that were returned, and so whole,
are in a level or asked by another (`Whole`). `LinksAgree` needs `Loose`: linking a cache
twice would break its first link. `LevelsServed` needs the refusals of `add_level`. `PlanFollowed` adds what is true of a
simulator's calls but not of a test's: added levels have one cache or one for each processor
(`add_level` itself accepts a first level with too few), and all caches have whole sets
(`setup_cachestate` compares the associativity with a size in bytes). It needs
`ProgramsAssumption`: a test has no plan. From both follows `BuiltIsClimbable`, at every
level finished: the caches of a level ask the next one (`HigherIsNext`), so a climb ends, and the
processor's index is in the first level's arrays (`EntryIsFirst`). Theorems:
`SetupInvariant`, `SetupTypesHold`, `LinksAlwaysAgree`, `BusAlwaysJoinsLevel`,
`LevelsAlwaysServed`, `HalfBuiltStaysConfined`, `BuiltAlwaysClimbable`.

**EventLoopsProofs** has only lemmas, about the operators of SimMemory and EventLoops. A read
and a store keep `MemoryIsFlat` together with the shape of the memories (`ReadKeeps`,
`WriteKeeps`): two addresses of one memory share a slot of the tables only if they are on one
page, which needs ranges of whole pages that fit the tables (`WholePages`), and a part that was
copied covers exactly the bytes `Written` says, whichever page each part is on. A block of
code has the lines `BlocksAreFetched` says (`CoordinatorFetches`, `SimpleFetches`). And a
reader makes of the bytes of an event what the writer meant (`EventDecodes`, `GemDecodes`):
the bytes of a number have its value, in either order, in spite of the sign in the id and of
the two bits that are cleared in a long time; each field of a record is where the one before it
ends; the id leads to the branch of its name; and the record is as long as what was written. The
recursive functions `LittleEndian`, `BigEndian`, `SumTo` and `Power` are reasoned about by
induction over their index, with `Computes` naming the function a `LET` hides.

**ProgramsProofs.** The invariant `ProgramsInv` has three parts. `StartInv` says where each
process may be and what it has by then: messages have the content of their files, ranges are
the file's in the opposite order, memories are those of the ranges in order, and only the
process of the loop sets any up. `MemoryInv` is that of EventLoopsProofs. `LoopInv` says that
the registers are the last ones set, or what the first `Processors` entries of the file say
(of a file with fewer, not those of the last processor it lists), that the counters are the numbers of
events handled by kind, and that each block's lines were fetched. A step of the loop is proved
once, in `NextEvent`, `SameEvent` and `InFrame`; an action then only says which counters it
raises (`Tally`) and what it fetches.

`TraceIsDecoded` is not inductive: it is about events, and the trace has bytes. `DecodeInv` has
the events that were written, `evs`, and where each of them ends, `q`, as witnesses: the
trace starts with the encodings of those that were not handled yet, each where the one before
it ends (`Left`), and either ends there or, once the writer has stopped, in the middle of one
more. That one is never handled, and no whole one is taken for it: a record is handled only if
all of it is there, and it is as long as its encoding (`EventIsNext`, `EndsDecode`). An event has
its time only from all those before it: the loop is at the time of the last event it handled,
the writer at that of the last one it wrote. Handling an event moves `q` by the length of its
encoding (`HandledDecodes`); the writer appends, or cuts the end off (`AppendDecodes`,
`CloseDecodes`). `LostOnlyInSplits` needs `DecodeInv`: what makes an access a store is a bit of
the info byte, which is set in the records of stores only.

Theorems: `ProgramsInvariant`, `StartupTypesHold`, `InputsAlwaysArrive`, `LoopTypesHold`,
`MemoryIsAlwaysFlat`, `BlocksAreAlwaysFetched`, `CountsAlwaysAgree`, `DecodesAlways`,
`TraceIsAlwaysDecoded`, `LostOnlyWhenSplit`.

The assumptions of these three, each of them evaluated by TLC in the run `programs`:

- `InputsAssumption`: a range file has whole pages, in ranges no longer than the tables have
  room for (2^40 bytes), as QEMU writes them; the file of register values lists processors
  that exist (`read_cr_values_from_dump` does not check) and, for the distributed simulator, at
  least one; the mapping has ids and names.
- `SizesAssumption`: no access is up to 8 bytes longer than a page. Sizes are powers of two and
  a page has 4096 bytes, so there is none.
- `EventsAssumption`: what the writer of a trace appends fits the fields of its records, and
  event ids are below the bit of the sign.
- `DecodingAssumption`: what it takes for a trace to say what was written. Every event has an
  id, and no two events share one, as in the mapping file QEMU writes with a trace; ids have no
  bit but those of the 0x3F `mappingreader.c:21` masks them with, though a trace has room for 7
  bits; the fields of the info byte do not overlap; and the first bit of the second byte of a
  long time difference, which the readers clear (`filereader.c:91`), is not set.
- `LoopAssumption`, `SetupAssumption`, `ProgramsAssumption`: numbers are numbers, a byte is
  even, and a plan is a sequence of levels with whole sets (the three `setup_cache` functions
  ask for 16 lines a set or fewer, in caches of 8 KB and more), which tests do not follow.

Trying to prove found a fault of the model, now corrected: `StartOutput` asked only for the place
"output", which the simple and the gem5 simulator also pass through, so that a program of
one process could go and wait for messages. It also showed what had been taken for granted: the
whole pages, and that sizes are not just above a page (where the part behind it would be
split again).

Only model-checked: the seven liveness properties, which are outside the prover's reach, and
the violations.

## What the models leave out

- *Data*: the guest memory of MemoryReplica is words read as page table entries; SimMemory
  has bytes and unaligned accesses, but no page tables. The header of a trace file is right
  or the file is refused. Message layouts are those the code means
  (`mpi_datatype.c:32` is a finding).
- *Long times*: bit 55 of a time difference is cleared when it is read (`filereader.c:91`). In
  the run and in the proofs no difference has it (`DecodingAssumption`).
- *Rests*: the last bytes of a distributed trace, which the input reader does not send, and
  batches that are not full when the coordinator returns are handled by nothing; no property
  promises them.
- *TLB*: the guest is taken to translate with the tables as they are. A real CPU may use an
  old translation until `invlpg`; both event loops read that event and ignore it.
- *Fetches of the coordinator* are sent with virtual addresses; `ForwardsGuestAccess` is not
  stated of them. A block's loop over its lines is one `Fetch` per line there, and
  `Block` in EventLoops.
- *An empty file of initial registers* stores a value nobody wrote.
- *Two groups of workers*: from 17 processes on the loop of `process_cache_access` sends a
  batch twice, the second time from the batch it has just swapped to. The model has that
  loop, the proofs assume it makes one round, and the run uses 11 processes.
- *Shared memory*: the set-up of semaphores and shared buffers runs against a writer that is
  not in the repository.
- *Other builds*: the `SINGLE_LEVEL` and `BLOB` memories, `OUTPUT_TRANSLATION` and
  `INTERMEDIATE_TRACE`.
- *Tools*: `pipewriter.c`, `writecustompagetable.c`, `readpagetable.c`, `mpismemtest`, and
  `print_pagetable` and `read_pagetable`, which no simulator calls.
- *Output*: nothing sends to the output writer, so of `output.c` only the start is reached and
  modelled; the merge is not. If workers sent their misses, its `initialize` (`output.c:57`),
  which stops after its first message, would be the first thing to look at.
- *MOESI* is commented out in the source.

## Plan

Done, in this order of importance: (1) the caches, (2) the MPI reader, (3) the distribution
of accesses, (4) the memory copy, (5) the shared memory reader, each with its proofs; (6)
HierarchySetup, (7) SimMemory, (8) the records and the loops over them, in EventLoops, (9)
Startup, and Programs, which composes them; and the proofs of (6) to (9).

Next:

10. **Shards**: a cache per shard against one cache for all accesses: when does distributing
    by line number change what is simulated?
11. **OutputMerge**: `output.c` as a merge of sorted streams, once something sends to it.
