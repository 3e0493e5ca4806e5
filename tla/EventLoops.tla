------------------------------- MODULE EventLoops -------------------------------
(***************************************************************************)
(* The loops that decode a trace and act on its events: run_coordinator,   *)
(* simulator/simple, printtrace and simulator/gem, over the record layouts *)
(* of filereader.c, mpireader.c, sharedmemreader.c and gemfilereader.c.    *)
(*                                                                         *)
(* The trace is a sequence of bytes that its writer (QEMU or gem5,         *)
(* external) appends event by event and may leave in the middle of one.    *)
(* A word has WordBytes bytes (8); a byte has Base values (256).           *)
(* Translation is the subject of MemoryReplica: here it reads a page table *)
(* entry from the simulated memory, a step of its own, and leaves the      *)
(* address as it is; it fails for a page that is not mapped.               *)
(***************************************************************************)
EXTENDS Startup, SequencesExt

CONSTANTS
  Base, WordBytes,
  InfoSizes, InfoStore,   \* the mask of the size shift and the bit of a store (16, 64)
  LineSize,               \* CACHE_LINE_SIZE
  Limit,                  \* SIMULATION_LIMIT, after which simple stops
  CoordinatorLimit,       \* the event at which the coordinator stops (200000000)
  Interval,               \* accesses between two lines of gem's output (10000000)
  UserPages, Uncached, Unmapped,   \* pages, as the page tables have them
  Events, GemEvents,      \* the events the writer of a trace may append
  MaxEvents,              \* bound on them
  TableWords              \* addresses of page table entries that translations read

VARIABLES
  trace,      \* bytes written and not read yet
  closed,     \* the trace is complete
  expected,   \* what the events written so far say, but for one that was left off
  clock,      \* the time of the last one
  at,         \* "next", "translated", "eof" or "stopped"
  time,       \* current_timestamp
  count,      \* the counters of the loop
  handed,     \* what the loop has made of the events it has read
  fetched     \* the cache lines of code it has accessed for each of them

loopVars == <<trace, closed, expected, clock, at, time, count, handed, fetched>>

Half == Base \div 2
loop == IF program = "distributed" THEN "coordinator" ELSE program

ASSUME LoopAssumption ==
  /\ Base \in Nat /\ Half > 1 /\ Base = 2 * Half /\ WordBytes \in Nat \ {0, 1}
  /\ InfoSizes \in 1 .. InfoStore /\ InfoStore \in Nat /\ 2 * InfoStore <= Base
  /\ LineSize \in Nat \ {0} /\ Interval \in Nat \ {0}
  /\ {Limit, CoordinatorLimit, MaxEvents} \subseteq Nat /\ TableWords \subseteq Nat

\* b to the power of n; 1 << n for b = 2.
Power(b, n) == LET p[k \in 0 .. n] == IF k = 0 THEN 1 ELSE b * p[k - 1] IN p[n]

Modulus == Power(Base, WordBytes)

\* No access is a little longer than a page.
ASSUME SizesAssumption ==
  \A k \in 0 .. InfoSizes - 1 : Power(2, k) <= PageSize \/ Power(2, k) > PageSize + 8

\* The events fit the fields of their records, and have ids below the bit of the sign.
ASSUME EventsAssumption ==
  /\ \A e \in Events :
       /\ e.delta \in 0 .. Half * Power(Base, WordBytes - 1) - 1 /\ e.negative \in BOOLEAN
       /\ e.cpu \in 0 .. Base - 1 /\ e.addr \in 0 .. Modulus - 1
       /\ e.name \in {"load", "store"} => e.shift \in 0 .. InfoSizes - 1
       /\ e.name = "store" => e.data \in 0 .. Modulus - 1
       /\ e.name = "cr" => e.register \in 0 .. Base - 1 /\ e.value \in 0 .. Modulus - 1
       /\ e.name = "tb" => e.size \in 0 .. Base * Base - 1
       /\ \A f \in Inputs : \E i \in DOMAIN f.mapping : f.mapping[i].name = e.name
  /\ \A e \in GemEvents :
       /\ e.name = "gem" /\ e.type \in {"read", "write", "fetch"} /\ e.cpu \in 0 .. Base - 1
       /\ {e.tick, e.addr} \subseteq 0 .. Modulus - 1
  /\ \A f \in Inputs : \A i \in DOMAIN f.mapping : f.mapping[i].id < Half

\* What it takes for a trace to say what was written: every id is named, one name has it,
\* and it has no more bits than the mapping keeps (mappingreader.c:21); the fields of the
\* info byte do not overlap; and of a long difference in time the first bit of the second
\* byte, which the readers clear (filereader.c:91), is not set.
ASSUME DecodingAssumption ==
  /\ {"load", "store", "cr", "invlpg", "tb"} \subseteq Names
  /\ \A f \in Inputs :
       /\ \A n \in Names : \E i \in DOMAIN f.mapping : f.mapping[i].name = n
       /\ \A i, j \in DOMAIN f.mapping :
            /\ f.mapping[i].id < IdMask
            /\ f.mapping[i].id = f.mapping[j].id => f.mapping[i].name = f.mapping[j].name
  /\ InfoStore % InfoSizes = 0
  /\ \A e \in Events : (e.delta \div Power(Base, WordBytes - 2)) % Base < Half

\* The value of n bytes of s after the first `from', with the least significant first, and
\* with the most significant first.
LittleEndian(s, from, n) ==
  LET v[i \in 0 .. n] == IF i = 0 THEN 0 ELSE v[i - 1] + s[from + i] * Power(Base, i - 1)
  IN  v[n]
BigEndian(s, from, n) ==
  LET v[i \in 0 .. n] == IF i = 0 THEN 0 ELSE v[i - 1] * Base + s[from + i] IN v[n]
Bytes(v, n) == [i \in 1 .. n |-> (v \div Power(Base, i - 1)) % Base]

--------------------------------------------------------------------------------
(* The writer of the trace (external). *)

\* A difference in time has two bytes, or a word with the first bit set.
DeltaBytes(d) ==
  IF d < Base * Half THEN Reverse(Bytes(d, 2))
                     ELSE Reverse(Bytes(d + Half * Power(Base, WordBytes - 1), WordBytes))

Payload(e) ==
  CASE e.name \in {"load", "store"} ->
         <<e.cpu>> \o Bytes(e.addr, WordBytes)
           \o <<e.shift + IF e.name = "store" THEN InfoStore ELSE 0>>
           \o IF e.name = "store" THEN Bytes(e.data, WordBytes) ELSE <<>>
    [] e.name = "cr"     -> <<e.cpu, e.register>> \o Bytes(e.value, WordBytes)
    [] e.name = "invlpg" -> Bytes(e.addr, WordBytes) \o <<e.cpu>>
    [] e.name = "tb"     -> <<e.cpu>> \o Bytes(e.addr, WordBytes) \o Bytes(e.size, 2)
    [] OTHER             -> <<>>

\* The id of an event; the mapping file has all of them.
Id(name) ==
  LET named == {i \in DOMAIN files.mapping : files.mapping[i].name = name}
  IN  files.mapping[Max(named)].id

GemType == [read |-> 0, write |-> 1, fetch |-> 2]

Encoded(e) ==
  IF loop = "gem"
  THEN Bytes(e.tick, WordBytes) \o Bytes(e.addr, WordBytes) \o <<GemType[e.type], e.cpu>>
  ELSE DeltaBytes(e.delta) \o <<Id(e.name) + IF e.negative THEN Half ELSE 0>> \o Payload(e)

\* What an event says, and the time it was written at, when the one before it was written
\* at time c.
Meaning(c, e) ==
  [name |-> e.name, cpu |-> e.cpu,
   time |-> IF loop = "gem" THEN e.tick
            ELSE (c + IF e.negative THEN -e.delta ELSE e.delta) % Modulus,
   what |-> CASE e.name = "load"   -> <<e.addr, Power(2, e.shift), FALSE>>
              [] e.name = "store"  -> <<e.addr, Power(2, e.shift), TRUE, e.data>>
              [] e.name = "cr"     -> <<e.register, e.value>>
              [] e.name = "tb"     -> <<e.addr, e.size>>
              [] e.name = "gem"    -> <<e.addr, e.type>>
              [] OTHER             -> <<e.addr>>]

WriterStep == UNCHANGED <<at, time, count, handed, fetched, memoryVars>>

\* The writer appends an event.
AppendEvent ==
  /\ ~closed /\ Len(expected) < MaxEvents
  /\ \E e \in IF loop = "gem" THEN GemEvents ELSE Events :
       /\ trace' = trace \o Encoded(e)
       /\ expected' = Append(expected, Meaning(clock, e))
       /\ clock' = Meaning(clock, e).time
  /\ UNCHANGED closed /\ WriterStep

\* It stops, having written the last event or a part of it.
CloseTrace ==
  /\ ~closed
  /\ closed' = TRUE
  /\ \E cut \in {0, 1, 2} :
       /\ cut > 0 => Len(trace) > cut /\ loop # "coordinator"
       /\ trace' = SubSeq(trace, 1, Len(trace) - cut)
       /\ expected' = IF cut = 0 THEN expected ELSE Front(expected)
  /\ UNCHANGED clock /\ WriterStep

--------------------------------------------------------------------------------
(* The records. *)

\* file_get_next_event_id and its two siblings: the bytes of the header, and what they
\* say. Of a long delta the top bits of the first two bytes are cleared.
Long == trace[1] >= Half
HeaderLength == IF Long THEN WordBytes + 1 ELSE 3
HeaderThere == trace # <<>> /\ Len(trace) >= HeaderLength
IdByte == trace[HeaderLength]

Delta ==
  IF Long THEN BigEndian(<<trace[1] % Half, trace[2] % Half>> \o SubSeq(trace, 3, WordBytes),
                         0, WordBytes)
          ELSE BigEndian(trace, 0, 2)

\* Mutated forms of NewTime: time only goes on; the timestamp is not an unsigned word.
NewTimeForward == (time + Delta) % Modulus
NewTimeSigned == time + IF IdByte >= Half THEN -Delta ELSE Delta

NewTime == (time + IF IdByte >= Half THEN -Delta ELSE Delta) % Modulus

\* The branch of the loop an id leads to; printtrace has none for invlpg.
Branches == IF loop = "printtrace" THEN <<"load", "store", "cr", "tb">>
            ELSE <<"load", "store", "cr", "invlpg", "tb">>
Fitting == {i \in DOMAIN Branches : mapping[Branches[i]] = IdByte % Half}
Kind == {Branches[i] : i \in {j \in Fitting : \A k \in Fitting : j <= k}}

\* The bytes of each field of a record, as the readers take them.
Widths(kind) ==
  CASE kind = "load"    -> <<1, WordBytes, 1>>
    [] kind = "store"   -> <<1, WordBytes, 1, WordBytes>>
    [] kind = "cr"      -> <<1, 1, WordBytes>>
    [] kind = "invlpg"  -> <<WordBytes, 1>>
    [] kind = "tb"      -> <<1, WordBytes, 2>>
    [] kind = "gem"     -> <<WordBytes, WordBytes, 1, 1>>
    [] OTHER            -> <<>>

SumTo(w, i) == LET sum[j \in 0 .. i] == IF j = 0 THEN 0 ELSE sum[j - 1] + w[j] IN sum[i]
RecordLength(kind) == SumTo(Widths(kind), Len(Widths(kind)))
Fields(from, kind) ==
  [i \in DOMAIN Widths(kind) |->
     LittleEndian(trace, from + SumTo(Widths(kind), i - 1), Widths(kind)[i])]

RecordThere(kind) == Len(trace) >= HeaderLength + RecordLength(kind)

\* The event of a kind at the head of the trace, as the structs it is read into have it.
Heard(kind) ==
  LET f == Fields(HeaderLength, kind)
  IN  [name |-> kind, time |-> NewTime,
       cpu  |-> IF kind = "invlpg" THEN f[2] ELSE f[1],
       what |-> CASE kind \in {"load", "store"} ->
                       <<f[2], Power(2, f[3] % InfoSizes), (f[3] \div InfoStore) % 2 = 1>>
                         \o SubSeq(f, 4, Len(f))
                  [] kind = "invlpg" -> <<f[1]>>
                  [] OTHER           -> <<f[2], f[3]>>]

--------------------------------------------------------------------------------
(* The loops. *)

Counters ==
  {"events", "reads", "writes", "crs", "flushes", "fetches", "accesses", "kernel", "user",
   "enabled", "disabled", "mpki", "mpki_fetch", "mpki_read", "mpki_write",
   "read_misses", "write_misses"}

LoopInit ==
  /\ trace = <<>> /\ closed = FALSE /\ expected = <<>> /\ clock = 0
  /\ at = "next" /\ time = 0 /\ count = [c \in Counters |-> 0]
  /\ handed = <<>> /\ fetched = <<>>

FromFile   == loop # "coordinator"     \* its reader fails at the end of the trace
Translates == loop \in {"simple", "coordinator"}
Running    == at \in {"next", "translated"} /\ ~exited

\* The counters with those in S one up, and `more' fetches.
Counted(S, more) ==
  [c \in Counters |->
     count[c] + (IF c \in S THEN 1 ELSE 0)
              + (IF c = "fetches" \/ (c = "accesses" /\ loop = "simple") THEN more ELSE 0)]

\* Nothing but the counters, the time and the place in the code changes.
Stop(where) ==
  /\ at' = where
  /\ UNCHANGED <<trace, closed, expected, clock, handed, fetched, memoryVars>>

\* There is no further event.
NoEvent ==
  /\ Running /\ FromFile /\ closed
  /\ ~(IF loop = "gem" THEN Len(trace) >= RecordLength("gem") ELSE HeaderThere)
  /\ count' = IF loop = "simple" THEN count ELSE Counted({"events"}, 0)
  /\ Stop("eof") /\ UNCHANGED time

\* Mutated form of CutEvent: it is not noticed.
CutEventUnnoticed == FALSE

\* The header of an event is there, but not all of its record.
CutEvent ==
  /\ Running /\ FromFile /\ closed /\ loop # "gem" /\ HeaderThere
  /\ \E kind \in Kind :
       /\ ~RecordThere(kind)
       /\ count' = Counted({"events"} \cup (IF kind = "cr" THEN {"crs"} ELSE {}), 0)
  /\ time' = NewTime /\ Stop("eof")

\* The coordinator returns before it handles event number CoordinatorLimit.
AtLimit == loop = "coordinator" /\ count["events"] + 1 = CoordinatorLimit
LimitReached ==
  /\ Running /\ AtLimit /\ HeaderThere
  /\ count' = Counted({"events"}, 0) /\ Stop("stopped") /\ UNCHANGED time

UnknownEvent ==
  /\ Running /\ loop # "gem" /\ ~AtLimit /\ HeaderThere /\ Kind = {}
  /\ count' = Counted({"events"}, 0) /\ time' = NewTime /\ Stop("stopped")

\* Event e has been handled, and `lines' of code have been accessed for it; simple compares
\* the number of events with its limit.
Handled(e, lines) ==
  /\ trace' = SubSeq(trace, HeaderLength + RecordLength(e.name) + 1, Len(trace))
  /\ time' = e.time
  /\ handed' = Append(handed, e) /\ fetched' = Append(fetched, lines)
  /\ UNCHANGED <<closed, expected, clock>>
GoOn == at' = IF loop = "simple" /\ count'["events"] > Limit THEN "stopped" ELSE "next"

ControlRegister(e) ==
  /\ e.name = "cr"
  /\ count' = Counted({"events", "crs"}, 0)
  /\ IF Translates THEN registers' = [registers EXCEPT ![e.cpu * Registers + e.what[1]] = e.what[2]]
                   ELSE UNCHANGED registers
  /\ Handled(e, {}) /\ GoOn /\ UNCHANGED memoryVars

Invlpg(e) ==
  /\ e.name = "invlpg"
  /\ count' = Counted({"events", "flushes"}, 0)
  /\ Handled(e, {}) /\ GoOn /\ UNCHANGED memoryVars

\* vaddr_to_phys reads an entry of the page tables before an access is made; the
\* coordinator does not translate the addresses of code.
Translate(e) ==
  /\ e.name \in {"load", "store"} \/ (e.name = "tb" /\ loop = "simple")
  /\ Translates /\ at = "next"
  /\ at' = "translated"
  /\ \E w \in TableWords : Read(w, 8)
  /\ UNCHANGED <<trace, closed, expected, clock, time, count, handed, fetched>>

PageIn(a, pages) == (a \div PageSize) \in pages

\* A load or a store: simulated, or the loop is left because its page is not mapped. A
\* store to a kernel page is also made in the simulated memory.
MemoryAccess(e) ==
  /\ e.name \in {"load", "store"} /\ (Translates => at = "translated")
  /\ LET addr  == e.what[1]
         write == e.what[3]
         fault == Translates /\ PageIn(addr, Unmapped)
         tally == {"events", IF e.name = "load" THEN "reads" ELSE "writes"}
         page  == IF PageIn(addr, UserPages) THEN "user" ELSE "kernel"
     IN  /\ count' = Counted(
              CASE loop = "printtrace"  -> tally
                [] loop = "simple"      -> tally \cup {"accesses"}
                                                 \cup (IF fault THEN {} ELSE {page})
                [] loop = "coordinator" ->
                     {"events"} \cup (IF fault THEN {}
                                      ELSE {IF PageIn(addr, Uncached) THEN "disabled" ELSE "enabled"}),
              0)
         /\ IF fault THEN at' = "stopped" ELSE GoOn
         /\ IF Translates /\ write /\ ~fault /\ page = "kernel"
            THEN Write(addr, e.what[2], Len(handed) + 1) ELSE UNCHANGED memoryVars
  /\ Handled(e, {})

\* Mutated form of Rounds: the coordinator stops where simple does.
RoundsTooFew(size) == {i \in 0 .. size : size - i * LineSize > 0}

\* How often the inner loop of a block of code goes round.
Rounds(size) ==
  LET least == CASE loop = "simple" -> 0 [] loop = "coordinator" -> -LineSize
                 [] loop = "printtrace" -> LineSize
  IN  {i \in 0 .. size + 1 : size - i * LineSize > least}

\* The inner loop of simple is left at the first line whose page is not mapped.
Block(e) ==
  /\ e.name = "tb" /\ (loop = "simple" => at = "translated")
  /\ LET addr(i)  == e.what[1] + i * LineSize
         fault(i) == loop = "simple" /\ PageIn(addr(i), Unmapped)
         rounds   == {i \in Rounds(e.what[2]) : \A j \in 0 .. i - 1 : ~fault(j)}
         accessed == {i \in rounds : ~fault(i) /\ (loop = "simple" => ~PageIn(addr(i), Uncached))}
     IN  /\ count' = Counted({"events"}, IF loop = "coordinator" THEN 0 ELSE Cardinality(rounds))
         /\ Handled(e, IF Translates THEN {addr(i) \div LineSize : i \in accessed} ELSE {})
  /\ GoOn /\ UNCHANGED memoryVars

\* Mutated form of Restarted: the misses of stores are never started again.
RestartedButWrites == {"mpki", "mpki_fetch", "mpki_read"}

\* The counters that are set to zero after a line of output.
Restarted == {"mpki", "mpki_fetch", "mpki_read", "mpki_write"}

\* cache_miss_func: the counters of a miss.
Missed(type) ==
  {"mpki", [fetch |-> "mpki_fetch", read |-> "mpki_read", write |-> "mpki_write"][type],
   IF type = "write" THEN "write_misses" ELSE "read_misses"}

\* A round of the gem5 simulator: a record is read, counted and simulated;
\* cache_miss_func is called for each miss of the last level.
GemAccess ==
  /\ Running /\ loop = "gem" /\ Len(trace) >= RecordLength("gem")
  /\ LET f    == Fields(0, "gem")
         type == IF f[3] = 2 THEN "fetch" ELSE IF f[3] = 0 THEN "read" ELSE "write"
         one  == Counted({"events", IF type = "write" THEN "writes" ELSE "reads"}, 0)
     IN  /\ \E misses \in 0 .. 2 :
              LET sum == [c \in Counters |-> one[c] + IF c \in Missed(type) THEN misses ELSE 0]
              IN  count' = [c \in Counters |->
                              IF c \in Restarted /\ sum["events"] % Interval = 0 THEN 0 ELSE sum[c]]
         /\ time' = f[1]
         /\ handed' = Append(handed, [name |-> "gem", time |-> f[1], cpu |-> f[4],
                                      what |-> <<f[2], type>>])
  /\ trace' = SubSeq(trace, RecordLength("gem") + 1, Len(trace))
  /\ fetched' = Append(fetched, {})
  /\ UNCHANGED <<closed, expected, clock, at, memoryVars>>

LoopStep ==
  \/ (NoEvent \/ CutEvent \/ LimitReached \/ UnknownEvent \/ GemAccess) /\ UNCHANGED registers
  \/ /\ Running /\ loop # "gem" /\ ~AtLimit /\ HeaderThere
     /\ \E kind \in Kind : RecordThere(kind) /\ \E e \in {Heard(kind)} :
          \/ ControlRegister(e)
          \/ (Invlpg(e) \/ Translate(e) \/ MemoryAccess(e) \/ Block(e)) /\ UNCHANGED registers

--------------------------------------------------------------------------------

\* Type invariant of the loops.
LoopTypes ==
  /\ at \in {"next", "translated", "eof", "stopped"} /\ closed \in BOOLEAN
  /\ trace \in Seq(0 .. Base - 1) /\ {time, clock} \subseteq 0 .. Modulus - 1
  /\ count \in [Counters -> Nat]
  /\ Len(fetched) = Len(handed)

\* The events that set register k of processor p, and whether all that were handled set one
\* that exists.
SetsOf(p, k) ==
  {i \in DOMAIN handed : handed[i].name = "cr" /\ handed[i].cpu = p /\ handed[i].what[1] = k}
RegistersExist ==
  \A i \in DOMAIN handed :
    handed[i].name = "cr" => handed[i].cpu < Processors /\ handed[i].what[1] < Registers

\* The processors whose registers the file of initial values spells out: all of them, but
\* the last one it lists when it has fewer entries than there are processors.
SpelledOut ==
  {p \in 0 .. Processors - 1 :
     LET n == Len(files.registers)
     IN  n \in 1 .. Processors - 1 => files.registers[n] # p}

\* What the file says of register k of processor p: the last of the entries that are read.
EntriesOf(p) == {i \in DOMAIN files.registers : i <= Processors /\ files.registers[i] = p}
FileValue(p, k) ==
  IF EntriesOf(p) # {} /\ k < Dumped THEN Initial(Max(EntriesOf(p)), k) ELSE 0

\* A program in its loop has what its files say, in whatever order the messages came: a
\* memory for each range of the file, in the opposite order; for each name the last id of
\* the mapping file; and, as long as no event names a register that does not exist, in the
\* registers of every processor what the last event set, or else what the file of initial
\* values says, or zero. Its reader makes a round for each processor: entries beyond their
\* number do not count, and a file with too few, which spoils the registers of the last
\* processor it lists, promises nothing of that one (input_reader.c 19-112, coordinator.c
\* 29-58, 147-202 and 280, simple/simulator.c 278-385 and 449, control_registers.c 32-43).
InputsArrive ==
  \A r \in Procs : InLoop(r) =>
    /\ Role(r) \in {"simple", "coordinator"} =>
         /\ Len(memories) = Len(files.ranges)
         /\ \A i \in DOMAIN memories : memories[i] = files.ranges[Len(memories) + 1 - i]
         /\ RegistersExist =>
              \A p \in SpelledOut : \A k \in 0 .. Registers - 1 :
                registers[p * Registers + k] =
                  IF SetsOf(p, k) # {} THEN handed[Max(SetsOf(p, k))].what[2]
                  ELSE FileValue(p, k)
    /\ Role(r) # "gem" =>
         \A i \in DOMAIN files.mapping :
           files.mapping[i].name \in Names =>
             \/ mapping[files.mapping[i].name] = files.mapping[i].id % IdMask
             \/ \E j \in i + 1 .. Len(files.mapping) : files.mapping[j].name = files.mapping[i].name

\* Every event is handled as the writer meant it, with the time it was written at, and in
\* order; at the end of a file no event is left. (filereader.c 84-102 and its siblings,
\* gemfilereader.c 23-37: byte order, short and long times, the sign, record lengths: one
\* byte too many or too few and the rest of the trace is garbage.)
TraceIsDecoded ==
  /\ IsPrefix(handed, expected)
  /\ at = "eof" => handed = expected

\* The lines of the bytes from start to end, and those with no byte up to them on a page
\* that is not mapped or not cached.
BlockLines(start, end) == {a \div LineSize : a \in start .. end - 1}
PlainLines(start, end) ==
  {l \in BlockLines(start, end) : \A a \in start .. end - 1 :
     a \div LineSize <= l => ~PageIn(a, Unmapped \cup Uncached)}

\* The lines of a block of code: the coordinator fetches all of them, and at most one more
\* (coordinator.c 297); simple fetches no other, and all, but the last one if the block does
\* not start with a line (simulator.c 484), or those from a page that is not mapped.
BlocksAreFetched ==
  \A k \in DOMAIN handed : handed[k].name = "tb" =>
    LET start == handed[k].what[1]
        end   == start + handed[k].what[2]
        block == BlockLines(start, end)
        plain == PlainLines(start, end)
    IN  /\ loop = "coordinator" =>
             block \subseteq fetched[k] /\ Cardinality(fetched[k] \ block) <= 1
        /\ loop = "simple" =>
             /\ fetched[k] \subseteq block
             /\ plain \ fetched[k] \subseteq
                  IF start % LineSize = 0 THEN {} ELSE {(end - 1) \div LineSize}

\* Each kernel byte the guest stored is in the simulated memory, unless its store ran over the
\* end of a page, in parts of 3, 5, 6 or 7 bytes, which are passed over, or was one of more
\* than 8 bytes (memory.c 132-168).
LostOnlyInSplits ==
  \A a \in lost : \E k \in DOMAIN handed :
    LET first == handed[k].what[1]
        size  == handed[k].what[2]
    IN  /\ handed[k].name = "store" /\ a \in first .. first + size - 1
        /\ (first % PageSize) + size > PageSize \/ size > 8

\* What the loops print adds up: every event that was handled is counted once, by what it
\* is (simulator.c 415-489, coordinator.c 219-311), and the misses of gem's current interval
\* are split by kind without rest, its totals never below them (gem/simulator.c 36-61, 128).
CountsAgree ==
  LET named(names) == Cardinality({k \in DOMAIN handed : handed[k].name \in names})
  IN  /\ loop \in {"simple", "printtrace"} =>
           /\ count["reads"] = named({"load"}) /\ count["writes"] = named({"store"})
           /\ count["crs"] - named({"cr"}) \in {0, IF at = "eof" THEN 1 ELSE 0}
      /\ loop = "simple" =>
           /\ count["accesses"] = count["reads"] + count["writes"] + count["fetches"]
           /\ at = "next" => count["kernel"] + count["user"] = count["reads"] + count["writes"]
      /\ loop = "coordinator" /\ at # "stopped" =>
           count["enabled"] + count["disabled"] = named({"load", "store"})
      /\ loop = "gem" =>
           /\ count["reads"] + count["writes"] = Len(handed)
           /\ count["mpki"] = count["mpki_fetch"] + count["mpki_read"] + count["mpki_write"]
           /\ count["mpki_write"] <= count["write_misses"]
           /\ count["mpki_fetch"] + count["mpki_read"] <= count["read_misses"]
================================================================================
