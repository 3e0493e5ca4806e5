-------------------------------- MODULE Startup --------------------------------
(***************************************************************************)
(* From main to the event loop, in every simulator and in printtrace: the  *)
(* roles of the MPI processes, the files each program reads and in which   *)
(* order, what the input reader sends to the coordinator, the memories     *)
(* and registers that are set up from it, and every early return.          *)
(*                                                                         *)
(* MPI and mpirun are external: a send may return before or only after its *)
(* message is received, messages of one tag are received in order, and a   *)
(* job is ended when one of its processes ends without MPI_Finalize, which *)
(* every return of the coordinator and of the input reader is.             *)
(***************************************************************************)
EXTENDS SimMemory

CONSTANTS
  Worlds,       \* the numbers of MPI processes tried
  Processors,   \* amount_cpus
  MaxRanges,    \* the limit in both simulators (10)
  Registers,    \* AMOUNT_CONTROL_REGISTERS
  Dumped,       \* registers of a processor in the file of initial values (5)
  IdMask,       \* ids of the mapping file are taken modulo this (64)
  Names,        \* event names the mapping looks for
  None,         \* what has not been read or received, or does not exist
  Inputs        \* the program, the arguments and the files it may be started with

VARIABLES
  program,      \* "distributed", "simple", "gem", "printtrace" or "tests"
  world,        \* number of MPI processes
  files,        \* the arguments and files of this run
  pc,           \* where each process is
  mail,         \* messages from the input reader that were not received
  ranges,       \* the ranges the coordinator or the simple simulator has been given
  mapping,      \* the trace_event_id_mapping of the loop
  registers,    \* its control registers
  firstBuffer   \* what the posted receive of the trace has got

startupVars == <<program, world, files, pc, mail, ranges, mapping, registers, firstBuffer>>

ASSUME StartupAssumption ==
  /\ Worlds \subseteq Nat \ {0} /\ Processors \in Nat \ {0} /\ MaxRanges \in Nat
  /\ Dumped \in 0 .. Registers /\ Registers \in Nat \ {0} /\ IdMask \in Nat \ {0}

MemoryRange == [start : Nat, end : Nat, dump : Nat \cup {None}]

Tag == [ranges |-> 54, mapping |-> 0, registers |-> 56, trace |-> 1]

Coordinator == world - 2
Reader      == world - 1
Procs == IF program = "distributed" THEN 0 .. world - 1 ELSE {0}

\* What the branches of main choose for a rank.
Role(r) ==
  IF program # "distributed" THEN program
  ELSE IF r = world - 2 THEN "coordinator"
  ELSE IF r = world - 1 THEN "reader"
  ELSE IF r = world - 3 THEN "output" ELSE "worker"

\* What a program of one process does before its loop. Caches and memories are set up in
\* steps of their own.
SimpleStages     == <<"arguments", "input", "mapping", "output", "caches", "ranges", "memories",
                      "registers", "loop">>
GemStages        == <<"caches", "arguments", "input", "output", "loop">>
PrinttraceStages == <<"arguments", "mapping", "input", "loop">>
Stages == [simple |-> SimpleStages, gem |-> GemStages, printtrace |-> PrinttraceStages,
           tests |-> <<"ended">>]

\* The files the programs are made for; anything may be missing.
ASSUME InputsAssumption ==
  \A f \in Inputs :
    /\ f.program \in DOMAIN Stages \cup {"distributed"}
    /\ f.ranges \in Seq(MemoryRange) /\ \A i \in DOMAIN f.ranges : WholePages(f.ranges[i])
    /\ f.mapping \in Seq([id : Nat, name : STRING])
    /\ f.registers \in Seq(0 .. Processors - 1)
    /\ f.program = "distributed" => f.registers # <<>>

Goto(r, label) == pc' = [pc EXCEPT ![r] = label]
Fail(r) == Goto(r, "ended") /\ UNCHANGED <<mail, ranges, mapping, registers, firstBuffer, memoryVars>>

\* read_memory_ranges puts each range before the ones it has read.
ReadRanges(s) == [i \in DOMAIN s |-> s[Len(s) + 1 - i]]

\* Mutated form of ReadMapping: the first entry of a name counts.
ReadMappingFirst(entries) ==
  [n \in Names |->
     LET named == {i \in DOMAIN entries : entries[i].name = n}
     IN  IF named = {} THEN None
         ELSE entries[CHOOSE i \in named : \A j \in named : i <= j].id % IdMask]

\* read_mapping: the last entry of a name counts; other names are skipped. Without an entry
\* an id is left uninitialised.
ReadMapping(entries) ==
  [n \in Names |->
     LET named == {i \in DOMAIN entries : entries[i].name = n}
     IN  IF named = {} THEN None
         ELSE entries[CHOOSE i \in named : \A j \in named : j <= i].id % IdMask]

\* The value that entry i of the file gives register k: any that tells them apart.
Initial(i, k) == 1 + i * Registers + k

\* read_cr_values_from_dump makes a round for each processor, however many entries the file
\* has; nothing looks at what fscanf returns, so that a round past the end of the file still
\* has the processor of the last entry, and the last value for every register. An entry is
\* the number of a processor and its first registers. <<>> stands for the argument that is
\* not given; an empty file, whose values would be uninitialised, is left out.
EntryOf(entries, i) == IF i <= Len(entries) THEN i ELSE Len(entries)
RoundsFor(entries, p) ==
  {i \in 1 .. Processors : entries # <<>> /\ entries[EntryOf(entries, i)] = p}
RegisterRead(entries, x) ==
  LET rounds == RoundsFor(entries, x \div Registers)
      last   == CHOOSE i \in rounds : \A j \in rounds : i >= j
  IN  IF rounds = {} \/ x % Registers >= Dumped THEN 0
      ELSE IF last <= Len(entries) THEN Initial(last, x % Registers)
      ELSE Initial(Len(entries), Dumped - 1)

\* Mutated form of ReadRegisters: the last register of the last processor has no place.
ReadRegistersButLast(entries) ==
  [x \in 0 .. Processors * Registers - 2 |-> RegisterRead(entries, x)]

\* read_cr_values_from_dump, into registers that are all zero.
ReadRegisters(entries) ==
  [x \in 0 .. Processors * Registers - 1 |-> RegisterRead(entries, x)]

\* What is in a file, as its reader leaves it.
Content ==
  [ranges |-> ReadRanges(files.ranges), mapping |-> ReadMapping(files.mapping),
   registers |-> ReadRegisters(files.registers), trace |-> "bytes"]

\* Whether an argument is given or a file can be opened and read.
Found(what) == what \notin files.missing

--------------------------------------------------------------------------------

StartupInit ==
  /\ MemoryInit
  /\ files \in Inputs /\ program = files.program
  /\ world \in (IF program = "distributed" THEN Worlds ELSE {1})
  /\ pc = [r \in Procs |-> IF program = "distributed" THEN "main" ELSE Stages[program][1]]
  /\ mail = <<>> /\ ranges = <<>> /\ mapping = None /\ registers = None
  /\ firstBuffer = None

--------------------------------------------------------------------------------
(* The memories, in simple and in the coordinator. *)

\* Whether the program exits after it has set up memory number n. The coordinator stops
\* at the one after MaxRanges, the simple simulator at MaxRanges.
TooMany(n) == IF program = "simple" THEN n >= MaxRanges ELSE n > MaxRanges

\* One round of the loop that sets up the memories.
SetUpMemory(r) ==
  /\ pc[r] = "memories" /\ Len(memories) < Len(ranges)
  /\ LET m == ranges[Len(memories) + 1]
     IN  IF m.dump = None
         THEN /\ exited' = TRUE /\ Goto(r, "ended")
              /\ UNCHANGED <<memories, table, flat, lost>>
         ELSE /\ InitMemory(m)
              /\ exited' = TooMany(Len(memories) + 1)
              /\ IF exited' THEN Goto(r, "ended") ELSE UNCHANGED pc
  /\ UNCHANGED <<mail, ranges, mapping, registers, firstBuffer>>

MemoriesDone(r) == pc[r] = "memories" /\ Len(memories) = Len(ranges)

--------------------------------------------------------------------------------
(* The programs of one process. *)

Following(stage) ==
  Stages[program][1 + CHOOSE i \in DOMAIN Stages[program] : Stages[program][i] = stage]

\* An argument or a file is looked at, and main returns if it is not there. Without the
\* argument that names their file, the registers stay zero.
ReadNext(r) ==
  /\ program # "distributed"
  /\ pc[r] \in {"arguments", "input", "output", "mapping", "ranges", "registers"}
  /\ IF ~Found(pc[r]) THEN Fail(r)
     ELSE /\ Goto(r, Following(pc[r]))
          /\ mapping'   = IF pc[r] = "mapping" THEN Content.mapping ELSE mapping
          /\ ranges'    = IF pc[r] = "ranges" THEN Content.ranges ELSE ranges
          /\ registers' = IF pc[r] = "registers" THEN Content.registers ELSE registers
          /\ UNCHANGED <<mail, firstBuffer, memoryVars>>

\* setup_cache has returned.
CachesBuilt(r) ==
  /\ pc[r] = "caches"
  /\ Goto(r, Following("caches"))
  /\ UNCHANGED <<mail, ranges, mapping, registers, firstBuffer, memoryVars>>

\* The loop over the ranges is left.
MemoriesSet(r) ==
  /\ program = "simple" /\ MemoriesDone(r)
  /\ Goto(r, Following("memories"))
  /\ UNCHANGED <<mail, ranges, mapping, registers, firstBuffer, memoryVars>>

--------------------------------------------------------------------------------
(* The processes of the distributed simulator. *)

\* main.
Main(r) ==
  /\ pc[r] = "main"
  /\ Goto(r, IF world <= 2 \/ ~Found("arguments") THEN "ended" ELSE Role(r))
  /\ UNCHANGED <<mail, ranges, mapping, registers, firstBuffer, memoryVars>>

\* run_worker sets its caches up and waits for the first batch; run_output opens its file
\* and waits for misses, which no worker sends.
StartWorker(r) ==
  /\ pc[r] = "worker"
  /\ Goto(r, "waiting")
  /\ UNCHANGED <<mail, ranges, mapping, registers, firstBuffer, memoryVars>>

StartOutput(r) ==
  /\ Role(r) = "output" /\ pc[r] = "output"
  /\ Goto(r, IF Found("output") THEN "waiting" ELSE "ended")
  /\ UNCHANGED <<mail, ranges, mapping, registers, firstBuffer, memoryVars>>

--------------------------------------------------------------------------------
(* run_input_reader. *)

\* Where it is from the call of MPI_Send until it returns.
Sending == [ranges |-> "sending ranges", mapping |-> "sending mapping",
            registers |-> "sending registers", trace |-> "sending trace"]

\* Mutated form of After: the mapping is sent first.
AfterMappingFirst ==
  [reader |-> "mapping", mapping |-> "ranges", ranges |-> "registers", registers |-> "trace"]

\* What the input reader sends after what; of the trace, only the first buffer belongs to
\* the start.
After == [reader |-> "ranges", ranges |-> "mapping", mapping |-> "registers",
          registers |-> "trace"]

\* The files it must have opened before it sends them; it sends no empty list of ranges.
Sendable(what) ==
  /\ Found(what) /\ (what = "mapping" => Found("input"))
  /\ (what = "ranges" => files.ranges # <<>>)

\* The next file is read and sent, or the process returns.
ReadAndSend(r) ==
  /\ Role(r) = "reader" /\ pc[r] \in DOMAIN After
  /\ LET what == After[pc[r]]
     IN  IF ~Sendable(what) THEN Fail(r)
         ELSE /\ mail' = Append(mail, [tag |-> Tag[what], data |-> Content[what], what |-> what])
              /\ Goto(r, Sending[what])
              /\ UNCHANGED <<ranges, mapping, registers, firstBuffer, memoryVars>>

\* MPI_Send returns (external).
SendReturns(r) ==
  /\ Role(r) = "reader"
  /\ \E what \in DOMAIN Tag : pc[r] = Sending[what] /\ Goto(r, what)
  /\ UNCHANGED <<mail, ranges, mapping, registers, firstBuffer, memoryVars>>

\* Whether the message of the call has been received.
Taken(r) == \A i \in DOMAIN mail : pc[r] # Sending[mail[i].what]

--------------------------------------------------------------------------------
(* run_coordinator. *)

\* The first message with a tag, if there is one.
First(tag) ==
  {i \in DOMAIN mail : mail[i].tag = tag /\ \A j \in 1 .. i - 1 : mail[j].tag # tag}
Without(i) == [j \in 1 .. Len(mail) - 1 |-> mail[IF j < i THEN j ELSE j + 1]]

\* MPI delivers the first buffer of the trace to the receive that setup_mpi_buffer posts
\* before anything else (external).
TraceArrives ==
  /\ program = "distributed" /\ Coordinator \in Procs /\ pc[Coordinator] \notin {"main", "ended"}
  /\ firstBuffer = None
  /\ \E i \in First(Tag.trace) : firstBuffer' = mail[i].data /\ mail' = Without(i)
  /\ UNCHANGED <<pc, ranges, mapping, registers, memoryVars>>

\* receive_memory_ranges_from_inputreader, which links the elements of the array in order.
ReceiveRanges(r) ==
  /\ pc[r] = "coordinator"
  /\ \E i \in First(Tag.ranges) : ranges' = mail[i].data /\ mail' = Without(i)
  /\ Goto(r, "memories")
  /\ UNCHANGED <<mapping, registers, firstBuffer, memoryVars>>

ReceiveMapping(r) ==
  /\ program = "distributed" /\ MemoriesDone(r)
  /\ \E i \in First(Tag.mapping) : mapping' = mail[i].data /\ mail' = Without(i)
  /\ Goto(r, "registers")
  /\ UNCHANGED <<ranges, registers, firstBuffer, memoryVars>>

ReceiveRegisters(r) ==
  /\ Role(r) = "coordinator" /\ pc[r] = "registers"
  /\ \E i \in First(Tag.registers) : registers' = mail[i].data /\ mail' = Without(i)
  /\ Goto(r, "loop")
  /\ UNCHANGED <<ranges, mapping, firstBuffer, memoryVars>>

--------------------------------------------------------------------------------

\* mpirun ends a job that has lost a process (external).
EndJob ==
  /\ program = "distributed"
  /\ \E r \in Procs : pc[r] = "ended"
  /\ \E r \in Procs : pc[r] # "ended"
  /\ pc' = [r \in Procs |-> "ended"]
  /\ UNCHANGED <<mail, ranges, mapping, registers, firstBuffer, memoryVars>>

StartupStep(r) ==
  \/ ReadNext(r) \/ SetUpMemory(r) \/ MemoriesSet(r)
  \/ Main(r) \/ StartWorker(r) \/ StartOutput(r) \/ ReadAndSend(r)
  \/ ReceiveRanges(r) \/ ReceiveMapping(r) \/ ReceiveRegisters(r)

--------------------------------------------------------------------------------

\* Type invariant of the start; each variable has what its own message, of its own tag, or
\* its own file brings.
StartupTypes ==
  /\ ranges \in Seq(MemoryRange)
  /\ mapping = None \/ DOMAIN mapping = Names
  /\ registers = None \/ DOMAIN registers = 0 .. Processors * Registers - 1
  /\ firstBuffer \in {None, "bytes"}

InLoop(r) == pc[r] = "loop"

Settled(r) == pc[r] \in {"loop", "waiting", "ended", "trace", "sending trace"}

\* Whatever files are missing, every process comes to its loop, to its wait for messages or
\* to its end: none waits for a message that is not sent, and no send for a receive that is
\* not made.
StartupSettles == <>[](\A r \in Procs : Settled(r))
================================================================================
