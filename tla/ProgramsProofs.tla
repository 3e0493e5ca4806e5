----------------------------- MODULE ProgramsProofs -----------------------------
(***************************************************************************)
(* What holds of every program from main to its end, for every number of   *)
(* processes, ranges, registers and events, and every size of pages, words *)
(* and bytes: the inputs arrive, the trace is decoded, the memory is flat  *)
(* and loses only what it passes over, blocks of code are fetched and the  *)
(* counters agree.                                                         *)
(***************************************************************************)
EXTENDS Programs, EventLoopsProofs

--------------------------------------------------------------------------------
(* The inductive invariant of the start. *)

\* Where a program of one process may be before it ends, and where it has read its mapping.
Places ==
  [simple |-> {"arguments", "input", "mapping", "output", "caches", "ranges", "memories",
               "registers", "loop"},
   gem |-> {"caches", "arguments", "input", "output", "loop"},
   printtrace |-> {"arguments", "mapping", "input", "loop"}, tests |-> {}]
MappingRead ==
  [simple |-> {"output", "caches", "ranges", "memories", "registers", "loop"},
   gem |-> {}, printtrace |-> {"input", "loop"}, tests |-> {},
   distributed |-> {"registers", "loop"}]

\* The messages the input reader may send.
Letters == {[tag |-> Tag[what], data |-> Content[what], what |-> what] : what \in DOMAIN Tag}

\* What the program was started with, and where its processes are: only the process of the
\* loop sets up memories.
Located ==
  /\ files \in Inputs /\ program = files.program /\ world \in Nat \ {0}
  /\ DOMAIN pc = Procs
  /\ program = "distributed" =>
       \A r \in Procs :
         /\ pc[r] \in {"coordinator", "memories", "loop"} => r = Coordinator
         /\ pc[r] # "caches"
  /\ program # "distributed" => pc[0] \in Places[program] \cup {"ended"}

\* A message has what a file says, and so has what was taken from it.
Received ==
  /\ mail \in Seq(Letters)
  /\ ranges = <<>> \/ ranges = Content.ranges
  /\ mapping \in {None, Content.mapping}
  /\ registers = None \/ DOMAIN registers = 0 .. Processors * Registers - 1
  /\ firstBuffer \in {None, "bytes"}

\* How far the start has come.
Progress ==
  /\ Translates /\ Looper \in Procs =>
       /\ pc[Looper] \in {"memories", "registers", "loop"} => ranges = Content.ranges
       /\ pc[Looper] \in {"registers", "loop"} => Len(memories) = Len(ranges)
       /\ pc[Looper] \notin {"memories", "registers", "loop", "ended"} => memories = <<>>
  /\ Looper \in Procs /\ pc[Looper] \in MappingRead[program] => mapping = Content.mapping
  /\ exited \in BOOLEAN
  /\ exited => Looper \in Procs /\ pc[Looper] \in {"loop", "ended"}

\* The memories that were set up are those of the ranges, in order.
Mapped ==
  /\ memories \in Seq(PagedMemory) /\ Len(memories) <= Len(ranges)
  /\ \A i \in DOMAIN memories : memories[i] = ranges[i]

StartInv == Located /\ Received /\ Progress /\ Mapped

--------------------------------------------------------------------------------
(* The inductive invariant of the loops. *)

IsSeq(s) == s \in Seq(Range(s))

\* What was handled are events, and there is nothing of them before the loop.
EventsHandled ==
  /\ IsSeq(handed) /\ IsSeq(fetched)
  /\ Looper \in Procs /\ pc[Looper] \notin {"loop", "ended"} => handed = <<>>
  /\ \A i \in DOMAIN handed :
       /\ handed[i].name = "cr" => handed[i].cpu \in Nat /\ handed[i].what[1] \in Nat
       /\ handed[i].name = "tb" => handed[i].what[1] \in Nat /\ handed[i].what[2] \in Nat

\* The registers in the loop: what the events and the file of initial values say.
RegistersHold ==
  Translates /\ Looper \in Procs /\ pc[Looper] = "loop" =>
    /\ DOMAIN registers = 0 .. Processors * Registers - 1
    /\ RegistersExist =>
         \A p \in SpelledOut : \A k \in 0 .. Registers - 1 :
           registers[p * Registers + k] =
             IF SetsOf(p, k) # {} THEN handed[Max(SetsOf(p, k))].what[2]
             ELSE FileValue(p, k)

\* How many of the events have one of the names.
Named(names) == Cardinality({k \in DOMAIN handed : handed[k].name \in names})

\* What the counters are while the loop runs, and after it.
Tallied ==
  /\ loop \in {"simple", "printtrace"} =>
       /\ count["reads"] = Named({"load"}) /\ count["writes"] = Named({"store"})
       /\ at # "eof" => count["crs"] = Named({"cr"})
       /\ count["crs"] - Named({"cr"}) \in {0, 1}
  /\ loop = "simple" =>
       /\ count["accesses"] = count["reads"] + count["writes"] + count["fetches"]
       /\ at \in {"next", "translated"} =>
            count["kernel"] + count["user"] = count["reads"] + count["writes"]
  /\ loop = "coordinator" /\ at # "stopped" =>
       count["enabled"] + count["disabled"] = Named({"load", "store"})
  /\ loop = "gem" =>
       /\ count["reads"] + count["writes"] = Len(handed)
       /\ count["mpki"] = count["mpki_fetch"] + count["mpki_read"] + count["mpki_write"]
       /\ count["mpki_write"] <= count["write_misses"]
       /\ count["mpki_fetch"] + count["mpki_read"] <= count["read_misses"]

LoopInv == LoopTypes /\ EventsHandled /\ RegistersHold /\ Tallied /\ BlocksAreFetched

ProgramsInv == StartInv /\ MemoryInv /\ LoopInv

--------------------------------------------------------------------------------
(* The stages of the programs of one process. *)

LEMMA SimpleFollowing ==
  ASSUME program = "simple"
  PROVE  /\ Following("arguments") = "input" /\ Following("input") = "mapping"
         /\ Following("mapping") = "output" /\ Following("output") = "caches"
         /\ Following("caches") = "ranges" /\ Following("ranges") = "memories"
         /\ Following("memories") = "registers" /\ Following("registers") = "loop"
<1>1. Stages[program] = SimpleStages /\ DOMAIN SimpleStages = 1 .. 9
  BY DEF Stages, SimpleStages
<1>2. ASSUME NEW k \in 1 .. 9, NEW label, SimpleStages[k] = label,
             \A i \in 1 .. 9 : SimpleStages[i] = label => i = k
      PROVE  Following(label) = SimpleStages[1 + k]
  <2>1. (CHOOSE i \in 1 .. 9 : SimpleStages[i] = label) = k
    BY <1>2
  <2>. QED
    BY <1>1, <2>1 DEF Following
<1>3. \A i \in 1 .. 9 : i \in {1, 2, 3, 4, 5, 6, 7, 8, 9}
  OBVIOUS
<1>4. Following("arguments") = SimpleStages[1 + 1]
  BY <1>2, <1>3 DEF SimpleStages
<1>5. Following("input") = SimpleStages[1 + 2]
  BY <1>2, <1>3 DEF SimpleStages
<1>6. Following("mapping") = SimpleStages[1 + 3]
  BY <1>2, <1>3 DEF SimpleStages
<1>7. Following("output") = SimpleStages[1 + 4]
  BY <1>2, <1>3 DEF SimpleStages
<1>8. Following("caches") = SimpleStages[1 + 5]
  BY <1>2, <1>3 DEF SimpleStages
<1>9. Following("ranges") = SimpleStages[1 + 6]
  BY <1>2, <1>3 DEF SimpleStages
<1>10. Following("memories") = SimpleStages[1 + 7]
  BY <1>2, <1>3 DEF SimpleStages
<1>11. Following("registers") = SimpleStages[1 + 8]
  BY <1>2, <1>3 DEF SimpleStages
<1>. QED
  BY <1>4, <1>5, <1>6, <1>7, <1>8, <1>9, <1>10, <1>11 DEF SimpleStages

LEMMA GemFollowing ==
  ASSUME program = "gem"
  PROVE  /\ Following("caches") = "arguments" /\ Following("arguments") = "input"
         /\ Following("input") = "output" /\ Following("output") = "loop"
<1>1. Stages[program] = GemStages /\ DOMAIN GemStages = 1 .. 5
  BY DEF Stages, GemStages
<1>2. ASSUME NEW k \in 1 .. 5, NEW label, GemStages[k] = label,
             \A i \in 1 .. 5 : GemStages[i] = label => i = k
      PROVE  Following(label) = GemStages[1 + k]
  <2>1. (CHOOSE i \in 1 .. 5 : GemStages[i] = label) = k
    BY <1>2
  <2>. QED
    BY <1>1, <2>1 DEF Following
<1>3. \A i \in 1 .. 5 : i \in {1, 2, 3, 4, 5}
  OBVIOUS
<1>4. Following("caches") = GemStages[1 + 1]
  BY <1>2, <1>3 DEF GemStages
<1>5. Following("arguments") = GemStages[1 + 2]
  BY <1>2, <1>3 DEF GemStages
<1>6. Following("input") = GemStages[1 + 3]
  BY <1>2, <1>3 DEF GemStages
<1>7. Following("output") = GemStages[1 + 4]
  BY <1>2, <1>3 DEF GemStages
<1>. QED
  BY <1>4, <1>5, <1>6, <1>7 DEF GemStages

LEMMA PrinttraceFollowing ==
  ASSUME program = "printtrace"
  PROVE  /\ Following("arguments") = "mapping" /\ Following("mapping") = "input"
         /\ Following("input") = "loop"
<1>1. Stages[program] = PrinttraceStages /\ DOMAIN PrinttraceStages = 1 .. 4
  BY DEF Stages, PrinttraceStages
<1>2. ASSUME NEW k \in 1 .. 4, NEW label, PrinttraceStages[k] = label,
             \A i \in 1 .. 4 : PrinttraceStages[i] = label => i = k
      PROVE  Following(label) = PrinttraceStages[1 + k]
  <2>1. (CHOOSE i \in 1 .. 4 : PrinttraceStages[i] = label) = k
    BY <1>2
  <2>. QED
    BY <1>1, <2>1 DEF Following
<1>3. \A i \in 1 .. 4 : i \in {1, 2, 3, 4}
  OBVIOUS
<1>4. Following("arguments") = PrinttraceStages[1 + 1]
  BY <1>2, <1>3 DEF PrinttraceStages
<1>5. Following("mapping") = PrinttraceStages[1 + 2]
  BY <1>2, <1>3 DEF PrinttraceStages
<1>6. Following("input") = PrinttraceStages[1 + 3]
  BY <1>2, <1>3 DEF PrinttraceStages
<1>. QED
  BY <1>4, <1>5, <1>6 DEF PrinttraceStages

--------------------------------------------------------------------------------
(* Who takes which step of the start. *)

LEMMA SameFiles ==
  ASSUME UNCHANGED <<program, world, files>>
  PROVE  /\ Content' = Content /\ Letters' = Letters /\ Procs' = Procs
         /\ Coordinator' = Coordinator /\ Looper' = Looper /\ Translates' = Translates /\ loop' = loop
         /\ \A r \in Procs : Role(r)' = Role(r)
         /\ SpelledOut' = SpelledOut /\ \A p, k : FileValue(p, k)' = FileValue(p, k)
BY DEF Content, SpelledOut, FileValue, EntriesOf, Letters, Procs, Coordinator, Looper, Translates,
       loop, Role, ReadRanges, ReadMapping, ReadRegisters, RegisterRead, RoundsFor, EntryOf, Initial

LEMMA ProgramsAre ==
  ASSUME Located
  PROVE  program \in {"simple", "gem", "printtrace", "tests", "distributed"}
BY InputsAssumption DEF Located, Stages

LEMMA WhoIs ==
  ASSUME Located, NEW r \in Procs
  PROVE  /\ pc[r] = "memories" => r = Looper /\ Translates
         /\ pc[r] \in {"coordinator", "loop"} => r = Looper
         /\ pc[r] \in {"main", "worker", "coordinator"} => program = "distributed"
         /\ pc[r] = "caches" => program \in {"simple", "gem"}
         /\ Role(r) \in {"output", "reader", "coordinator"} => program = "distributed"
         /\ Role(r) = "coordinator" => r = Looper
         /\ Role(r) \in {"output", "reader"} => r # Looper
         /\ program # "distributed" => r = 0 /\ r = Looper
<1>1. program \in {"simple", "gem", "printtrace", "tests", "distributed"}
  BY ProgramsAre
<1>2. CASE program = "distributed"
  <2>1. Looper = Coordinator /\ Coordinator = world - 2 /\ Translates /\ r \in 0 .. world - 1
    BY <1>2 DEF Looper, Coordinator, Translates, loop, Procs
  <2>2. Role(r) = "coordinator" => r = Looper
    BY <1>2, <2>1 DEF Role
  <2>3. Role(r) \in {"output", "reader"} => r # Looper
    BY <1>2, <2>1 DEF Role
  <2>4. pc[r] \in {"coordinator", "memories", "loop"} => r = Coordinator
    BY <1>2 DEF Located
  <2>5. pc[r] # "caches"
    BY <1>2 DEF Located
  <2>. QED
    BY <1>2, <2>1, <2>2, <2>3, <2>4, <2>5
<1>3. CASE program # "distributed"
  <2>1. r = 0 /\ Looper = 0 /\ Role(r) = program
    BY <1>3 DEF Procs, Looper, Role
  <2>2. pc[0] \in Places[program] \cup {"ended"}
    BY <1>3 DEF Located
  <2>3. Role(r) \notin {"output", "reader", "coordinator"}
    BY <1>1, <1>3, <2>1
  <2>4. CASE program = "simple"
    BY <1>3, <2>1, <2>2, <2>3, <2>4 DEF Places, Translates, loop
  <2>5. CASE program = "gem"
    BY <1>3, <2>1, <2>2, <2>3, <2>5 DEF Places
  <2>6. CASE program = "printtrace"
    BY <1>3, <2>1, <2>2, <2>3, <2>6 DEF Places
  <2>7. CASE program = "tests"
    BY <1>3, <2>1, <2>2, <2>3, <2>7 DEF Places
  <2>. QED
    BY <1>1, <1>3, <2>4, <2>5, <2>6, <2>7
<1>. QED
  BY <1>2, <1>3

\* Where a process may go.
MayGo(r, label) ==
  IF program = "distributed"
  THEN (label \in {"coordinator", "memories", "loop"} => r = Coordinator) /\ label # "caches"
  ELSE label \in Places[program] \cup {"ended"}

\* A process moves, and no other.
LEMMA Moved ==
  ASSUME Located, NEW r \in Procs, NEW label, Goto(r, label), MayGo(r, label),
         UNCHANGED <<program, world, files>>
  PROVE  /\ Located' /\ pc'[r] = label
         /\ \A q \in Procs : q # r => pc'[q] = pc[q]
<1>1. DOMAIN pc = Procs /\ pc' = [pc EXCEPT ![r] = label]
  BY DEF Located, Goto
<1>2. DOMAIN pc' = Procs /\ pc'[r] = label /\ \A q \in Procs : q # r => pc'[q] = pc[q]
  BY <1>1
<1>3. Procs' = Procs /\ Coordinator' = Coordinator
  BY SameFiles
<1>4. files' \in Inputs /\ program' = files'.program /\ world' \in Nat \ {0}
  BY DEF Located
<1>5. ASSUME program = "distributed", NEW q \in Procs
      PROVE  /\ pc'[q] \in {"coordinator", "memories", "loop"} => q = Coordinator
             /\ pc'[q] # "caches"
  <2>1. CASE q = r
    BY <1>2, <1>5, <2>1 DEF MayGo
  <2>2. CASE q # r
    <3>1. pc'[q] = pc[q]
      BY <1>2, <2>2
    <3>. QED
      BY <1>5, <3>1 DEF Located
  <2>. QED
    BY <2>1, <2>2
<1>6. ASSUME program # "distributed"
      PROVE  pc'[0] \in Places[program] \cup {"ended"}
  <2>1. r = 0
    BY <1>6, WhoIs
  <2>. QED
    BY <1>2, <1>6, <2>1 DEF MayGo
<1>. QED
  BY <1>2, <1>3, <1>4, <1>5, <1>6 DEF Located

\* A process that does not run the loop moves.
LEMMA OtherMoves ==
  ASSUME StartInv, NEW r \in Procs, r # Looper, NEW label, Goto(r, label), MayGo(r, label),
         UNCHANGED <<program, world, files, ranges, mapping, registers, memories, exited>>
  PROVE  Located' /\ Progress' /\ Mapped'
<1>1. Located' /\ \A q \in Procs : q # r => pc'[q] = pc[q]
  BY Moved DEF StartInv
<1>2. Looper \in Procs => pc'[Looper] = pc[Looper]
  BY <1>1
<1>3. Procs' = Procs /\ Looper' = Looper /\ Content' = Content /\ Translates' = Translates
  BY SameFiles
<1>4. Progress'
  BY <1>2, <1>3 DEF StartInv, Progress
<1>5. Mapped'
  BY DEF StartInv, Mapped
<1>. QED
  BY <1>1, <1>4, <1>5

\* What was received stays so when nothing is received.
LEMMA ReceivedStays ==
  ASSUME Received, UNCHANGED <<program, world, files, mail, ranges, mapping, registers, firstBuffer>>
  PROVE  Received'
<1>1. Content' = Content /\ Letters' = Letters
  BY SameFiles
<1>. QED
  BY <1>1 DEF Received

--------------------------------------------------------------------------------
(* The steps of the start keep its invariant. *)

LEMMA MayEnd ==
  ASSUME Located, NEW r \in Procs
  PROVE  MayGo(r, "ended") /\ "ended" \notin MappingRead[program]
BY ProgramsAre DEF MayGo, MappingRead

LEMMA FailKeeps ==
  ASSUME StartInv, NEW r \in Procs, Fail(r), UNCHANGED <<program, world, files>>
  PROVE  StartInv'
<1>1. Goto(r, "ended") /\ UNCHANGED <<mail, ranges, mapping, registers, firstBuffer, memories, exited>>
  BY DEF Fail, memoryVars
<1>2. MayGo(r, "ended") /\ "ended" \notin MappingRead[program]
  BY MayEnd DEF StartInv
<1>3. Received'
  BY <1>1, ReceivedStays DEF StartInv
<1>4. CASE r # Looper
  BY <1>1, <1>2, <1>3, <1>4, OtherMoves DEF StartInv
<1>5. CASE r = Looper
  <2>1. Located' /\ pc'[r] = "ended"
    BY <1>1, <1>2, Moved DEF StartInv
  <2>2. Looper' = Looper /\ Procs' = Procs
    BY SameFiles
  <2>3. Progress'
    BY <1>1, <1>2, <1>5, <2>1, <2>2 DEF StartInv, Progress
  <2>4. Mapped'
    BY <1>1 DEF StartInv, Mapped
  <2>. QED
    BY <1>3, <2>1, <2>3, <2>4 DEF StartInv
<1>. QED
  BY <1>4, <1>5

\* What reading the next file brings, and where the program goes.
LEMMA NextIs ==
  ASSUME Located, program # "distributed",
         pc[0] \in {"arguments", "input", "output", "mapping", "ranges", "registers", "caches"}
  PROVE  /\ Following(pc[0]) \in Places[program]
         /\ Following(pc[0]) \in MappingRead[program] =>
              pc[0] = "mapping" \/ pc[0] \in MappingRead[program]
         /\ Translates =>
              /\ Following(pc[0]) = "memories" => pc[0] = "ranges"
              /\ Following(pc[0]) = "loop" => pc[0] = "registers"
              /\ Following(pc[0]) # "registers"
              /\ pc[0] = "ranges" => Following(pc[0]) = "memories"
              /\ pc[0] = "registers" => Following(pc[0]) = "loop"
         /\ pc[0] \in {"ranges", "registers"} => Translates
<1>1. program \in {"simple", "gem", "printtrace", "tests"} /\ pc[0] \in Places[program] \cup {"ended"}
  BY ProgramsAre DEF Located
<1>2. CASE program = "simple"
  <2>1. pc[0] \in {"arguments", "input", "mapping", "output", "caches", "ranges", "registers"}
    OBVIOUS
  <2>2. Translates
    BY <1>2 DEF Translates, loop
  <2>. QED
    BY <1>2, <2>1, <2>2, SimpleFollowing DEF Places, MappingRead
<1>3. CASE program = "gem"
  <2>1. pc[0] \in {"arguments", "input", "output", "caches"} /\ ~Translates
    BY <1>1, <1>3 DEF Places, Translates, loop
  <2>. QED
    BY <1>3, <2>1, GemFollowing DEF Places, MappingRead
<1>4. CASE program = "printtrace"
  <2>1. pc[0] \in {"arguments", "input", "mapping"} /\ ~Translates
    BY <1>1, <1>4 DEF Places, Translates, loop
  <2>. QED
    BY <1>4, <2>1, PrinttraceFollowing DEF Places, MappingRead
<1>5. CASE program = "tests"
  BY <1>1, <1>5 DEF Places
<1>. QED
  BY <1>1, <1>2, <1>3, <1>4, <1>5

LEMMA ReadNextKeeps ==
  ASSUME StartInv, NEW r \in Procs, ReadNext(r), UNCHANGED <<program, world, files>>
  PROVE  StartInv'
<1>1. r = 0 /\ r = Looper /\ program # "distributed"
  BY WhoIs DEF StartInv, ReadNext
<1>2. CASE ~Found(pc[r])
  BY <1>2, FailKeeps DEF ReadNext
<1>3. CASE Found(pc[r])
  <2>1. /\ pc[0] \in {"arguments", "input", "output", "mapping", "ranges", "registers"}
        /\ Goto(0, Following(pc[0]))
        /\ mapping'   = IF pc[0] = "mapping" THEN Content.mapping ELSE mapping
        /\ ranges'    = IF pc[0] = "ranges" THEN Content.ranges ELSE ranges
        /\ registers' = IF pc[0] = "registers" THEN Content.registers ELSE registers
        /\ UNCHANGED <<mail, firstBuffer, memories, exited>>
    BY <1>1, <1>3 DEF ReadNext, memoryVars
  <2>2. PICK here, next : here = pc[0] /\ next = Following(pc[0])
    OBVIOUS
  <2>3. /\ next \in Places[program]
        /\ next \in MappingRead[program] => here = "mapping" \/ here \in MappingRead[program]
        /\ Translates =>
             /\ next = "memories" => here = "ranges"
             /\ next = "loop" => here = "registers"
             /\ next # "registers"
             /\ here = "ranges" => next = "memories"
             /\ here = "registers" => next = "loop"
        /\ here \in {"ranges", "registers"} => Translates
    BY <1>1, <2>1, <2>2, NextIs DEF StartInv
  <2>4. Located' /\ pc'[0] = next
    BY <1>1, <2>1, <2>2, <2>3, Moved DEF StartInv, MayGo
  <2>5. /\ Looper' = 0 /\ Procs' = Procs /\ 0 \in Procs /\ Translates' = Translates
        /\ Content' = Content /\ Letters' = Letters
    BY <1>1, SameFiles
  <2>6. Received'
    <3>1. DOMAIN Content.registers = 0 .. Processors * Registers - 1
      BY ContentTypes DEF StartInv, Located
    <3>. QED
      BY <2>1, <2>5, <3>1 DEF StartInv, Received
  <2>7. here \in {"ranges"} => memories = <<>>
    BY <1>1, <2>2, <2>3 DEF StartInv, Progress
  <2>8. here = "registers" => ranges = Content.ranges /\ Len(memories) = Len(ranges)
    BY <1>1, <2>2, <2>3 DEF StartInv, Progress
  <2>9. Translates /\ here \notin {"registers"} => memories = <<>>
    BY <1>1, <2>1, <2>2 DEF StartInv, Progress
  <2>10. here \in MappingRead[program] => mapping = Content.mapping
    BY <1>1, <2>2 DEF StartInv, Progress
  <2>11. exited = FALSE
    BY <1>1, <2>1 DEF StartInv, Progress
  <2>12. Progress'
    <3>1. here \in {"arguments", "input", "output", "mapping", "ranges", "registers"}
      BY <2>1, <2>2
    <3>2. Translates =>
            /\ next \in {"memories", "registers", "loop"} => ranges' = Content.ranges
            /\ next \in {"registers", "loop"} => Len(memories) = Len(ranges')
            /\ next \notin {"memories", "registers", "loop", "ended"} => memories = <<>>
      BY <2>1, <2>2, <2>3, <2>8, <2>9
    <3>3. next \in MappingRead[program] => mapping' = Content.mapping
      BY <2>1, <2>2, <2>3, <2>10
    <3>. QED
      BY <2>1, <2>4, <2>5, <2>11, <3>2, <3>3 DEF Progress
  <2>13. Mapped'
    <3>1. CASE here = "ranges"
      <4>1. memories = <<>> /\ memories' = <<>> /\ ranges' = Content.ranges
        BY <2>1, <2>2, <2>7, <3>1
      <4>2. Content.ranges \in Seq(MemoryRange)
        BY ContentTypes DEF StartInv, Located
      <4>. QED
        BY <4>1, <4>2 DEF Mapped
    <3>2. CASE here # "ranges"
      BY <2>1, <2>2, <3>2 DEF StartInv, Mapped
    <3>. QED
      BY <3>1, <3>2
  <2>. QED
    BY <2>4, <2>6, <2>12, <2>13 DEF StartInv
<1>. QED
  BY <1>2, <1>3

LEMMA CachesBuiltKeeps ==
  ASSUME StartInv, NEW r \in Procs, CachesBuilt(r), UNCHANGED <<program, world, files>>
  PROVE  StartInv'
<1>1. r = 0 /\ r = Looper /\ program # "distributed" /\ pc[0] = "caches"
  <2>1. pc[r] = "caches" /\ program # "distributed"
    BY WhoIs DEF StartInv, CachesBuilt
  <2>. QED
    BY <2>1, WhoIs DEF StartInv
<1>2. PICK next : next = Following("caches")
  OBVIOUS
<1>3. Goto(r, next) /\ UNCHANGED <<mail, ranges, mapping, registers, firstBuffer, memories, exited>>
  BY <1>2 DEF CachesBuilt, memoryVars
<1>4. /\ next \in Places[program]
      /\ next \in MappingRead[program] => "caches" \in MappingRead[program]
      /\ Translates => next \notin {"memories", "registers", "loop"}
  BY <1>1, <1>2, NextIs DEF StartInv
<1>5. Located' /\ pc'[0] = next
  BY <1>1, <1>3, <1>4, Moved DEF StartInv, MayGo
<1>6. Received'
  BY <1>3, ReceivedStays DEF StartInv
<1>7. Looper' = 0 /\ Procs' = Procs /\ 0 \in Procs /\ Translates' = Translates /\ Content' = Content
  BY <1>1, SameFiles
<1>8. Progress'
  <2>1. Translates => memories = <<>>
    BY <1>1 DEF StartInv, Progress
  <2>2. "caches" \in MappingRead[program] => mapping = Content.mapping
    BY <1>1 DEF StartInv, Progress
  <2>3. exited = FALSE
    BY <1>1 DEF StartInv, Progress
  <2>. QED
    BY <1>3, <1>4, <1>5, <1>7, <2>1, <2>2, <2>3 DEF Progress
<1>9. Mapped'
  BY <1>3 DEF StartInv, Mapped
<1>. QED
  BY <1>5, <1>6, <1>8, <1>9 DEF StartInv

LEMMA MemoriesSetKeeps ==
  ASSUME StartInv, NEW r \in Procs, MemoriesSet(r), UNCHANGED <<program, world, files>>
  PROVE  StartInv'
<1>1. r = 0 /\ r = Looper /\ program = "simple" /\ pc[0] = "memories" /\ Len(memories) = Len(ranges)
  BY WhoIs DEF StartInv, MemoriesSet, MemoriesDone
<1>2. Goto(r, "registers") /\ UNCHANGED <<mail, ranges, mapping, registers, firstBuffer, memories, exited>>
  BY <1>1, SimpleFollowing DEF MemoriesSet, memoryVars
<1>3. MayGo(r, "registers")
  BY <1>1 DEF MayGo, Places
<1>4. Located' /\ pc'[0] = "registers"
  BY <1>1, <1>2, <1>3, Moved DEF StartInv
<1>5. Received'
  BY <1>2, ReceivedStays DEF StartInv
<1>6. Looper' = 0 /\ Procs' = Procs /\ 0 \in Procs /\ Translates' = Translates /\ Content' = Content
  BY <1>1, SameFiles
<1>7. Progress'
  <2>1. Translates
    BY <1>1 DEF Translates, loop
  <2>2. ranges = Content.ranges /\ exited = FALSE
    BY <1>1, <2>1 DEF StartInv, Progress
  <2>3. "memories" \in MappingRead[program]
    BY <1>1 DEF MappingRead
  <2>4. mapping = Content.mapping
    BY <1>1, <2>3 DEF StartInv, Progress
  <2>. QED
    BY <1>1, <1>2, <1>4, <1>6, <2>2, <2>4 DEF Progress
<1>8. Mapped'
  BY <1>2 DEF StartInv, Mapped
<1>. QED
  BY <1>4, <1>5, <1>7, <1>8 DEF StartInv

LEMMA SetUpMemoryKeeps ==
  ASSUME StartInv, MemoryInv, NEW r \in Procs, SetUpMemory(r), UNCHANGED <<program, world, files>>
  PROVE  StartInv' /\ MemoryInv'
<1>1. r = Looper /\ Translates /\ pc[r] = "memories"
  BY WhoIs DEF StartInv, SetUpMemory
<1>2. ranges = Content.ranges /\ exited = FALSE
  BY <1>1 DEF StartInv, Progress
<1>3. PICK m : m = ranges[Len(memories) + 1]
  OBVIOUS
<1>4. UNCHANGED <<mail, ranges, mapping, registers, firstBuffer>> /\ Len(memories) < Len(ranges)
  BY DEF SetUpMemory
<1>5. Received'
  BY <1>4, ReceivedStays DEF StartInv
<1>6. memories \in Seq(PagedMemory) /\ Len(memories) \in Nat /\ \A i \in DOMAIN memories : memories[i] = ranges[i]
  BY DEF StartInv, Mapped
<1>7. ranges \in Seq(MemoryRange) /\ m \in MemoryRange /\ WholePages(m)
  <2>1. ranges \in Seq(MemoryRange) /\ \A i \in DOMAIN ranges : WholePages(ranges[i])
    BY <1>2, ContentTypes DEF StartInv, Located
  <2>2. Len(memories) + 1 \in DOMAIN ranges
    BY <1>4, <1>6, <2>1
  <2>. QED
    BY <1>3, <2>1, <2>2
<1>8. Looper' = Looper /\ Procs' = Procs /\ Translates' = Translates /\ Content' = Content
  BY SameFiles
<1>9. MayGo(r, "ended") /\ "ended" \notin MappingRead[program]
  BY MayEnd DEF StartInv
<1>10. CASE m.dump = None
  <2>1. Goto(r, "ended") /\ exited' = TRUE /\ UNCHANGED <<memories, table, flat, lost>>
    BY <1>3, <1>10 DEF SetUpMemory
  <2>2. Located' /\ pc'[r] = "ended"
    BY <1>9, <2>1, Moved DEF StartInv
  <2>3. Progress'
    BY <1>1, <1>8, <1>9, <2>1, <2>2 DEF Progress
  <2>4. Mapped'
    BY <1>4, <2>1 DEF StartInv, Mapped
  <2>5. MemoryInv'
    <3>1. MemoryShape'
      <4>1. \A x : MemoryFor(x)' = MemoryFor(x)
        BY <2>1 DEF MemoryFor
      <4>. QED
        BY <2>1, <4>1 DEF MemoryInv, MemoryShape
    <3>2. MemoryIsFlat'
      BY <2>1 DEF MemoryIsFlat
    <3>. QED
      BY <3>1, <3>2 DEF MemoryInv
  <2>. QED
    BY <1>5, <2>2, <2>3, <2>4, <2>5 DEF StartInv
<1>11. CASE m.dump # None
  <2>1. /\ InitMemory(m) /\ exited' = TooMany(Len(memories) + 1)
        /\ IF exited' THEN Goto(r, "ended") ELSE UNCHANGED pc
    BY <1>3, <1>11 DEF SetUpMemory
  <2>2. m \in PagedMemory
    BY <1>7, <1>11 DEF MemoryRange, PagedMemory
  <2>3. MemoryInv'
    BY <1>2, <2>1, <2>2, InitMemoryKeeps
  <2>4. exited' \in BOOLEAN
    <3>1. CASE program = "simple"
      <4>1. exited' = (Len(memories) + 1 >= MaxRanges)
        BY <2>1, <3>1 DEF TooMany
      <4>. QED
        BY <4>1
    <3>2. CASE program # "simple"
      <4>1. exited' = (Len(memories) + 1 > MaxRanges)
        BY <2>1, <3>2 DEF TooMany
      <4>. QED
        BY <4>1
    <3>. QED
      BY <3>1, <3>2
  <2>5. Mapped'
    <3>1. memories' = Append(memories, m)
      BY <2>1 DEF InitMemory
    <3>2. PICK n \in Nat : n = Len(memories) /\ DOMAIN memories = 1 .. n
      BY <1>6
    <3>3. /\ memories' \in Seq(PagedMemory) /\ Len(memories') = n + 1 /\ DOMAIN memories' = 1 .. n + 1
          /\ memories'[n + 1] = m /\ \A i \in 1 .. n : memories'[i] = memories[i]
      BY <1>6, <2>2, <3>1, <3>2
    <3>4. n + 1 <= Len(ranges)
      BY <1>4, <1>7, <3>2
    <3>5. \A i \in 1 .. n + 1 : memories'[i] = ranges[i]
      BY <1>3, <1>6, <3>2, <3>3
    <3>. QED
      BY <1>4, <3>3, <3>4, <3>5 DEF Mapped
  <2>6. CASE exited'
    <3>1. Located' /\ pc'[r] = "ended"
      BY <1>9, <2>1, <2>6, Moved DEF StartInv
    <3>2. Progress'
      BY <1>1, <1>8, <1>9, <2>4, <3>1 DEF Progress
    <3>. QED
      BY <1>5, <2>3, <2>5, <3>1, <3>2 DEF StartInv
  <2>7. CASE ~exited'
    <3>1. UNCHANGED pc
      BY <2>1, <2>7
    <3>2. Located'
      BY <1>8, <3>1, SameFiles DEF StartInv, Located
    <3>3. "memories" \in MappingRead[program] => mapping = Content.mapping
      BY <1>1 DEF StartInv, Progress
    <3>4. Progress'
      BY <1>1, <1>2, <1>4, <1>8, <2>4, <2>7, <3>1, <3>3 DEF Progress
    <3>. QED
      BY <1>5, <2>3, <2>5, <3>2, <3>4 DEF StartInv
  <2>. QED
    BY <2>6, <2>7
<1>. QED
  BY <1>10, <1>11

\* A step of a process that does not run the loop, which leaves what was received alone.
LEMMA OtherKeeps ==
  ASSUME StartInv, NEW r \in Procs, r # Looper, NEW label, Goto(r, label), MayGo(r, label),
         UNCHANGED <<program, world, files, mail, ranges, mapping, registers, firstBuffer,
                     memories, exited>>
  PROVE  StartInv'
<1>1. Received'
  BY ReceivedStays DEF StartInv
<1>2. Located' /\ Progress' /\ Mapped'
  BY OtherMoves
<1>. QED
  BY <1>1, <1>2 DEF StartInv

LEMMA MainKeeps ==
  ASSUME StartInv, NEW r \in Procs, Main(r), UNCHANGED <<program, world, files>>
  PROVE  StartInv'
<1>1. PICK label : label = IF world <= 2 \/ ~Found("arguments") THEN "ended" ELSE Role(r)
  OBVIOUS
<1>2. /\ pc[r] = "main" /\ Goto(r, label)
      /\ UNCHANGED <<mail, ranges, mapping, registers, firstBuffer, memories, exited>>
  BY <1>1 DEF Main, memoryVars
<1>3. program = "distributed"
  BY <1>2, WhoIs DEF StartInv
<1>4. label = "ended" \/ (label = "coordinator" /\ r = Coordinator) \/ label \in {"reader", "output", "worker"}
  BY <1>1, <1>3 DEF Role, Coordinator
<1>5. MayGo(r, label)
  BY <1>3, <1>4 DEF MayGo
<1>6. CASE r # Looper
  BY <1>2, <1>5, <1>6, OtherKeeps
<1>7. CASE r = Looper
  <2>1. Located' /\ pc'[r] = label
    BY <1>2, <1>5, Moved DEF StartInv
  <2>2. Looper' = Looper /\ Procs' = Procs /\ Translates' = Translates /\ Content' = Content
    BY SameFiles
  <2>3. Received'
    BY <1>2, ReceivedStays DEF StartInv
  <2>4. label \notin MappingRead[program] /\ label \notin {"memories", "registers", "loop"}
    BY <1>3, <1>4 DEF MappingRead
  <2>5. Translates => memories = <<>>
    BY <1>2, <1>7 DEF StartInv, Progress
  <2>6. exited = FALSE
    BY <1>2, <1>7 DEF StartInv, Progress
  <2>7. Progress'
    BY <1>2, <1>7, <2>1, <2>2, <2>4, <2>5, <2>6 DEF Progress
  <2>8. Mapped'
    BY <1>2 DEF StartInv, Mapped
  <2>. QED
    BY <2>1, <2>3, <2>7, <2>8 DEF StartInv
<1>. QED
  BY <1>6, <1>7

LEMMA WorkerAndOutputKeep ==
  ASSUME StartInv, NEW r \in Procs, StartWorker(r) \/ StartOutput(r),
         UNCHANGED <<program, world, files>>
  PROVE  StartInv'
<1>1. PICK label \in {"waiting", "ended"} : Goto(r, label)
  BY DEF StartWorker, StartOutput
<1>2. UNCHANGED <<mail, ranges, mapping, registers, firstBuffer, memories, exited>>
  BY DEF StartWorker, StartOutput, memoryVars
<1>3. program = "distributed"
  BY WhoIs DEF StartInv, StartWorker, StartOutput
<1>4. MayGo(r, label)
  BY <1>3 DEF MayGo
<1>5. CASE r # Looper
  BY <1>1, <1>2, <1>4, <1>5, OtherKeeps
<1>6. CASE r = Looper
  <2>1. pc[r] = "worker"
    BY <1>6, WhoIs DEF StartInv, StartWorker, StartOutput
  <2>2. Located' /\ pc'[r] = label
    BY <1>1, <1>2, <1>4, Moved DEF StartInv
  <2>3. Looper' = Looper /\ Procs' = Procs /\ Translates' = Translates /\ Content' = Content
    BY SameFiles
  <2>4. Received'
    BY <1>2, ReceivedStays DEF StartInv
  <2>5. label \notin MappingRead[program]
    BY <1>3 DEF MappingRead
  <2>6. (Translates => memories = <<>>) /\ exited = FALSE
    BY <1>6, <2>1 DEF StartInv, Progress
  <2>7. Progress'
    BY <1>2, <1>6, <2>2, <2>3, <2>5, <2>6 DEF Progress
  <2>8. Mapped'
    BY <1>2 DEF StartInv, Mapped
  <2>. QED
    BY <2>2, <2>4, <2>7, <2>8 DEF StartInv
<1>. QED
  BY <1>5, <1>6

LEMMA ReadAndSendKeeps ==
  ASSUME StartInv, NEW r \in Procs, ReadAndSend(r), UNCHANGED <<program, world, files>>
  PROVE  StartInv'
<1>1. r # Looper /\ program = "distributed"
  BY WhoIs DEF StartInv, ReadAndSend
<1>2. PICK what \in {"ranges", "mapping", "registers", "trace"} : what = After[pc[r]]
  BY DEF ReadAndSend, After
<1>3. CASE ~Sendable(what)
  BY <1>2, <1>3, FailKeeps DEF ReadAndSend
<1>4. CASE Sendable(what)
  <2>1. /\ mail' = Append(mail, [tag |-> Tag[what], data |-> Content[what], what |-> what])
        /\ Goto(r, Sending[what])
        /\ UNCHANGED <<ranges, mapping, registers, firstBuffer, memories, exited>>
    BY <1>2, <1>4 DEF ReadAndSend, memoryVars
  <2>2. Sending[what] \in {"sending ranges", "sending mapping", "sending registers", "sending trace"}
    <3>1. /\ Sending["ranges"] = "sending ranges" /\ Sending["mapping"] = "sending mapping"
          /\ Sending["registers"] = "sending registers" /\ Sending["trace"] = "sending trace"
      BY DEF Sending
    <3>. QED
      BY <3>1
  <2>3. MayGo(r, Sending[what])
    BY <1>1, <2>2 DEF MayGo
  <2>4. PICK label : label = Sending[what]
    OBVIOUS
  <2>5. Located' /\ Progress' /\ Mapped'
    BY <1>1, <2>1, <2>3, <2>4, OtherMoves
  <2>6. [tag |-> Tag[what], data |-> Content[what], what |-> what] \in Letters
    BY DEF Letters, Tag
  <2>7. Received'
    <3>1. Content' = Content /\ Letters' = Letters
      BY SameFiles
    <3>2. mail' \in Seq(Letters)
      BY <2>1, <2>6 DEF StartInv, Received
    <3>. QED
      BY <2>1, <3>1, <3>2 DEF StartInv, Received
  <2>. QED
    BY <2>5, <2>7 DEF StartInv
<1>. QED
  BY <1>3, <1>4

LEMMA SendReturnsKeeps ==
  ASSUME StartInv, NEW r \in Procs, SendReturns(r), UNCHANGED <<program, world, files>>
  PROVE  StartInv'
<1>1. r # Looper /\ program = "distributed"
  BY WhoIs DEF StartInv, SendReturns
<1>2. PICK what \in {"ranges", "mapping", "registers", "trace"} : Goto(r, what)
  BY DEF SendReturns, Tag
<1>3. UNCHANGED <<mail, ranges, mapping, registers, firstBuffer, memories, exited>>
  BY DEF SendReturns, memoryVars
<1>4. MayGo(r, what)
  BY <1>1 DEF MayGo
<1>. QED
  BY <1>1, <1>2, <1>3, <1>4, OtherKeeps

\* The first message with the tag of a file has what is in that file; taking it out leaves
\* messages.
LEMMA LetterIs ==
  ASSUME Received, NEW what \in {"ranges", "mapping", "registers", "trace"}, NEW i \in First(Tag[what])
  PROVE  mail[i].data = Content[what] /\ Without(i) \in Seq(Letters)
<1>1. i \in DOMAIN mail /\ mail[i].tag = Tag[what]
  BY DEF First
<1>2. PICK n \in Nat : n = Len(mail) /\ DOMAIN mail = 1 .. n /\ \A j \in 1 .. n : mail[j] \in Letters
  BY DEF Received
<1>3. PICK w \in {"ranges", "mapping", "registers", "trace"} :
        mail[i] = [tag |-> Tag[w], data |-> Content[w], what |-> w]
  BY <1>1, <1>2 DEF Letters, Tag
<1>4. w = what
  BY <1>1, <1>3 DEF Tag
<1>5. Without(i) = [j \in 1 .. n - 1 |-> mail[IF j < i THEN j ELSE j + 1]]
  BY <1>2 DEF Without
<1>6. \A j \in 1 .. n - 1 : (IF j < i THEN j ELSE j + 1) \in 1 .. n
  BY <1>1, <1>2
<1>7. Without(i) \in [1 .. n - 1 -> Letters] /\ n - 1 \in Nat
  BY <1>1, <1>2, <1>5, <1>6
<1>8. Without(i) \in Seq(Letters)
  BY <1>7
<1>. QED
  BY <1>3, <1>4, <1>8

LEMMA TraceArrivesKeeps ==
  ASSUME StartInv, TraceArrives, UNCHANGED <<program, world, files>>
  PROVE  StartInv'
<1>1. PICK i \in First(Tag["trace"]) : firstBuffer' = mail[i].data /\ mail' = Without(i)
  BY DEF TraceArrives, Tag
<1>2. UNCHANGED <<pc, ranges, mapping, registers, memories, exited>>
  BY DEF TraceArrives, memoryVars
<1>3. firstBuffer' = "bytes" /\ mail' \in Seq(Letters)
  BY <1>1, LetterIs, ContentIs DEF StartInv
<1>4. /\ Content' = Content /\ Letters' = Letters /\ Looper' = Looper /\ Procs' = Procs
      /\ Translates' = Translates /\ Coordinator' = Coordinator
  BY SameFiles
<1>5. Received'
  BY <1>2, <1>3, <1>4 DEF StartInv, Received
<1>6. Located'
  BY <1>2, <1>4 DEF StartInv, Located
<1>7. Progress'
  BY <1>2, <1>4 DEF StartInv, Progress
<1>8. Mapped'
  BY <1>2 DEF StartInv, Mapped
<1>. QED
  BY <1>5, <1>6, <1>7, <1>8 DEF StartInv

LEMMA ReceiveRangesKeeps ==
  ASSUME StartInv, NEW r \in Procs, ReceiveRanges(r), UNCHANGED <<program, world, files>>
  PROVE  StartInv'
<1>1. pc[r] = "coordinator" /\ r = Looper /\ program = "distributed" /\ r = Coordinator
  BY WhoIs DEF StartInv, ReceiveRanges, Looper
<1>2. PICK i \in First(Tag["ranges"]) : ranges' = mail[i].data /\ mail' = Without(i)
  BY DEF ReceiveRanges, Tag
<1>3. Goto(r, "memories") /\ UNCHANGED <<mapping, registers, firstBuffer, memories, exited>>
  BY DEF ReceiveRanges, memoryVars
<1>4. ranges' = Content.ranges /\ mail' \in Seq(Letters)
  BY <1>2, LetterIs, ContentIs DEF StartInv
<1>5. MayGo(r, "memories") /\ "memories" \notin MappingRead[program]
  BY <1>1 DEF MayGo, MappingRead
<1>6. Located' /\ pc'[r] = "memories"
  BY <1>3, <1>5, Moved DEF StartInv
<1>7. /\ Content' = Content /\ Letters' = Letters /\ Looper' = Looper /\ Procs' = Procs
      /\ Translates' = Translates
  BY SameFiles
<1>8. Received'
  BY <1>3, <1>4, <1>7 DEF StartInv, Received
<1>9. memories = <<>> /\ exited = FALSE
  <2>1. Translates
    BY <1>1 DEF Translates, loop
  <2>. QED
    BY <1>1, <2>1 DEF StartInv, Progress
<1>10. Progress'
  BY <1>1, <1>3, <1>4, <1>5, <1>6, <1>7, <1>9 DEF Progress
<1>11. Mapped'
  <2>1. ranges' \in Seq(MemoryRange)
    BY <1>4, ContentTypes DEF StartInv, Located
  <2>. QED
    BY <1>3, <1>9, <2>1 DEF Mapped
<1>. QED
  BY <1>6, <1>8, <1>10, <1>11 DEF StartInv

LEMMA ReceiveMappingKeeps ==
  ASSUME StartInv, NEW r \in Procs, ReceiveMapping(r), UNCHANGED <<program, world, files>>
  PROVE  StartInv'
<1>1. /\ pc[r] = "memories" /\ r = Looper /\ program = "distributed" /\ Translates
      /\ Len(memories) = Len(ranges)
  BY WhoIs DEF StartInv, ReceiveMapping, MemoriesDone
<1>2. PICK i \in First(Tag["mapping"]) : mapping' = mail[i].data /\ mail' = Without(i)
  BY DEF ReceiveMapping, Tag
<1>3. Goto(r, "registers") /\ UNCHANGED <<ranges, registers, firstBuffer, memories, exited>>
  BY DEF ReceiveMapping, memoryVars
<1>4. mapping' = Content.mapping /\ mail' \in Seq(Letters)
  BY <1>2, LetterIs, ContentIs DEF StartInv
<1>5. MayGo(r, "registers")
  BY <1>1 DEF MayGo
<1>6. Located' /\ pc'[r] = "registers"
  BY <1>3, <1>5, Moved DEF StartInv
<1>7. /\ Content' = Content /\ Letters' = Letters /\ Looper' = Looper /\ Procs' = Procs
      /\ Translates' = Translates
  BY SameFiles
<1>8. Received'
  BY <1>3, <1>4, <1>7 DEF StartInv, Received
<1>9. ranges = Content.ranges /\ exited = FALSE
  BY <1>1 DEF StartInv, Progress
<1>10. Progress'
  BY <1>1, <1>3, <1>4, <1>6, <1>7, <1>9 DEF Progress
<1>11. Mapped'
  BY <1>3 DEF StartInv, Mapped
<1>. QED
  BY <1>6, <1>8, <1>10, <1>11 DEF StartInv

LEMMA ReceiveRegistersKeeps ==
  ASSUME StartInv, NEW r \in Procs, ReceiveRegisters(r), UNCHANGED <<program, world, files>>
  PROVE  StartInv' /\ registers' = Content.registers
<1>1. pc[r] = "registers" /\ r = Looper /\ program = "distributed" /\ Translates /\ r = Coordinator
  BY WhoIs DEF StartInv, ReceiveRegisters, Translates, loop, Looper
<1>2. PICK i \in First(Tag["registers"]) : registers' = mail[i].data /\ mail' = Without(i)
  BY DEF ReceiveRegisters, Tag
<1>3. Goto(r, "loop") /\ UNCHANGED <<ranges, mapping, firstBuffer, memories, exited>>
  BY DEF ReceiveRegisters, memoryVars
<1>4. registers' = Content.registers /\ mail' \in Seq(Letters)
  BY <1>2, LetterIs, ContentIs DEF StartInv
<1>5. MayGo(r, "loop")
  BY <1>1 DEF MayGo
<1>6. Located' /\ pc'[r] = "loop"
  BY <1>3, <1>5, Moved DEF StartInv
<1>7. /\ Content' = Content /\ Letters' = Letters /\ Looper' = Looper /\ Procs' = Procs
      /\ Translates' = Translates
  BY SameFiles
<1>8. Received'
  <2>1. DOMAIN Content.registers = 0 .. Processors * Registers - 1
    BY ContentTypes DEF StartInv, Located
  <2>. QED
    BY <1>3, <1>4, <1>7, <2>1 DEF StartInv, Received
<1>9. ranges = Content.ranges /\ Len(memories) = Len(ranges) /\ exited = FALSE
  BY <1>1 DEF StartInv, Progress
<1>10. mapping = Content.mapping
  <2>1. "registers" \in MappingRead[program]
    BY <1>1 DEF MappingRead
  <2>. QED
    BY <1>1, <2>1 DEF StartInv, Progress
<1>11. Progress'
  BY <1>1, <1>3, <1>6, <1>7, <1>9, <1>10 DEF Progress
<1>12. Mapped'
  BY <1>3 DEF StartInv, Mapped
<1>. QED
  BY <1>4, <1>6, <1>8, <1>11, <1>12 DEF StartInv

LEMMA EndJobKeeps ==
  ASSUME StartInv, EndJob, UNCHANGED <<program, world, files>>
  PROVE  StartInv'
<1>1. program = "distributed" /\ pc' = [r \in Procs |-> "ended"]
      /\ UNCHANGED <<mail, ranges, mapping, registers, firstBuffer, memories, exited>>
  BY DEF EndJob, memoryVars
<1>2. Looper' = Looper /\ Procs' = Procs /\ Coordinator' = Coordinator
  BY SameFiles
<1>3. Received'
  BY <1>1, ReceivedStays DEF StartInv
<1>4. Located'
  BY <1>1, <1>2 DEF StartInv, Located
<1>5. "ended" \notin MappingRead[program]
  BY <1>1 DEF MappingRead
<1>6. Progress'
  BY <1>1, <1>2, <1>5 DEF StartInv, Progress
<1>7. Mapped'
  BY <1>1 DEF StartInv, Mapped
<1>. QED
  BY <1>3, <1>4, <1>6, <1>7 DEF StartInv

--------------------------------------------------------------------------------
(* Together: a step before or behind the loop. *)

\* The program is in its loop until it ends, and comes there with the registers of the file.
Entered ==
  Looper \in Procs =>
    /\ pc[Looper] = "ended" => pc'[Looper] = "ended"
    /\ pc[Looper] = "loop" => pc'[Looper] \in {"loop", "ended"} /\ UNCHANGED registers
    /\ Translates /\ pc'[Looper] = "loop" => pc[Looper] = "loop" \/ registers' = Content.registers

\* A process that does not run the loop moves, or the one that does, but not to the loop.
LEMMA EnteredBut ==
  ASSUME StartInv, NEW r \in Procs, NEW label, Goto(r, label), UNCHANGED registers,
         r # Looper \/ (label = "ended" \/ (label # "loop" /\ pc[r] \notin {"loop", "ended"}))
  PROVE  Entered
<1>1. DOMAIN pc = Procs /\ pc' = [pc EXCEPT ![r] = label]
  BY DEF StartInv, Located, Goto
<1>2. CASE r # Looper
  BY <1>1, <1>2 DEF Entered
<1>3. CASE r = Looper
  BY <1>1, <1>3 DEF Entered
<1>. QED
  BY <1>2, <1>3

LEMMA FailEnters ==
  ASSUME StartInv, NEW r \in Procs, Fail(r)
  PROVE  Entered
<1>1. PICK label : label = "ended" /\ Goto(r, label) /\ UNCHANGED registers
  BY DEF Fail
<1>. QED
  BY <1>1, EnteredBut

LEMMA ReadNextEnters ==
  ASSUME StartInv, NEW r \in Procs, ReadNext(r)
  PROVE  Entered
<1>1. r = 0 /\ r = Looper /\ program # "distributed"
  BY WhoIs DEF StartInv, ReadNext
<1>2. CASE ~Found(pc[r])
  BY <1>2, FailEnters DEF ReadNext
<1>3. CASE Found(pc[r])
  <2>1. /\ pc[0] \in {"arguments", "input", "output", "mapping", "ranges", "registers"}
        /\ Goto(0, Following(pc[0]))
        /\ registers' = IF pc[0] = "registers" THEN Content.registers ELSE registers
    BY <1>1, <1>3 DEF ReadNext
  <2>2. PICK next : next = Following(pc[0])
    OBVIOUS
  <2>3. Translates /\ next = "loop" => pc[0] = "registers"
    BY <1>1, <2>1, <2>2, NextIs DEF StartInv
  <2>4. pc'[0] = next
    BY <1>1, <2>1, <2>2 DEF StartInv, Located, Goto
  <2>. QED
    BY <1>1, <2>1, <2>3, <2>4 DEF Entered
<1>. QED
  BY <1>2, <1>3

LEMMA SetUpMemoryEnters ==
  ASSUME StartInv, NEW r \in Procs, SetUpMemory(r)
  PROVE  Entered
<1>1. r = Looper /\ pc[r] = "memories" /\ UNCHANGED registers
  BY WhoIs DEF StartInv, SetUpMemory
<1>2. (\E label \in {"ended"} : Goto(r, label)) \/ UNCHANGED pc
  BY DEF SetUpMemory
<1>3. CASE UNCHANGED pc
  BY <1>1, <1>3 DEF Entered
<1>4. CASE \E label \in {"ended"} : Goto(r, label)
  BY <1>1, <1>4, EnteredBut
<1>. QED
  BY <1>2, <1>3, <1>4

LEMMA CachesBuiltEnters ==
  ASSUME StartInv, NEW r \in Procs, CachesBuilt(r)
  PROVE  Entered
<1>1. r = 0 /\ r = Looper /\ program # "distributed" /\ pc[0] = "caches"
  <2>1. pc[r] = "caches" /\ program # "distributed"
    BY WhoIs DEF StartInv, CachesBuilt
  <2>. QED
    BY <2>1, WhoIs DEF StartInv
<1>2. PICK next : next = Following("caches")
  OBVIOUS
<1>3. Goto(0, next) /\ UNCHANGED registers
  BY <1>1, <1>2 DEF CachesBuilt
<1>4. Translates => next # "loop"
  BY <1>1, <1>2, NextIs DEF StartInv
<1>5. pc'[0] = next
  BY <1>1, <1>3 DEF StartInv, Located, Goto
<1>. QED
  BY <1>1, <1>3, <1>4, <1>5 DEF Entered

LEMMA MainEnters ==
  ASSUME StartInv, NEW r \in Procs, Main(r)
  PROVE  Entered
<1>1. PICK label : label = IF world <= 2 \/ ~Found("arguments") THEN "ended" ELSE Role(r)
  OBVIOUS
<1>2. pc[r] = "main" /\ Goto(r, label) /\ UNCHANGED registers
  BY <1>1 DEF Main
<1>3. program = "distributed"
  BY <1>2, WhoIs DEF StartInv
<1>4. label # "loop"
  BY <1>1, <1>3 DEF Role
<1>. QED
  BY <1>2, <1>4, EnteredBut

LEMMA ReceiveRegistersEnters ==
  ASSUME StartInv, NEW r \in Procs, ReceiveRegisters(r), UNCHANGED <<program, world, files>>
  PROVE  Entered
<1>1. pc[r] = "registers" /\ r = Looper
  BY WhoIs DEF StartInv, ReceiveRegisters
<1>2. registers' = Content.registers
  BY ReceiveRegistersKeeps
<1>. QED
  BY <1>1, <1>2 DEF Entered

\* The other steps go to places that are not the loop.
LEMMA OthersEnter ==
  ASSUME StartInv, NEW r \in Procs,
         \/ MemoriesSet(r) \/ StartWorker(r) \/ StartOutput(r) \/ ReadAndSend(r) \/ SendReturns(r)
         \/ ReceiveRanges(r) \/ ReceiveMapping(r)
  PROVE  Entered
<1>1. CASE MemoriesSet(r)
  <2>1. PICK label : label = "registers" /\ Goto(r, label)
    BY <1>1, SimpleFollowing DEF MemoriesSet
  <2>2. pc[r] = "memories" /\ UNCHANGED registers
    BY <1>1 DEF MemoriesSet, MemoriesDone
  <2>. QED
    BY <2>1, <2>2, EnteredBut
<1>2. CASE StartWorker(r) \/ StartOutput(r)
  <2>1. PICK label \in {"waiting", "ended"} : Goto(r, label)
    BY <1>2 DEF StartWorker, StartOutput
  <2>2. pc[r] \in {"worker", "output"} /\ UNCHANGED registers
    BY <1>2 DEF StartWorker, StartOutput
  <2>. QED
    BY <2>1, <2>2, EnteredBut
<1>3. CASE ReadAndSend(r) \/ SendReturns(r)
  <2>1. r # Looper
    BY <1>3, WhoIs DEF StartInv, ReadAndSend, SendReturns
  <2>2. PICK label : Goto(r, label)
    BY <1>3 DEF ReadAndSend, SendReturns, Fail
  <2>3. UNCHANGED registers
    BY <1>3 DEF ReadAndSend, SendReturns, Fail
  <2>. QED
    BY <2>1, <2>2, <2>3, EnteredBut
<1>4. CASE ReceiveRanges(r)
  <2>1. PICK label : label = "memories" /\ Goto(r, label)
    BY <1>4 DEF ReceiveRanges
  <2>2. pc[r] = "coordinator" /\ UNCHANGED registers
    BY <1>4 DEF ReceiveRanges
  <2>. QED
    BY <2>1, <2>2, EnteredBut
<1>5. CASE ReceiveMapping(r)
  <2>1. PICK label : label = "registers" /\ Goto(r, label)
    BY <1>5 DEF ReceiveMapping
  <2>2. pc[r] = "memories" /\ UNCHANGED registers
    BY <1>5 DEF ReceiveMapping, MemoriesDone
  <2>. QED
    BY <2>1, <2>2, EnteredBut
<1>. QED
  BY <1>1, <1>2, <1>3, <1>4, <1>5

LEMMA MemoryStays ==
  ASSUME MemoryInv, UNCHANGED memoryVars
  PROVE  MemoryInv'
<1>1. UNCHANGED <<memories, table, exited, flat, lost>>
  BY DEF memoryVars
<1>2. \A x : MemoryFor(x)' = MemoryFor(x)
  BY <1>1 DEF MemoryFor
<1>3. \A x, i : ByteAt(i, x)' = ByteAt(i, x)
  BY <1>1 DEF ByteAt
<1>4. MemoryShape'
  BY <1>1, <1>2 DEF MemoryInv, MemoryShape
<1>5. MemoryIsFlat'
  BY <1>1, <1>2, <1>3 DEF MemoryInv, MemoryIsFlat
<1>. QED
  BY <1>4, <1>5 DEF MemoryInv

\* The steps of Next that are not of the loop, of the writer of the trace or of the caches.
StartsOrEnds ==
  /\ \/ \E r \in Procs : Start(r) \/ SendReturns(r)
     \/ TraceArrives \/ EndJob \/ ReaderReturns \/ LoopReturns
  /\ Rest

LEMMA StartKeeps ==
  ASSUME StartInv, MemoryInv, StartsOrEnds
  PROVE  StartInv' /\ MemoryInv' /\ Entered
<1>1. UNCHANGED <<program, world, files>>
  BY DEF StartsOrEnds, Rest
<1>2. ASSUME NEW r \in Procs, ReadNext(r)
      PROVE  StartInv' /\ MemoryInv' /\ Entered
  <2>1. UNCHANGED memoryVars
    BY <1>2 DEF ReadNext, Fail
  <2>. QED
    BY <1>1, <1>2, <2>1, ReadNextKeeps, ReadNextEnters, MemoryStays
<1>3. ASSUME NEW r \in Procs, SetUpMemory(r)
      PROVE  StartInv' /\ MemoryInv' /\ Entered
  BY <1>1, <1>3, SetUpMemoryKeeps, SetUpMemoryEnters
<1>4. ASSUME NEW r \in Procs, MemoriesSet(r)
      PROVE  StartInv' /\ MemoryInv' /\ Entered
  <2>1. UNCHANGED memoryVars
    BY <1>4 DEF MemoriesSet
  <2>. QED
    BY <1>1, <1>4, <2>1, MemoriesSetKeeps, OthersEnter, MemoryStays
<1>5. ASSUME NEW r \in Procs, Main(r)
      PROVE  StartInv' /\ MemoryInv' /\ Entered
  <2>1. UNCHANGED memoryVars
    BY <1>5 DEF Main
  <2>. QED
    BY <1>1, <1>5, <2>1, MainKeeps, MainEnters, MemoryStays
<1>6. ASSUME NEW r \in Procs, StartWorker(r) \/ StartOutput(r)
      PROVE  StartInv' /\ MemoryInv' /\ Entered
  <2>1. UNCHANGED memoryVars
    BY <1>6 DEF StartWorker, StartOutput
  <2>. QED
    BY <1>1, <1>6, <2>1, WorkerAndOutputKeep, OthersEnter, MemoryStays
<1>7. ASSUME NEW r \in Procs, ReadAndSend(r)
      PROVE  StartInv' /\ MemoryInv' /\ Entered
  <2>1. UNCHANGED memoryVars
    BY <1>7 DEF ReadAndSend, Fail
  <2>. QED
    BY <1>1, <1>7, <2>1, ReadAndSendKeeps, OthersEnter, MemoryStays
<1>8. ASSUME NEW r \in Procs, ReceiveRanges(r)
      PROVE  StartInv' /\ MemoryInv' /\ Entered
  <2>1. UNCHANGED memoryVars
    BY <1>8 DEF ReceiveRanges
  <2>. QED
    BY <1>1, <1>8, <2>1, ReceiveRangesKeeps, OthersEnter, MemoryStays
<1>9. ASSUME NEW r \in Procs, ReceiveMapping(r)
      PROVE  StartInv' /\ MemoryInv' /\ Entered
  <2>1. UNCHANGED memoryVars
    BY <1>9 DEF ReceiveMapping
  <2>. QED
    BY <1>1, <1>9, <2>1, ReceiveMappingKeeps, OthersEnter, MemoryStays
<1>10. ASSUME NEW r \in Procs, ReceiveRegisters(r)
       PROVE  StartInv' /\ MemoryInv' /\ Entered
  <2>1. UNCHANGED memoryVars
    BY <1>10 DEF ReceiveRegisters
  <2>. QED
    BY <1>1, <1>10, <2>1, ReceiveRegistersKeeps, ReceiveRegistersEnters, MemoryStays
<1>11. ASSUME NEW r \in Procs, CachesBuilt(r)
       PROVE  StartInv' /\ MemoryInv' /\ Entered
  <2>1. UNCHANGED memoryVars
    BY <1>11 DEF CachesBuilt
  <2>. QED
    BY <1>1, <1>11, <2>1, CachesBuiltKeeps, CachesBuiltEnters, MemoryStays
<1>12. ASSUME NEW r \in Procs, SendReturns(r)
       PROVE  StartInv' /\ MemoryInv' /\ Entered
  <2>1. UNCHANGED memoryVars
    BY <1>12 DEF SendReturns
  <2>. QED
    BY <1>1, <1>12, <2>1, SendReturnsKeeps, OthersEnter, MemoryStays
<1>13. ASSUME TraceArrives
       PROVE  StartInv' /\ MemoryInv' /\ Entered
  <2>1. UNCHANGED memoryVars /\ UNCHANGED <<pc, registers>>
    BY <1>13 DEF TraceArrives
  <2>2. Entered
    BY <2>1 DEF Entered
  <2>. QED
    BY <1>1, <1>13, <2>1, <2>2, TraceArrivesKeeps, MemoryStays
<1>14. ASSUME EndJob
       PROVE  StartInv' /\ MemoryInv' /\ Entered
  <2>1. UNCHANGED memoryVars /\ pc' = [r \in Procs |-> "ended"] /\ UNCHANGED registers
    BY <1>14 DEF EndJob
  <2>2. Entered
    BY <2>1 DEF Entered
  <2>. QED
    BY <1>1, <1>14, <2>1, <2>2, EndJobKeeps, MemoryStays
<1>15. ASSUME NEW r \in Procs, Fail(r)
       PROVE  StartInv' /\ MemoryInv' /\ Entered
  <2>1. UNCHANGED memoryVars
    BY <1>15 DEF Fail
  <2>. QED
    BY <1>1, <1>15, <2>1, FailKeeps, FailEnters, MemoryStays
<1>16. ReaderReturns \/ LoopReturns => \E r \in Procs : Fail(r)
  <2>1. CASE ReaderReturns
    <3>1. Reader \in Procs
      BY <2>1 DEF StartInv, Located, ReaderReturns, Reader, Procs
    <3>. QED
      BY <2>1, <3>1 DEF ReaderReturns
  <2>2. CASE LoopReturns
    BY <2>2 DEF LoopReturns, Looping
  <2>. QED
    BY <2>1, <2>2
<1>. QED
  BY <1>2, <1>3, <1>4, <1>5, <1>6, <1>7, <1>8, <1>9, <1>10, <1>11, <1>12, <1>13, <1>14, <1>15, <1>16
     DEF StartsOrEnds, Start, StartupStep

--------------------------------------------------------------------------------
(* A step of the start, and the loop. *)

LEMMA InitialRegisters ==
  ASSUME files \in Inputs, NEW p \in SpelledOut, NEW k \in 0 .. Registers - 1
  PROVE  /\ p \in 0 .. Processors - 1
         /\ Content.registers[p * Registers + k] = FileValue(p, k)
<1>1. Registers \in Nat \ {0} /\ Processors \in Nat \ {0}
  BY StartupAssumption
<1>2. files.registers \in Seq(0 .. Processors - 1)
  BY InputsAssumption
<1>3. PICK n \in Nat : n = Len(files.registers) /\ DOMAIN files.registers = 1 .. n
  BY <1>2
<1>4. p \in 0 .. Processors - 1
  BY DEF SpelledOut
<1>5. PICK j : j = p * Registers + k
  OBVIOUS
<1>6. j \div Registers = p /\ j % Registers = k
  BY <1>1, <1>4, <1>5, DivUnique
<1>7. j \in 0 .. Processors * Registers - 1
  BY <1>1, <1>4, <1>5
<1>8. Content.registers[j] = RegisterRead(files.registers, j)
  BY <1>7, ContentIs DEF ReadRegisters
<1>9. RoundsFor(files.registers, p) = EntriesOf(p)
  <2>1. ASSUME NEW i \in 1 .. Processors, i \notin 1 .. n, n # 0
        PROVE  files.registers[EntryOf(files.registers, i)] # p
    <3>1. n \in 1 .. Processors - 1
      BY <1>1, <1>3, <2>1
    <3>2. files.registers[n] # p
      BY <1>3, <3>1 DEF SpelledOut
    <3>3. EntryOf(files.registers, i) = n
      BY <1>3, <2>1 DEF EntryOf
    <3>. QED
      BY <3>2, <3>3
  <2>2. \A i \in 1 .. n : EntryOf(files.registers, i) = i
    BY <1>3 DEF EntryOf
  <2>3. files.registers = <<>> <=> n = 0
    BY <1>2, <1>3
  <2>. QED
    BY <1>1, <1>3, <2>1, <2>2, <2>3 DEF RoundsFor, EntriesOf
<1>10. RegisterRead(files.registers, j) =
         LET rounds == RoundsFor(files.registers, j \div Registers)
         IN  IF rounds = {} \/ j % Registers >= Dumped THEN 0
             ELSE IF Max(rounds) <= Len(files.registers) THEN Initial(Max(rounds), j % Registers)
             ELSE Initial(Len(files.registers), Dumped - 1)
  BY Zenon DEF RegisterRead, Max
<1>11. ASSUME EntriesOf(p) # {}
       PROVE  Max(EntriesOf(p)) <= n
  <2>1. EntriesOf(p) \in SUBSET (1 .. n)
    BY <1>3 DEF EntriesOf
  <2>2. Max(EntriesOf(p)) \in EntriesOf(p)
    BY <1>3, <1>11, <2>1, MaxIs
  <2>. QED
    BY <2>1, <2>2
<1>12. RegisterRead(files.registers, j) = FileValue(p, k)
  <2>1. k >= Dumped <=> ~(k < Dumped)
    BY <1>1, StartupAssumption
  <2>2. RegisterRead(files.registers, j) =
          IF EntriesOf(p) = {} \/ k >= Dumped THEN 0
          ELSE IF Max(EntriesOf(p)) <= n THEN Initial(Max(EntriesOf(p)), k)
          ELSE Initial(n, Dumped - 1)
    BY <1>3, <1>6, <1>9, <1>10
  <2>. QED
    BY <1>11, <2>1, <2>2 DEF FileValue
<1>. QED
  BY <1>4, <1>5, <1>8, <1>12

\* The loop stays as it is when a process takes a step before or behind it.
LEMMA LoopStays ==
  ASSUME StartInv, LoopInv, Entered, UNCHANGED <<loopVars, program, world, files>>
  PROVE  LoopInv'
<1>1. /\ Procs' = Procs /\ Looper' = Looper /\ Translates' = Translates /\ loop' = loop
      /\ UNCHANGED <<trace, closed, expected, clock, at, time, count, handed, fetched, files>>
      /\ SpelledOut' = SpelledOut /\ \A p, k : FileValue(p, k)' = FileValue(p, k)
  BY SameFiles DEF loopVars
<1>2. LoopTypes'
  BY <1>1 DEF LoopInv, LoopTypes
<1>3. Tallied'
  BY <1>1 DEF LoopInv, Tallied, Named
<1>4. BlocksAreFetched'
  BY <1>1 DEF LoopInv, BlocksAreFetched
<1>5. EventsHandled'
  BY <1>1 DEF LoopInv, EventsHandled, Entered, IsSeq
<1>6. RegistersHold'
  <2>1. \A p, k : SetsOf(p, k)' = SetsOf(p, k)
    BY <1>1 DEF SetsOf
  <2>2. RegistersExist' = RegistersExist
    BY <1>1 DEF RegistersExist
  <2>3. CASE registers' = registers /\ pc[Looper] = "loop"
    BY <1>1, <2>1, <2>2, <2>3 DEF LoopInv, RegistersHold
  <2>4. ASSUME Translates, Looper \in Procs, pc'[Looper] = "loop", pc[Looper] # "loop"
        PROVE  /\ DOMAIN registers' = 0 .. Processors * Registers - 1
               /\ \A p \in SpelledOut : \A k \in 0 .. Registers - 1 :
                    /\ registers'[p * Registers + k] = FileValue(p, k)
                    /\ SetsOf(p, k) = {}
    <3>1. registers' = Content.registers /\ pc[Looper] # "ended"
      BY <2>4 DEF Entered
    <3>2. handed = <<>>
      BY <2>4, <3>1 DEF LoopInv, EventsHandled
    <3>3. \A p, k : SetsOf(p, k) = {}
      BY <3>2 DEF SetsOf
    <3>4. files \in Inputs
      BY DEF StartInv, Located
    <3>5. DOMAIN Content.registers = 0 .. Processors * Registers - 1
      BY <3>4, ContentTypes
    <3>. QED
      BY <3>1, <3>3, <3>4, <3>5, InitialRegisters, Zenon
  <2>5. ASSUME Translates, Looper \in Procs, pc'[Looper] = "loop", pc[Looper] = "loop"
        PROVE  registers' = registers
    BY <2>5 DEF Entered
  <2>. QED
    BY <1>1, <2>1, <2>2, <2>3, <2>4, <2>5 DEF RegistersHold
<1>. QED
  BY <1>2, <1>3, <1>4, <1>5, <1>6 DEF LoopInv


--------------------------------------------------------------------------------
(* The initial states. *)

LEMMA StartBegins ==
  ASSUME StartupInit
  PROVE  StartInv
<1>1. /\ files \in Inputs /\ program = files.program /\ ranges = <<>> /\ mapping = None
      /\ mail = <<>> /\ registers = None /\ firstBuffer = None
  BY DEF StartupInit
<1>2. memories = <<>> /\ exited = FALSE
  BY DEF StartupInit, MemoryInit
<1>3. world \in Nat \ {0}
  BY StartupAssumption DEF StartupInit
<1>4. program \in {"simple", "gem", "printtrace", "tests", "distributed"}
  <2>1. program \in DOMAIN Stages \cup {"distributed"}
    BY <1>1, InputsAssumption, Zenon
  <2>. QED
    BY <2>1 DEF Stages
<1>5. /\ DOMAIN pc = Procs
      /\ program = "distributed" => \A r \in Procs : pc[r] = "main"
      /\ program # "distributed" => pc[0] = Stages[program][1]
  BY DEF StartupInit, Procs
<1>6. program # "distributed" => pc[0] \in Places[program] \cup {"ended"} /\ Procs = {0}
  <2>1. SimpleStages[1] = "arguments" /\ GemStages[1] = "caches" /\ PrinttraceStages[1] = "arguments"
    BY DEF SimpleStages, GemStages, PrinttraceStages
  <2>. QED
    BY <1>4, <1>5, <2>1 DEF Stages, Places, Procs
<1>7. Located
  BY <1>1, <1>3, <1>5, <1>6 DEF Located
<1>8. Looper \in Procs =>
        /\ pc[Looper] \in {"main", "arguments", "caches", "ended"}
        /\ program = "simple" => pc[Looper] = "arguments"
        /\ program = "printtrace" => pc[Looper] = "arguments"
        /\ program = "distributed" => pc[Looper] = "main"
  <2>1. SimpleStages[1] = "arguments" /\ GemStages[1] = "caches" /\ PrinttraceStages[1] = "arguments"
    BY DEF SimpleStages, GemStages, PrinttraceStages
  <2>. QED
    BY <1>4, <1>5, <2>1 DEF Stages, Looper
<1>9. Looper \in Procs => pc[Looper] \notin MappingRead[program]
  <2>1. /\ MappingRead["simple"] = {"output", "caches", "ranges", "memories", "registers", "loop"}
        /\ MappingRead["gem"] = {} /\ MappingRead["printtrace"] = {"input", "loop"}
        /\ MappingRead["tests"] = {} /\ MappingRead["distributed"] = {"registers", "loop"}
    BY DEF MappingRead
  <2>. QED
    BY <1>4, <1>8, <2>1
<1>10. Progress
  BY <1>2, <1>8, <1>9 DEF Progress
<1>11. Received
  BY <1>1 DEF Received
<1>12. Mapped
  BY <1>1, <1>2 DEF Mapped
<1>. QED
  BY <1>7, <1>10, <1>11, <1>12 DEF StartInv

LEMMA LoopBegins ==
  ASSUME LoopInit, StartupInit
  PROVE  LoopInv
<1>1. /\ trace = <<>> /\ closed = FALSE /\ clock = 0 /\ at = "next" /\ time = 0
      /\ count = [c \in Counters |-> 0] /\ handed = <<>> /\ fetched = <<>>
  BY DEF LoopInit
<1>2. LoopTypes
  <2>1. count \in [Counters -> Nat]
    BY <1>1
  <2>2. 0 \in 0 .. Modulus - 1
    BY ModulusIs
  <2>3. <<>> \in Seq(0 .. Base - 1)
    OBVIOUS
  <2>. QED
    BY <1>1, <2>1, <2>2, <2>3 DEF LoopTypes
<1>3. EventsHandled
  BY <1>1 DEF EventsHandled, IsSeq
<1>4. \A names : Named(names) = 0
  <2>1. \A names : {k \in DOMAIN handed : handed[k].name \in names} = {}
    BY <1>1
  <2>. QED
    BY <2>1, FS_EmptySet DEF Named
<1>5. Tallied
  <2>1. \A c \in Counters : count[c] = 0
    BY <1>1
  <2>2. Len(handed) = 0
    BY <1>1
  <2>. QED
    BY <1>1, <1>4, <2>1, <2>2 DEF Tallied, Counters
<1>6. RegistersHold
  <2>1. Looper \in Procs => pc[Looper] # "loop"
    <3>1. program \in DOMAIN Stages \cup {"distributed"}
      BY InputsAssumption, Zenon DEF StartupInit
    <3>2. SimpleStages[1] = "arguments" /\ GemStages[1] = "caches" /\ PrinttraceStages[1] = "arguments"
      BY DEF SimpleStages, GemStages, PrinttraceStages
    <3>. QED
      BY <3>1, <3>2 DEF StartupInit, Stages, Procs, Looper
  <2>. QED
    BY <2>1 DEF RegistersHold
<1>7. BlocksAreFetched
  BY <1>1 DEF BlocksAreFetched
<1>. QED
  BY <1>2, <1>3, <1>5, <1>6, <1>7 DEF LoopInv

LEMMA ProgramBegins ==
  ASSUME Init
  PROVE  ProgramsInv
BY StartBegins, LoopBegins, InitialMemory DEF Init, ProgramsInv, StartupInit

--------------------------------------------------------------------------------
(* The steps of the writer of the trace. *)

\* A step that leaves all but the trace and what is expected of it as it is.
LEMMA WriterKeeps ==
  ASSUME StartInv, MemoryInv, LoopInv, WriterStep, LoopTypes',
         UNCHANGED startupVars
  PROVE  ProgramsInv'
<1>1. /\ UNCHANGED <<at, time, count, handed, fetched, memories, exited>>
      /\ UNCHANGED <<program, world, files, pc, mail, ranges, mapping, registers, firstBuffer>>
  BY DEF WriterStep, memoryVars, startupVars
<1>2. /\ Procs' = Procs /\ Looper' = Looper /\ Translates' = Translates /\ loop' = loop
      /\ Content' = Content /\ Letters' = Letters /\ Coordinator' = Coordinator
      /\ SpelledOut' = SpelledOut /\ \A p, k : FileValue(p, k)' = FileValue(p, k)
  BY <1>1, SameFiles
<1>3. MemoryInv'
  BY MemoryStays DEF WriterStep
<1>4. StartInv'
  <2>1. Located'
    BY <1>1, <1>2 DEF StartInv, Located
  <2>2. Received'
    BY <1>1, ReceivedStays DEF StartInv
  <2>3. Progress'
    BY <1>1, <1>2 DEF StartInv, Progress
  <2>4. Mapped'
    BY <1>1 DEF StartInv, Mapped
  <2>. QED
    BY <2>1, <2>2, <2>3, <2>4 DEF StartInv
<1>5. Tallied'
  BY <1>1, <1>2 DEF LoopInv, Tallied, Named
<1>6. BlocksAreFetched'
  BY <1>1, <1>2 DEF LoopInv, BlocksAreFetched
<1>7. EventsHandled'
  BY <1>1, <1>2 DEF LoopInv, EventsHandled, IsSeq
<1>8. RegistersHold'
  <2>1. \A p, k : SetsOf(p, k)' = SetsOf(p, k)
    BY <1>1 DEF SetsOf
  <2>2. RegistersExist' = RegistersExist
    BY <1>1 DEF RegistersExist
  <2>. QED
    BY <1>1, <1>2, <2>1, <2>2 DEF LoopInv, RegistersHold
<1>. QED
  BY <1>3, <1>4, <1>5, <1>6, <1>7, <1>8 DEF LoopInv, ProgramsInv

LEMMA AppendEventKeeps ==
  ASSUME StartInv, MemoryInv, LoopInv, AppendEvent, UNCHANGED startupVars
  PROVE  ProgramsInv'
<1>1. files \in Inputs
  BY DEF StartInv, Located
<1>2. PICK e \in IF loop = "gem" THEN GemEvents ELSE Events :
        trace' = trace \o Encoded(e) /\ clock' = Meaning(clock, e).time
  BY DEF AppendEvent
<1>3. trace' \in Seq(0 .. Base - 1)
  <2>1. Encoded(e) \in Seq(Byte) /\ trace \in Seq(Byte)
    BY <1>1, EncodedIs DEF LoopInv, LoopTypes, Byte
  <2>2. trace \o Encoded(e) \in Seq(Byte)
    BY <2>1, Joined
  <2>. QED
    BY <1>2, <2>2 DEF Byte
<1>4. clock' \in 0 .. Modulus - 1
  <2>1. CASE loop = "gem"
    <3>1. e.tick \in 0 .. Modulus - 1
      BY <2>1, EventsAssumption
    <3>. QED
      BY <1>2, <2>1, <3>1 DEF Meaning
  <2>2. CASE loop # "gem"
    <3>1. e.delta \in Int /\ e.negative \in BOOLEAN
      <4>1. e.delta \in 0 .. Half * Power(Base, WordBytes - 1) - 1 /\ e.negative \in BOOLEAN
        BY <2>2, EventsAssumption
      <4>2. \A x, m : x \in 0 .. m => x \in Int
        OBVIOUS
      <4>. QED
        BY <4>1, <4>2, Zenon
    <3>2. PICK x \in Int : x = clock + IF e.negative THEN -e.delta ELSE e.delta
      BY <3>1 DEF LoopInv, LoopTypes
    <3>3. PICK m \in Nat \ {0} : m = Modulus
      BY ModulusIs
    <3>4. Meaning(clock, e).time = x % m
      BY <2>2, <3>2, <3>3 DEF Meaning
    <3>5. x % m \in 0 .. m - 1
      OBVIOUS
    <3>. QED
      BY <1>2, <3>3, <3>4, <3>5
  <2>. QED
    BY <2>1, <2>2
<1>5. WriterStep /\ UNCHANGED <<closed, at, time, count, handed, fetched>>
  BY DEF AppendEvent, WriterStep
<1>6. LoopTypes'
  BY <1>3, <1>4, <1>5 DEF LoopInv, LoopTypes
<1>. QED
  BY <1>5, <1>6, WriterKeeps

LEMMA CloseTraceKeeps ==
  ASSUME StartInv, MemoryInv, LoopInv, CloseTrace, UNCHANGED startupVars
  PROVE  ProgramsInv'
<1>1. PICK cut \in {0, 1, 2} : trace' = SubSeq(trace, 1, Len(trace) - cut)
  BY DEF CloseTrace
<1>2. trace \in Seq(0 .. Base - 1)
  BY DEF LoopInv, LoopTypes
<1>3. trace' \in Seq(0 .. Base - 1)
  <2>1. PICK n \in Int : n = Len(trace) - cut /\ n <= Len(trace)
    <3>1. Len(trace) \in Nat
      BY <1>2
    <3>. QED
      BY <3>1
  <2>2. 1 \in Nat \ {0}
    OBVIOUS
  <2>3. SubSeq(trace, 1, n) \in Seq(0 .. Base - 1)
    BY <1>2, <2>1, <2>2, PartOf, Zenon
  <2>. QED
    BY <1>1, <2>1, <2>3
<1>4. WriterStep /\ closed' = TRUE /\ UNCHANGED <<clock, at, time, count, handed, fetched>>
  BY DEF CloseTrace, WriterStep
<1>5. LoopTypes'
  BY <1>3, <1>4 DEF LoopInv, LoopTypes
<1>. QED
  BY <1>4, <1>5, WriterKeeps


--------------------------------------------------------------------------------
(* One event more. *)

Appended(e, lines) == handed' = Append(handed, e) /\ fetched' = Append(fetched, lines)

\* The program goes on in its loop.
InsideLoop ==
  /\ Looper \in Procs /\ pc[Looper] = "loop"
  /\ UNCHANGED <<program, world, files, pc>>

\* t is s and one element more.
OneMore(s, x, t) ==
  /\ Len(s) \in Nat /\ DOMAIN s = 1 .. Len(s)
  /\ Len(t) = Len(s) + 1 /\ DOMAIN t = 1 .. Len(s) + 1 /\ t[Len(s) + 1] = x
  /\ \A i \in 1 .. Len(s) : t[i] = s[i]

LEMMA AppendIs ==
  ASSUME NEW s, IsSeq(s), NEW x, NEW t, t = Append(s, x)
  PROVE  IsSeq(t) /\ OneMore(s, x, t)
<1>1. PICK S : S = Range(s) \cup {x}
  OBVIOUS
<1>2. s \in Seq(S) /\ x \in S
  <2>1. s \in Seq(Range(s)) /\ Range(s) \subseteq S
    BY <1>1 DEF IsSeq
  <2>. QED
    BY <1>1, <2>1
<1>3. /\ t \in Seq(S) /\ Len(t) = Len(s) + 1
      /\ \A i \in 1 .. Len(s) : t[i] = s[i]
      /\ t[Len(s) + 1] = x
  BY <1>2, AppendProperties
<1>4. Len(s) \in Nat /\ DOMAIN s = 1 .. Len(s) /\ DOMAIN t = 1 .. Len(t)
  BY <1>2, <1>3, ElementsOf
<1>5. IsSeq(t)
  <2>1. \A i \in 1 .. Len(t) : t[i] \in Range(t)
    BY <1>4 DEF Range
  <2>2. PICK n \in Nat : n = Len(t) /\ DOMAIN t = 1 .. n /\ t \in [1 .. n -> S]
    BY <1>2, <1>3, <1>4, LenProperties, Zenon
  <2>3. PICK R : R = Range(t) /\ \A i \in 1 .. n : t[i] \in R
    BY <2>1, <2>2
  <2>4. t \in [1 .. n -> R]
    BY <2>2, <2>3
  <2>5. [1 .. n -> R] \subseteq Seq(R)
    BY SeqDef, Zenon
  <2>. QED
    BY <2>3, <2>4, <2>5 DEF IsSeq
<1>. QED
  BY <1>3, <1>4, <1>5 DEF OneMore

\* What was handled, after one more event.
Longer(e, lines, n) ==
  /\ Len(handed) = n /\ DOMAIN handed = 1 .. n /\ DOMAIN handed' = 1 .. n + 1
  /\ handed'[n + 1] = e /\ \A i \in 1 .. n : handed'[i] = handed[i]
  /\ fetched'[n + 1] = lines /\ \A i \in 1 .. n : fetched'[i] = fetched[i]
  /\ Len(handed') = n + 1 /\ Len(fetched') = n + 1

LEMMA LongerIs ==
  ASSUME LoopInv, NEW e, NEW lines, Appended(e, lines)
  PROVE  /\ \E n \in Nat : Longer(e, lines, n)
         /\ IsSeq(handed)' /\ IsSeq(fetched)'
<1>1. IsSeq(handed) /\ IsSeq(fetched) /\ Len(fetched) = Len(handed)
  BY DEF LoopInv, EventsHandled, LoopTypes
<1>2. PICK h, f : h = handed' /\ f = fetched' /\ h = Append(handed, e) /\ f = Append(fetched, lines)
  BY DEF Appended
<1>3. PICK s, t : s = handed /\ t = fetched /\ IsSeq(s) /\ IsSeq(t) /\ h = Append(s, e) /\ f = Append(t, lines)
  BY <1>1, <1>2
<1>4. IsSeq(h) /\ OneMore(s, e, h)
  BY <1>3, AppendIs, Zenon
<1>5. IsSeq(f) /\ OneMore(t, lines, f)
  BY <1>3, AppendIs, Zenon
<1>6. Longer(e, lines, Len(handed))
  BY <1>1, <1>2, <1>3, <1>4, <1>5 DEF Longer, OneMore
<1>. QED
  BY <1>2, <1>3, <1>4, <1>5, <1>6 DEF IsSeq, OneMore

LEMMA EventsKeep ==
  ASSUME LoopInv, InsideLoop, NEW e, NEW lines, Appended(e, lines),
         e.name = "cr" => e.cpu \in Nat /\ e.what[1] \in Nat,
         e.name = "tb" => e.what[1] \in Nat /\ e.what[2] \in Nat
  PROVE  EventsHandled'
<1>1. IsSeq(handed)' /\ IsSeq(fetched)'
  BY LongerIs
<1>2. PICK n \in Nat : Longer(e, lines, n)
  BY LongerIs
<1>3. Looper' = Looper /\ pc' = pc
  BY SameFiles DEF InsideLoop
<1>4. ASSUME NEW i \in DOMAIN handed'
      PROVE  /\ handed'[i].name = "cr" => handed'[i].cpu \in Nat /\ handed'[i].what[1] \in Nat
             /\ handed'[i].name = "tb" => handed'[i].what[1] \in Nat /\ handed'[i].what[2] \in Nat
  <2>1. CASE i = n + 1
    BY <1>2, <2>1 DEF Longer
  <2>2. CASE i # n + 1
    <3>1. i \in 1 .. n
      BY <1>2, <2>2 DEF Longer
    <3>2. i \in DOMAIN handed /\ handed'[i] = handed[i]
      BY <1>2, <3>1 DEF Longer
    <3>. QED
      BY <3>2 DEF LoopInv, EventsHandled
  <2>. QED
    BY <2>1, <2>2
<1>. QED
  BY <1>1, <1>3, <1>4 DEF EventsHandled, InsideLoop

LEMMA NamedGrows ==
  ASSUME LoopInv, NEW e, NEW lines, Appended(e, lines), NEW names
  PROVE  /\ Named(names) \in Nat
         /\ Named(names)' = Named(names) + IF e.name \in names THEN 1 ELSE 0
<1>1. PICK n \in Nat : Longer(e, lines, n)
  BY LongerIs
<1>2. PICK S : S = {k \in DOMAIN handed : handed[k].name \in names}
  OBVIOUS
<1>3. S \subseteq 1 .. n /\ IsFiniteSet(S) /\ Cardinality(S) \in Nat
  <2>1. S \subseteq 1 .. n
    BY <1>1, <1>2 DEF Longer
  <2>2. IsFiniteSet(1 .. n)
    BY FS_Interval
  <2>3. IsFiniteSet(S)
    BY <2>1, <2>2, FS_Subset
  <2>. QED
    BY <2>1, <2>3, FS_CardinalityType
<1>4. PICK T : T = {k \in DOMAIN handed' : handed'[k].name \in names}
  OBVIOUS
<1>5. T = IF e.name \in names THEN S \cup {n + 1} ELSE S
  BY <1>1, <1>2, <1>4 DEF Longer
<1>6. Cardinality(S \cup {n + 1}) = Cardinality(S) + 1
  <2>1. n + 1 \notin S
    BY <1>3
  <2>. QED
    BY <1>3, <2>1, FS_AddElement
<1>7. Named(names) = Cardinality(S) /\ Named(names)' = Cardinality(T)
  BY <1>2, <1>4 DEF Named
<1>. QED
  BY <1>3, <1>5, <1>6, <1>7


\* The events that set a register, after one more event.
LEMMA SetsStay ==
  ASSUME LoopInv, NEW e, NEW lines, Appended(e, lines), NEW p, NEW k,
         ~(e.name = "cr" /\ e.cpu = p /\ e.what[1] = k)
  PROVE  /\ SetsOf(p, k)' = SetsOf(p, k)
         /\ SetsOf(p, k) # {} => handed'[Max(SetsOf(p, k))] = handed[Max(SetsOf(p, k))]
<1>1. PICK n \in Nat : Longer(e, lines, n)
  BY LongerIs
<1>2. SetsOf(p, k)' = SetsOf(p, k) /\ SetsOf(p, k) \in SUBSET (1 .. n)
  BY <1>1 DEF SetsOf, Longer
<1>3. ASSUME SetsOf(p, k) # {}
      PROVE  handed'[Max(SetsOf(p, k))] = handed[Max(SetsOf(p, k))]
  <2>1. PICK S \in SUBSET (1 .. n) : S = SetsOf(p, k) /\ S # {}
    BY <1>2, <1>3
  <2>2. Max(S) \in S
    BY <2>1, MaxIs
  <2>. QED
    BY <1>1, <2>1, <2>2 DEF Longer
<1>. QED
  BY <1>2, <1>3

LEMMA SetsGrow ==
  ASSUME LoopInv, NEW e, NEW lines, Appended(e, lines), e.name = "cr",
         NEW p, NEW k, p = e.cpu, k = e.what[1]
  PROVE  SetsOf(p, k)' # {} /\ handed'[Max(SetsOf(p, k)')] = e
<1>1. PICK n \in Nat : Longer(e, lines, n)
  BY LongerIs
<1>2. PICK S : S = SetsOf(p, k)'
  OBVIOUS
<1>3. S \in SUBSET (1 .. n + 1) /\ n + 1 \in S
  BY <1>1, <1>2 DEF SetsOf, Longer
<1>4. PICK m \in Nat : m = n + 1
  OBVIOUS
<1>5. S \in SUBSET (1 .. m) /\ S # {}
  BY <1>3, <1>4
<1>6. Max(S) \in S /\ \A x \in S : x <= Max(S)
  BY <1>5, MaxIs
<1>7. Max(S) = m
  <2>1. PICK x \in 1 .. m : x = Max(S)
    BY <1>5, <1>6
  <2>2. m <= x
    BY <1>3, <1>4, <1>6, <2>1
  <2>. QED
    BY <2>1, <2>2
<1>. QED
  BY <1>1, <1>2, <1>4, <1>5, <1>7 DEF Longer

LEMMA ExistingStay ==
  ASSUME LoopInv, NEW e, NEW lines, Appended(e, lines), RegistersExist'
  PROVE  RegistersExist /\ (e.name = "cr" => e.cpu < Processors /\ e.what[1] < Registers)
<1>1. PICK n \in Nat : Longer(e, lines, n)
  BY LongerIs
<1>2. \A i \in 1 .. n + 1 :
        handed'[i].name = "cr" => handed'[i].cpu < Processors /\ handed'[i].what[1] < Registers
  BY <1>1 DEF RegistersExist, Longer
<1>3. n + 1 \in 1 .. n + 1 /\ \A i \in 1 .. n : i \in 1 .. n + 1
  OBVIOUS
<1>. QED
  BY <1>1, <1>2, <1>3 DEF RegistersExist, Longer

\* The place of a register.
LEMMA RegisterIs ==
  ASSUME NEW p \in 0 .. Processors - 1, NEW k \in 0 .. Registers - 1, NEW j, j = p * Registers + k
  PROVE  j \in 0 .. Processors * Registers - 1 /\ j \div Registers = p /\ j % Registers = k
<1>1. Registers \in Nat \ {0} /\ Processors \in Nat \ {0}
  BY StartupAssumption
<1>2. j \div Registers = p /\ j % Registers = k
  BY <1>1, DivUnique
<1>3. j \in 0 .. Processors * Registers - 1
  BY <1>1
<1>. QED
  BY <1>2, <1>3

\* The loop sets the register an event names, and no other.
LEMMA RegistersKeep ==
  ASSUME StartInv, LoopInv, InsideLoop, NEW e, NEW lines, Appended(e, lines),
         e.name = "cr" => e.cpu \in Nat /\ e.what[1] \in Nat,
         Translates /\ e.name = "cr" =>
           registers' = [registers EXCEPT ![e.cpu * Registers + e.what[1]] = e.what[2]],
         Translates /\ e.name # "cr" => UNCHANGED registers
  PROVE  RegistersHold'
<1>1. files \in Inputs /\ files' = files
  BY DEF StartInv, Located, InsideLoop
<1>2. /\ Translates' = Translates /\ Looper' = Looper /\ Procs' = Procs /\ pc' = pc
      /\ SpelledOut' = SpelledOut /\ \A p, k : FileValue(p, k)' = FileValue(p, k)
  BY SameFiles DEF InsideLoop
<1>. SUFFICES ASSUME Translates
              PROVE  RegistersHold'
  BY <1>2 DEF RegistersHold
<1>3. DOMAIN registers = 0 .. Processors * Registers - 1
  BY DEF LoopInv, RegistersHold, InsideLoop
<1>4. DOMAIN registers' = 0 .. Processors * Registers - 1
  BY <1>3
<1>5. ASSUME RegistersExist', NEW p \in SpelledOut, NEW k \in 0 .. Registers - 1
      PROVE  registers'[p * Registers + k] =
               IF SetsOf(p, k)' # {} THEN handed'[Max(SetsOf(p, k)')].what[2]
               ELSE FileValue(p, k)
  <2>1. p \in 0 .. Processors - 1 /\ Registers \in Nat \ {0} /\ Processors \in Nat \ {0}
    BY <1>1, InitialRegisters, StartupAssumption
  <2>2. PICK j : j = p * Registers + k
    OBVIOUS
  <2>3. j \in 0 .. Processors * Registers - 1 /\ j \div Registers = p /\ j % Registers = k
    BY <2>1, <2>2, RegisterIs
  <2>4. CASE e.name = "cr" /\ e.cpu = p /\ e.what[1] = k
    <3>1. SetsOf(p, k)' # {} /\ handed'[Max(SetsOf(p, k)')] = e
      BY <2>4, SetsGrow
    <3>2. registers' = [registers EXCEPT ![j] = e.what[2]]
      BY <2>2, <2>4
    <3>. QED
      BY <1>3, <2>2, <2>3, <3>1, <3>2
  <2>5. CASE ~(e.name = "cr" /\ e.cpu = p /\ e.what[1] = k)
    <3>1. /\ SetsOf(p, k)' = SetsOf(p, k)
          /\ SetsOf(p, k) # {} => handed'[Max(SetsOf(p, k))] = handed[Max(SetsOf(p, k))]
      BY <2>5, SetsStay
    <3>2. registers'[j] = registers[j]
      <4>1. CASE e.name = "cr"
        <5>1. e.cpu \in 0 .. Processors - 1 /\ e.what[1] \in 0 .. Registers - 1
          BY <1>5, <4>1, <2>1, ExistingStay
        <5>2. PICK c \in 0 .. Processors - 1, q \in 0 .. Registers - 1, i \in Int :
                c = e.cpu /\ q = e.what[1] /\ i = c * Registers + q
          <6>1. \A c \in 0 .. Processors - 1, q \in 0 .. Registers - 1 : c * Registers + q \in Int
            BY <2>1
          <6>. QED
            BY <5>1, <6>1
        <5>3. i \div Registers = c /\ i % Registers = q
          BY <5>2, RegisterIs
        <5>4. i # j
          BY <2>3, <2>5, <4>1, <5>2, <5>3
        <5>5. registers' = [registers EXCEPT ![i] = e.what[2]]
          BY <4>1, <5>2
        <5>. QED
          BY <1>3, <2>3, <5>4, <5>5
      <4>2. CASE e.name # "cr"
        BY <4>2
      <4>. QED
        BY <4>1, <4>2
    <3>3. RegistersExist
      BY <1>5, ExistingStay
    <3>4. registers[j] = IF SetsOf(p, k) # {} THEN handed[Max(SetsOf(p, k))].what[2]
                         ELSE FileValue(p, k)
      BY <2>2, <3>3 DEF LoopInv, RegistersHold, InsideLoop
    <3>. QED
      BY <2>2, <3>1, <3>2, <3>4
  <2>. QED
    BY <2>4, <2>5
<1>. QED
  BY <1>1, <1>2, <1>4, <1>5 DEF RegistersHold


--------------------------------------------------------------------------------
(* The counters. *)

LEMMA CountedIs ==
  ASSUME LoopInv, NEW S, NEW more \in Nat
  PROVE  /\ Counted(S, more) \in [Counters -> Nat]
         /\ \A c \in Counters \ {"fetches", "accesses"} :
              Counted(S, more)[c] = count[c] + IF c \in S THEN 1 ELSE 0
         /\ Counted(S, more)["fetches"] =
              count["fetches"] + (IF "fetches" \in S THEN 1 ELSE 0) + more
         /\ loop = "simple" =>
              Counted(S, more)["accesses"] =
                count["accesses"] + (IF "accesses" \in S THEN 1 ELSE 0) + more
<1>1. \A c \in Counters : count[c] \in Nat
  BY DEF LoopInv, LoopTypes
<1>2. \A c \in Counters :
        Counted(S, more)[c] = count[c] + (IF c \in S THEN 1 ELSE 0)
              + (IF c = "fetches" \/ (c = "accesses" /\ loop = "simple") THEN more ELSE 0)
  BY DEF Counted
<1>3. Counted(S, more) \in [Counters -> Nat]
  BY <1>1 DEF Counted
<1>4. "fetches" \in Counters /\ "accesses" \in Counters /\ "fetches" # "accesses"
  BY DEF Counters
<1>5. \A c \in Counters \ {"fetches", "accesses"} :
        Counted(S, more)[c] = count[c] + IF c \in S THEN 1 ELSE 0
  BY <1>1, <1>2
<1>6. Counted(S, more)["fetches"] = count["fetches"] + (IF "fetches" \in S THEN 1 ELSE 0) + more
  BY <1>1, <1>2, <1>4
<1>7. loop = "simple" =>
        Counted(S, more)["accesses"] = count["accesses"] + (IF "accesses" \in S THEN 1 ELSE 0) + more
  BY <1>1, <1>2, <1>4
<1>. QED
  BY <1>3, <1>5, <1>6, <1>7

\* An event is counted once, by what it is.
Tally(e, S) ==
  /\ "fetches" \notin S
  /\ loop \in {"simple", "printtrace"} =>
       /\ "reads" \in S <=> e.name = "load"
       /\ "writes" \in S <=> e.name = "store"
       /\ "crs" \in S <=> e.name = "cr"
  /\ loop = "simple" =>
       /\ "accesses" \in S <=> e.name \in {"load", "store"}
       /\ at' \in {"next", "translated"} =>
            /\ "kernel" \in S \/ "user" \in S <=> e.name \in {"load", "store"}
            /\ ~("kernel" \in S /\ "user" \in S)
  /\ loop = "coordinator" /\ at' # "stopped" =>
       /\ "enabled" \in S \/ "disabled" \in S <=> e.name \in {"load", "store"}
       /\ ~("enabled" \in S /\ "disabled" \in S)

LEMMA TalliedGrows ==
  ASSUME LoopInv, InsideLoop, NEW e, NEW lines, Appended(e, lines), NEW S, NEW more \in Nat,
         count' = Counted(S, more), Tally(e, S), loop # "gem",
         at \in {"next", "translated"}, at' \in {"next", "translated", "stopped"}
  PROVE  Tallied' /\ count' \in [Counters -> Nat]
<1>1. loop' = loop
  BY SameFiles DEF InsideLoop
<1>2. /\ count' \in [Counters -> Nat]
      /\ \A c \in Counters \ {"fetches", "accesses"} : count'[c] = count[c] + IF c \in S THEN 1 ELSE 0
      /\ count'["fetches"] = count["fetches"] + (IF "fetches" \in S THEN 1 ELSE 0) + more
      /\ loop = "simple" =>
           count'["accesses"] = count["accesses"] + (IF "accesses" \in S THEN 1 ELSE 0) + more
  BY CountedIs
<1>3. \A c \in Counters : count[c] \in Nat
  BY DEF LoopInv, LoopTypes
<1>4. /\ {"reads", "writes", "crs", "kernel", "user", "enabled", "disabled"}
           \subseteq Counters \ {"fetches", "accesses"}
      /\ {"fetches", "accesses"} \subseteq Counters
  BY DEF Counters
<1>5. \A names : Named(names) \in Nat /\ Named(names)' = Named(names) + IF e.name \in names THEN 1 ELSE 0
  BY NamedGrows
<1>6. ASSUME loop \in {"simple", "printtrace"}
      PROVE  /\ count'["reads"] = Named({"load"})' /\ count'["writes"] = Named({"store"})'
             /\ count'["crs"] = Named({"cr"})' /\ count'["crs"] - Named({"cr"})' = 0
  <2>1. count["reads"] = Named({"load"}) /\ count["writes"] = Named({"store"}) /\ count["crs"] = Named({"cr"})
    BY <1>6 DEF LoopInv, Tallied
  <2>2. /\ "reads" \in S <=> e.name \in {"load"}
        /\ "writes" \in S <=> e.name \in {"store"}
        /\ "crs" \in S <=> e.name \in {"cr"}
    BY <1>6 DEF Tally
  <2>3. count'["reads"] = Named({"load"})'
    BY <1>2, <1>4, <1>5, <2>1, <2>2
  <2>4. count'["writes"] = Named({"store"})'
    BY <1>2, <1>4, <1>5, <2>1, <2>2
  <2>5. count'["crs"] = Named({"cr"})'
    BY <1>2, <1>4, <1>5, <2>1, <2>2
  <2>6. count'["crs"] \in Nat
    BY <1>2, <1>4
  <2>. QED
    BY <2>3, <2>4, <2>5, <2>6
<1>7. ASSUME loop = "simple"
      PROVE  /\ count'["accesses"] = count'["reads"] + count'["writes"] + count'["fetches"]
             /\ at' \in {"next", "translated"} =>
                  count'["kernel"] + count'["user"] = count'["reads"] + count'["writes"]
  <2>1. /\ count["accesses"] = count["reads"] + count["writes"] + count["fetches"]
        /\ count["kernel"] + count["user"] = count["reads"] + count["writes"]
    BY <1>7 DEF LoopInv, Tallied
  <2>2. "fetches" \notin S
    BY DEF Tally
  <2>3. /\ "reads" \in S <=> e.name = "load"
        /\ "writes" \in S <=> e.name = "store"
        /\ "accesses" \in S <=> e.name \in {"load", "store"}
    BY <1>7 DEF Tally
  <2>4. count'["accesses"] = count'["reads"] + count'["writes"] + count'["fetches"]
    BY <1>2, <1>3, <1>4, <1>7, <2>1, <2>2, <2>3
  <2>5. ASSUME at' \in {"next", "translated"}
        PROVE  count'["kernel"] + count'["user"] = count'["reads"] + count'["writes"]
    <3>1. /\ "kernel" \in S \/ "user" \in S <=> e.name \in {"load", "store"}
          /\ ~("kernel" \in S /\ "user" \in S)
      BY <1>7, <2>5 DEF Tally
    <3>. QED
      BY <1>2, <1>3, <1>4, <2>1, <2>3, <3>1
  <2>. QED
    BY <2>4, <2>5
<1>8. ASSUME loop = "coordinator", at' # "stopped"
      PROVE  count'["enabled"] + count'["disabled"] = Named({"load", "store"})'
  <2>1. count["enabled"] + count["disabled"] = Named({"load", "store"})
    BY <1>8 DEF LoopInv, Tallied
  <2>2. /\ "enabled" \in S \/ "disabled" \in S <=> e.name \in {"load", "store"}
        /\ ~("enabled" \in S /\ "disabled" \in S)
    BY <1>8 DEF Tally
  <2>. QED
    BY <1>2, <1>3, <1>4, <1>5, <2>1, <2>2
<1>. QED
  BY <1>1, <1>2, <1>6, <1>7, <1>8 DEF Tallied

\* The loop is left, or goes on with the same event.
LEMMA TalliedStays ==
  ASSUME LoopInv, UNCHANGED <<program, world, files, handed>>, at \in {"next", "translated"},
         \/ count' = count
         \/ /\ at' \in {"eof", "stopped"}
            /\ \E S \in SUBSET {"events", "crs"} :
                 count' = Counted(S, 0) /\ ("crs" \in S => at' = "eof")
  PROVE  Tallied' /\ count' \in [Counters -> Nat]
<1>1. loop' = loop /\ \A names : Named(names)' = Named(names)
  BY SameFiles DEF Named
<1>2. count \in [Counters -> Nat]
  BY DEF LoopInv, LoopTypes
<1>3. CASE count' = count
  BY <1>1, <1>2, <1>3 DEF LoopInv, Tallied
<1>4. ASSUME at' \in {"eof", "stopped"}, NEW S \in SUBSET {"events", "crs"},
             count' = Counted(S, 0), "crs" \in S => at' = "eof"
      PROVE  Tallied' /\ count' \in [Counters -> Nat]
  <2>1. /\ count' \in [Counters -> Nat]
        /\ \A c \in Counters \ {"fetches", "accesses"} :
             count'[c] = count[c] + IF c \in S THEN 1 ELSE 0
        /\ count'["fetches"] = count["fetches"] + (IF "fetches" \in S THEN 1 ELSE 0) + 0
        /\ loop = "simple" =>
             count'["accesses"] = count["accesses"] + (IF "accesses" \in S THEN 1 ELSE 0) + 0
    BY <1>4, CountedIs
  <2>2. \A c \in Counters : count[c] \in Nat
    BY <1>2
  <2>3. \A c \in Counters \ {"events", "crs", "fetches", "accesses"} : count'[c] = count[c]
    <3>1. ASSUME NEW c \in Counters \ {"events", "crs", "fetches", "accesses"}
          PROVE  count'[c] = count[c]
      <4>1. c \notin S /\ count[c] \in Nat /\ c \in Counters \ {"fetches", "accesses"}
        BY <1>4, <2>2, <3>1
      <4>. QED
        BY <2>1, <4>1
    <3>. QED
      BY <3>1
  <2>4. count'["fetches"] = count["fetches"] /\ (loop = "simple" => count'["accesses"] = count["accesses"])
    BY <1>4, <2>1, <2>2 DEF Counters
  <2>5. count'["crs"] = count["crs"] + IF "crs" \in S THEN 1 ELSE 0
    BY <2>1 DEF Counters
  <2>6. {"reads", "writes", "kernel", "user", "enabled", "disabled", "mpki", "mpki_fetch", "mpki_read",
         "mpki_write", "read_misses", "write_misses"} \subseteq Counters \ {"events", "crs", "fetches", "accesses"}
    BY DEF Counters
  <2>7. /\ count'["reads"] = count["reads"] /\ count'["writes"] = count["writes"]
        /\ count'["kernel"] = count["kernel"] /\ count'["user"] = count["user"]
        /\ count'["enabled"] = count["enabled"] /\ count'["disabled"] = count["disabled"]
    BY <2>3, <2>6
  <2>8. /\ count'["mpki"] = count["mpki"] /\ count'["mpki_fetch"] = count["mpki_fetch"]
        /\ count'["mpki_read"] = count["mpki_read"] /\ count'["mpki_write"] = count["mpki_write"]
        /\ count'["read_misses"] = count["read_misses"] /\ count'["write_misses"] = count["write_misses"]
    BY <2>3, <2>6
  <2>9. ASSUME loop \in {"simple", "printtrace"}
        PROVE  /\ at' # "eof" => count'["crs"] = Named({"cr"})
               /\ count'["crs"] - Named({"cr"}) \in {0, 1}
    <3>1. count["crs"] = Named({"cr"}) /\ count["crs"] \in Nat
      BY <1>2, <2>9 DEF LoopInv, Tallied, Counters
    <3>. QED
      BY <1>4, <2>5, <3>1
  <2>. QED
    BY <1>1, <1>4, <2>1, <2>4, <2>7, <2>8, <2>9 DEF LoopInv, Tallied
<1>. QED
  BY <1>3, <1>4


\* The counters after a round of gem's loop.
GemCounts(type, misses, one, sum) ==
  /\ one = Counted({"events", IF type = "write" THEN "writes" ELSE "reads"}, 0)
  /\ sum = [c \in Counters |-> one[c] + IF c \in Missed(type) THEN misses ELSE 0]
  /\ count' = [c \in Counters |->
                 IF c \in Restarted /\ sum["events"] % Interval = 0 THEN 0 ELSE sum[c]]

LEMMA TalliedGem ==
  ASSUME LoopInv, InsideLoop, loop = "gem", NEW e, NEW lines, Appended(e, lines),
         NEW type \in {"fetch", "read", "write"}, NEW misses \in 0 .. 2, NEW one, NEW sum,
         GemCounts(type, misses, one, sum)
  PROVE  Tallied' /\ count' \in [Counters -> Nat]
<1>1. loop' = loop
  BY SameFiles DEF InsideLoop
<1>2. PICK S : S = {"events", IF type = "write" THEN "writes" ELSE "reads"}
  OBVIOUS
<1>3. /\ one \in [Counters -> Nat]
      /\ \A c \in Counters \ {"fetches", "accesses"} : one[c] = count[c] + IF c \in S THEN 1 ELSE 0
  <2>1. one = Counted(S, 0)
    BY <1>2 DEF GemCounts
  <2>. QED
    BY <2>1, CountedIs
<1>4. \A c \in Counters : count[c] \in Nat /\ one[c] \in Nat
  BY <1>3 DEF LoopInv, LoopTypes
<1>5. /\ sum \in [Counters -> Nat]
      /\ \A c \in Counters : sum[c] = one[c] + IF c \in Missed(type) THEN misses ELSE 0
  <2>1. PICK M : M = Missed(type)
    OBVIOUS
  <2>2. \A c \in Counters : one[c] + (IF c \in M THEN misses ELSE 0) \in Nat
    BY <1>4
  <2>3. sum = [c \in Counters |-> one[c] + IF c \in M THEN misses ELSE 0]
    BY <2>1 DEF GemCounts
  <2>. QED
    BY <2>1, <2>2, <2>3
<1>6. PICK r \in BOOLEAN : r = (sum["events"] % Interval = 0)
  OBVIOUS
<1>7. /\ count' \in [Counters -> Nat]
      /\ \A c \in Restarted : c \in Counters => count'[c] = IF r THEN 0 ELSE sum[c]
      /\ \A c \in Counters \ Restarted : count'[c] = sum[c]
  BY <1>5, <1>6 DEF GemCounts
<1>8. /\ {"reads", "writes", "mpki", "mpki_fetch", "mpki_read", "mpki_write", "read_misses", "write_misses"}
           \subseteq Counters \ {"fetches", "accesses"}
      /\ {"reads", "writes", "read_misses", "write_misses"} \cap Restarted = {}
      /\ {"mpki", "mpki_fetch", "mpki_read", "mpki_write"} \subseteq Restarted
  BY DEF Counters, Restarted
<1>9. /\ count["reads"] + count["writes"] = Len(handed)
      /\ count["mpki"] = count["mpki_fetch"] + count["mpki_read"] + count["mpki_write"]
      /\ count["mpki_write"] <= count["write_misses"]
      /\ count["mpki_fetch"] + count["mpki_read"] <= count["read_misses"]
  BY DEF LoopInv, Tallied
<1>10. PICK n \in Nat : Longer(e, lines, n)
  BY LongerIs
<1>11. /\ "reads" \in S <=> type # "write"
       /\ "writes" \in S <=> type = "write"
       /\ {"mpki", "mpki_fetch", "mpki_read", "mpki_write", "read_misses", "write_misses"} \cap S = {}
  BY <1>2
<1>12. /\ "mpki" \in Missed(type)
       /\ "mpki_fetch" \in Missed(type) <=> type = "fetch"
       /\ "mpki_read" \in Missed(type) <=> type = "read"
       /\ "mpki_write" \in Missed(type) <=> type = "write"
       /\ "write_misses" \in Missed(type) <=> type = "write"
       /\ "read_misses" \in Missed(type) <=> type # "write"
       /\ "reads" \notin Missed(type) /\ "writes" \notin Missed(type)
  <2>1. CASE type = "fetch"
    BY <2>1 DEF Missed
  <2>2. CASE type = "read"
    BY <2>2 DEF Missed
  <2>3. CASE type = "write"
    BY <2>3 DEF Missed
  <2>. QED
    BY <2>1, <2>2, <2>3
<1>13. \A c \in {"mpki", "mpki_fetch", "mpki_read", "mpki_write", "read_misses", "write_misses"} :
         sum[c] = count[c] + IF c \in Missed(type) THEN misses ELSE 0
  <2>1. ASSUME NEW c \in {"mpki", "mpki_fetch", "mpki_read", "mpki_write", "read_misses", "write_misses"}
        PROVE  sum[c] = count[c] + IF c \in Missed(type) THEN misses ELSE 0
    <3>1. c \in Counters \ {"fetches", "accesses"} /\ c \notin S
      BY <1>8, <1>11
    <3>2. one[c] = count[c]
      BY <1>3, <1>4, <3>1
    <3>. QED
      BY <1>5, <3>1, <3>2
  <2>. QED
    BY <2>1
<1>14. count'["reads"] + count'["writes"] = n + 1
  <2>1. count'["reads"] = sum["reads"] /\ count'["writes"] = sum["writes"]
    <3>1. {"reads", "writes"} \subseteq Counters \ Restarted
      BY DEF Counters, Restarted
    <3>. QED
      BY <1>7, <3>1
  <2>2. sum["reads"] = one["reads"] /\ sum["writes"] = one["writes"]
    BY <1>4, <1>5, <1>8, <1>12
  <2>3. /\ one["reads"] = count["reads"] + IF type # "write" THEN 1 ELSE 0
        /\ one["writes"] = count["writes"] + IF type = "write" THEN 1 ELSE 0
    BY <1>3, <1>8, <1>11
  <2>4. count["reads"] \in Nat /\ count["writes"] \in Nat /\ count["reads"] + count["writes"] = n
    BY <1>4, <1>8, <1>9, <1>10 DEF Longer
  <2>. QED
    BY <2>1, <2>2, <2>3, <2>4
<1>15. /\ count'["mpki"] = count'["mpki_fetch"] + count'["mpki_read"] + count'["mpki_write"]
       /\ count'["mpki_write"] <= count'["write_misses"]
       /\ count'["mpki_fetch"] + count'["mpki_read"] <= count'["read_misses"]
  <2>1. PICK m, f, d, w, x, y \in Nat :
          /\ m = count["mpki"] /\ f = count["mpki_fetch"] /\ d = count["mpki_read"]
          /\ w = count["mpki_write"] /\ x = count["read_misses"] /\ y = count["write_misses"]
    BY <1>4, <1>8
  <2>2. m = f + d + w /\ w <= y /\ f + d <= x
    BY <1>9, <2>1
  <2>3. /\ sum["mpki"] = m + misses
        /\ sum["mpki_fetch"] = f + IF type = "fetch" THEN misses ELSE 0
        /\ sum["mpki_read"] = d + IF type = "read" THEN misses ELSE 0
        /\ sum["mpki_write"] = w + IF type = "write" THEN misses ELSE 0
        /\ sum["read_misses"] = x + IF type # "write" THEN misses ELSE 0
        /\ sum["write_misses"] = y + IF type = "write" THEN misses ELSE 0
    BY <1>12, <1>13, <2>1
  <2>4. /\ count'["mpki"] = IF r THEN 0 ELSE sum["mpki"]
        /\ count'["mpki_fetch"] = IF r THEN 0 ELSE sum["mpki_fetch"]
        /\ count'["mpki_read"] = IF r THEN 0 ELSE sum["mpki_read"]
        /\ count'["mpki_write"] = IF r THEN 0 ELSE sum["mpki_write"]
        /\ count'["read_misses"] = sum["read_misses"] /\ count'["write_misses"] = sum["write_misses"]
    <3>1. /\ {"mpki", "mpki_fetch", "mpki_read", "mpki_write"} \subseteq Restarted \cap Counters
          /\ {"read_misses", "write_misses"} \subseteq Counters \ Restarted
      BY DEF Counters, Restarted
    <3>. QED
      BY <1>7, <3>1
  <2>. QED
    BY <2>2, <2>3, <2>4
<1>16. Len(handed') = n + 1
  BY <1>10 DEF Longer
<1>. QED
  BY <1>1, <1>7, <1>14, <1>15, <1>16 DEF Tallied


--------------------------------------------------------------------------------
(* The lines of a block of code. *)

LEMMA BlockLinesAre ==
  ASSUME NEW start \in Nat, NEW size \in Nat
  PROVE  /\ BlockLines(start, start + size) = BlockOf(LineSize, start, size)
         /\ PlainLines(start, start + size) = PlainOf(LineSize, start, size)
<1>1. PICK end : end = start + size /\ start .. end - 1 = start .. start + size - 1
  OBVIOUS
<1>2. BlockLines(start, end) = BlockOf(LineSize, start, size)
  <2>1. \A x : x \in BlockLines(start, end) <=> x \in BlockOf(LineSize, start, size)
    BY <1>1 DEF BlockLines, BlockOf
  <2>. QED
    BY <2>1
<1>3. PlainLines(start, end) = PlainOf(LineSize, start, size)
  <2>1. \A x : x \in PlainLines(start, end) <=> x \in PlainOf(LineSize, start, size)
    BY <1>1, <1>2 DEF PlainLines, PlainOf, Good
  <2>. QED
    BY <2>1
<1>. QED
  BY <1>1, <1>2, <1>3

\* What BlocksAreFetched says of one block.
RightLines(start, end, lines) ==
  /\ loop = "coordinator" =>
       BlockLines(start, end) \subseteq lines /\ Cardinality(lines \ BlockLines(start, end)) <= 1
  /\ loop = "simple" =>
       /\ lines \subseteq BlockLines(start, end)
       /\ PlainLines(start, end) \ lines \subseteq
            IF start % LineSize = 0 THEN {} ELSE {(end - 1) \div LineSize}
FetchedRight(e, lines) == RightLines(e.what[1], e.what[1] + e.what[2], lines)

LEMMA BlocksKeep ==
  ASSUME LoopInv, InsideLoop, NEW e, NEW lines, Appended(e, lines),
         e.name = "tb" => FetchedRight(e, lines)
  PROVE  BlocksAreFetched'
<1>1. loop' = loop
  BY SameFiles DEF InsideLoop
<1>2. PICK n \in Nat : Longer(e, lines, n)
  BY LongerIs
<1>3. \A k \in DOMAIN handed : handed[k].name = "tb" => FetchedRight(handed[k], fetched[k])
  BY DEF LoopInv, BlocksAreFetched, FetchedRight, RightLines
<1>4. ASSUME NEW k \in DOMAIN handed', handed'[k].name = "tb"
      PROVE  FetchedRight(handed'[k], fetched'[k])
  <2>1. CASE k = n + 1
    <3>1. handed'[k] = e /\ fetched'[k] = lines
      BY <1>2, <2>1 DEF Longer
    <3>. QED
      BY <1>4, <3>1
  <2>2. CASE k # n + 1
    <3>1. k \in DOMAIN handed /\ handed'[k] = handed[k] /\ fetched'[k] = fetched[k]
      BY <1>2, <2>2 DEF Longer
    <3>. QED
      BY <1>3, <1>4, <3>1
  <2>. QED
    BY <2>1, <2>2
<1>. QED
  BY <1>1, <1>4 DEF BlocksAreFetched, FetchedRight, RightLines

\* What the inner loop accesses.
LinesOf(e) ==
  LET addr(i)  == e.what[1] + i * LineSize
      fault(i) == loop = "simple" /\ PageIn(addr(i), Unmapped)
      rounds   == {i \in Rounds(e.what[2]) : \A j \in 0 .. i - 1 : ~fault(j)}
      accessed == {i \in rounds : ~fault(i) /\ (loop = "simple" => ~PageIn(addr(i), Uncached))}
  IN  {addr(i) \div LineSize : i \in accessed}

LEMMA BlockIsFetched ==
  ASSUME NEW e, e.what[1] \in Nat, e.what[2] \in Nat, NEW lines, Translates => lines = LinesOf(e)
  PROVE  FetchedRight(e, lines)
<1>1. PICK d \in Nat \ {0}, start \in Nat, size \in Nat :
        d = LineSize /\ start = e.what[1] /\ size = e.what[2]
  BY LoopAssumption
<1>2. PICK end \in Nat : end = e.what[1] + e.what[2] /\ end = start + size
  BY <1>1
<1>3. BlockLines(start, end) = BlockOf(d, start, size) /\ PlainLines(start, end) = PlainOf(d, start, size)
  <2>1. /\ BlockLines(start, start + size) = BlockOf(LineSize, start, size)
        /\ PlainLines(start, start + size) = PlainOf(LineSize, start, size)
    BY BlockLinesAre
  <2>2. d = LineSize /\ end = start + size
    BY <1>1, <1>2
  <2>. QED
    BY <2>1, <2>2
<1>4. PICK block, plain :
        /\ block = BlockOf(d, start, size) /\ block = BlockLines(start, end)
        /\ plain = PlainOf(d, start, size) /\ plain = PlainLines(start, end)
  BY <1>3
<1>5. ASSUME loop = "coordinator"
      PROVE  AllAndOne(block, lines)
  <2>1. Rounds(size) = {i \in 0 .. size + 1 : size - i * d > -d}
    <3>1. PICK least : least = CASE loop = "simple" -> 0 [] loop = "coordinator" -> -LineSize
                                [] loop = "printtrace" -> LineSize
      OBVIOUS
    <3>2. least = -d
      BY <1>1, <1>5, <3>1
    <3>3. Rounds(size) = {i \in 0 .. size + 1 : size - i * LineSize > least}
      BY <3>1 DEF Rounds
    <3>. QED
      BY <1>1, <3>2, <3>3
  <2>2. lines = {(start + i * d) \div d : i \in Rounds(size)}
    BY <1>1, <1>5 DEF LinesOf, Translates
  <2>3. lines = LinesUpTo(d, start, size)
    BY <2>1, <2>2 DEF LinesUpTo
  <2>. QED
    <3>1. AllAndOne(BlockOf(d, start, size), LinesUpTo(d, start, size))
      BY CoordinatorFetches
    <3>. QED
      BY <1>4, <2>3, <3>1
<1>6. ASSUME loop = "simple"
      PROVE  AllButLast(d, start, size, lines)
  <2>1. Rounds(size) = {i \in 0 .. size + 1 : size - i * d > 0}
    BY <1>1, <1>6 DEF Rounds
  <2>2. lines = {(start + i * d) \div d :
                   i \in {j \in {k \in Rounds(size) :
                                   \A m \in 0 .. k - 1 : ~PageIn(start + m * d, Unmapped)} :
                            ~PageIn(start + j * d, Unmapped) /\ ~PageIn(start + j * d, Uncached)}}
    BY <1>1, <1>6 DEF LinesOf, Translates
  <2>3. \A a : Good(a) <=> ~PageIn(a, Unmapped) /\ ~PageIn(a, Uncached)
    BY DEF Good, PageIn
  <2>4. lines = SimpleLines(d, start, size)
    BY <2>1, <2>2, <2>3 DEF SimpleLines
  <2>. QED
    BY <2>4, SimpleFetches
<1>7. start % d = start % LineSize /\ (start + size - 1) \div d = (end - 1) \div LineSize
  BY <1>1, <1>2
<1>8. RightLines(start, end, lines)
  BY <1>4, <1>5, <1>6, <1>7 DEF RightLines, AllAndOne, AllButLast
<1>. QED
  BY <1>1, <1>2, <1>8 DEF FetchedRight


--------------------------------------------------------------------------------
(* The steps of the loop. *)

\* A step of the loop, which leaves alone what the start has brought but the registers.
InFrame ==
  /\ StartInv /\ LoopInv /\ InsideLoop /\ Running
  /\ UNCHANGED <<mail, ranges, mapping, firstBuffer, memories>>
  /\ MemoryInv' /\ exited' \in BOOLEAN

LEMMA StartRests ==
  ASSUME InFrame,
         registers' = registers \/ (Translates /\ DOMAIN registers' = DOMAIN registers)
  PROVE  StartInv'
<1>1. /\ UNCHANGED <<program, world, files, pc, mail, ranges, mapping, firstBuffer, memories>>
      /\ Looper \in Procs /\ pc[Looper] = "loop"
  BY DEF InFrame, InsideLoop
<1>2. /\ Procs' = Procs /\ Looper' = Looper /\ Translates' = Translates /\ loop' = loop
      /\ Content' = Content /\ Letters' = Letters /\ Coordinator' = Coordinator
  BY <1>1, SameFiles
<1>3. Located'
  BY <1>1, <1>2 DEF InFrame, StartInv, Located
<1>4. registers' = None \/ DOMAIN registers' = 0 .. Processors * Registers - 1
  <2>1. CASE registers' = registers
    BY <2>1 DEF InFrame, StartInv, Received
  <2>2. CASE Translates /\ DOMAIN registers' = DOMAIN registers
    <3>1. DOMAIN registers = 0 .. Processors * Registers - 1
      BY <1>1, <2>2 DEF InFrame, LoopInv, RegistersHold
    <3>. QED
      BY <2>2, <3>1
  <2>. QED
    BY <2>1, <2>2
<1>5. Received'
  BY <1>1, <1>2, <1>4 DEF InFrame, StartInv, Received
<1>6. Progress'
  BY <1>1, <1>2 DEF InFrame, StartInv, Progress
<1>7. Mapped'
  BY <1>1 DEF InFrame, StartInv, Mapped
<1>. QED
  BY <1>3, <1>5, <1>6, <1>7 DEF StartInv

\* The loop is left, or goes on with the same event.
LEMMA SameEvent ==
  ASSUME InFrame, UNCHANGED <<trace, closed, expected, clock, handed, fetched, registers>>,
         at' \in {"next", "translated", "eof", "stopped"}, time' \in 0 .. Modulus - 1,
         Tallied', count' \in [Counters -> Nat]
  PROVE  ProgramsInv'
<1>1. /\ UNCHANGED <<program, world, files, pc>> /\ loop' = loop
      /\ Procs' = Procs /\ Looper' = Looper /\ Translates' = Translates
      /\ SpelledOut' = SpelledOut /\ \A p, k : FileValue(p, k)' = FileValue(p, k)
  BY SameFiles DEF InFrame, InsideLoop
<1>2. StartInv' /\ MemoryInv'
  BY StartRests DEF InFrame
<1>3. LoopTypes'
  BY DEF InFrame, LoopInv, LoopTypes
<1>4. EventsHandled'
  BY <1>1 DEF InFrame, LoopInv, EventsHandled, IsSeq
<1>5. BlocksAreFetched'
  BY <1>1 DEF InFrame, LoopInv, BlocksAreFetched
<1>6. RegistersHold'
  <2>1. \A p, k : SetsOf(p, k)' = SetsOf(p, k)
    BY <1>1 DEF SetsOf
  <2>2. RegistersExist' = RegistersExist
    BY <1>1 DEF RegistersExist
  <2>. QED
    BY <1>1, <2>1, <2>2 DEF InFrame, LoopInv, RegistersHold
<1>. QED
  BY <1>2, <1>3, <1>4, <1>5, <1>6 DEF LoopInv, ProgramsInv

\* An event is handled, and the trace goes on behind its record.
LEMMA NextEvent ==
  ASSUME InFrame, NEW e, NEW lines, Appended(e, lines), UNCHANGED <<closed, expected, clock>>,
         NEW from \in Nat, from <= Len(trace), trace' = SubSeq(trace, from + 1, Len(trace)),
         at' \in {"next", "translated", "eof", "stopped"}, time' \in 0 .. Modulus - 1,
         e.name = "cr" => e.cpu \in Nat /\ e.what[1] \in Nat,
         e.name = "tb" => e.what[1] \in Nat /\ e.what[2] \in Nat /\ FetchedRight(e, lines),
         Tallied', count' \in [Counters -> Nat],
         Translates /\ e.name = "cr" =>
           registers' = [registers EXCEPT ![e.cpu * Registers + e.what[1]] = e.what[2]],
         ~(Translates /\ e.name = "cr") => UNCHANGED registers
  PROVE  ProgramsInv'
<1>1. LoopInv /\ InsideLoop /\ StartInv
  BY DEF InFrame
<1>2. StartInv' /\ MemoryInv'
  <2>1. registers' = registers \/ (Translates /\ DOMAIN registers' = DOMAIN registers)
    OBVIOUS
  <2>. QED
    BY <2>1, StartRests DEF InFrame
<1>3. LoopTypes'
  <2>1. trace \in Seq(0 .. Base - 1) /\ closed' \in BOOLEAN /\ clock' \in 0 .. Modulus - 1
    BY <1>1 DEF LoopInv, LoopTypes
  <2>2. PICK n \in Int : n = Len(trace)
    BY <2>1
  <2>3. from + 1 \in Nat \ {0} /\ n <= Len(trace)
    BY <2>2
  <2>4. SubSeq(trace, from + 1, n) \in Seq(0 .. Base - 1)
    BY <2>1, <2>3, PartOf, Zenon
  <2>5. Len(fetched') = Len(handed')
    BY <1>1, LongerIs DEF Longer
  <2>. QED
    BY <2>1, <2>2, <2>4, <2>5 DEF LoopTypes
<1>4. EventsHandled'
  BY <1>1, EventsKeep
<1>5. RegistersHold'
  BY <1>1, RegistersKeep
<1>6. BlocksAreFetched'
  BY <1>1, BlocksKeep
<1>. QED
  BY <1>2, <1>3, <1>4, <1>5, <1>6 DEF LoopInv, ProgramsInv


\* The loop of a program that is in it.
Reached ==
  /\ StartInv /\ MemoryInv /\ LoopInv /\ Busy
  /\ UNCHANGED <<program, world, files, pc, mail, ranges, mapping, firstBuffer>>

LEMMA FrameIs ==
  ASSUME Reached, Running, MemoryInv', UNCHANGED memories, exited' \in BOOLEAN
  PROVE  InFrame
BY DEF Reached, InFrame, InsideLoop, Busy, Looping, InLoop

\* The same, of a step that leaves the memory alone.
LEMMA FrameOfMost ==
  ASSUME Reached, Running, UNCHANGED memoryVars
  PROVE  InFrame /\ exited' = exited
<1>1. MemoryInv'
  BY MemoryStays DEF Reached
<1>2. UNCHANGED <<memories, exited>> /\ exited \in BOOLEAN
  BY DEF memoryVars, Reached, StartInv, Progress
<1>. QED
  BY <1>1, <1>2, FrameIs

LEMMA LoopEnds ==
  ASSUME Reached, NoEvent \/ CutEvent \/ LimitReached \/ UnknownEvent, UNCHANGED registers
  PROVE  ProgramsInv'
<1>1. PICK where \in {"eof", "stopped"} : Stop(where)
  BY DEF NoEvent, CutEvent, LimitReached, UnknownEvent
<1>2. /\ at' \in {"eof", "stopped"} /\ UNCHANGED memoryVars
      /\ UNCHANGED <<trace, closed, expected, clock, handed, fetched>>
  BY <1>1 DEF Stop
<1>3. Running /\ at \in {"next", "translated"}
  BY DEF NoEvent, CutEvent, LimitReached, UnknownEvent, Running
<1>4. InFrame
  BY <1>2, <1>3, FrameOfMost
<1>5. time' \in 0 .. Modulus - 1
  <2>1. time \in 0 .. Modulus - 1 /\ trace \in Seq(0 .. Base - 1)
    BY DEF Reached, LoopInv, LoopTypes
  <2>2. \A x, m : x \in 0 .. m => x \in Int
    OBVIOUS
  <2>3. time' = time \/ (time' = NewTime /\ HeaderThere)
    BY DEF NoEvent, CutEvent, LimitReached, UnknownEvent
  <2>4. time \in Int
    BY <2>1, <2>2, Zenon
  <2>. QED
    BY <2>1, <2>3, <2>4, NewTimeIs
<1>6. \/ count' = count
      \/ \E S \in SUBSET {"events", "crs"} :
           count' = Counted(S, 0) /\ ("crs" \in S => at' = "eof")
  <2>1. CASE NoEvent
    BY <2>1 DEF NoEvent
  <2>2. CASE CutEvent
    <3>1. at' = "eof"
      BY <2>2 DEF CutEvent, Stop
    <3>2. PICK kind \in Kind : count' = Counted({"events"} \cup (IF kind = "cr" THEN {"crs"} ELSE {}), 0)
      BY <2>2 DEF CutEvent
    <3>3. {"events"} \cup (IF kind = "cr" THEN {"crs"} ELSE {}) \in SUBSET {"events", "crs"}
      OBVIOUS
    <3>. QED
      BY <3>1, <3>2, <3>3
  <2>3. CASE LimitReached \/ UnknownEvent
    <3>1. count' = Counted({"events"}, 0)
      BY <2>3 DEF LimitReached, UnknownEvent
    <3>. QED
      BY <3>1
  <2>. QED
    BY <2>1, <2>2, <2>3
<1>7. Tallied' /\ count' \in [Counters -> Nat]
  <2>1. UNCHANGED <<program, world, files, handed>>
    BY <1>2 DEF Reached
  <2>2. LoopInv
    BY DEF Reached
  <2>. QED
    BY <1>2, <1>3, <1>6, <2>1, <2>2, TalliedStays
<1>. QED
  BY <1>2, <1>4, <1>5, <1>7, SameEvent

LEMMA TranslateKeeps ==
  ASSUME Reached, Running, NEW e, Translate(e), UNCHANGED registers
  PROVE  ProgramsInv'
<1>1. PICK w \in TableWords : Read(w, 8)
  BY DEF Translate
<1>2. MemoryInv' /\ UNCHANGED memories /\ exited' \in BOOLEAN
  <2>1. w \in Nat /\ 8 \in Nat
    BY LoopAssumption
  <2>2. MemoryInv /\ exited \in BOOLEAN
    BY DEF Reached, StartInv, Progress
  <2>. QED
    BY <1>1, <2>1, <2>2, ReadKeeps DEF Read
<1>3. InFrame
  BY <1>2, FrameIs
<1>4. at' = "translated" /\ UNCHANGED <<trace, closed, expected, clock, time, count, handed, fetched>>
  BY DEF Translate
<1>5. LoopInv /\ UNCHANGED <<program, world, files, handed>> /\ at \in {"next", "translated"}
  BY <1>4 DEF Reached, Running
<1>6. Tallied' /\ count' \in [Counters -> Nat]
  BY <1>4, <1>5, TalliedStays
<1>7. time' \in 0 .. Modulus - 1
  BY <1>4, <1>5 DEF LoopInv, LoopTypes
<1>. QED
  BY <1>3, <1>4, <1>6, <1>7, SameEvent

\* An event that has been handled, as its record has it, and all that is said of the step but
\* what the counters are.
LEMMA EventHandled ==
  ASSUME InFrame, loop # "gem", NEW kind \in Kind, HeaderThere, RecordThere(kind),
         NEW e, e = Heard(kind), NEW lines, Handled(e, lines),
         NEW S, NEW more \in Nat, count' = Counted(S, more), Tally(e, S),
         at' \in {"next", "stopped"}, e.name = "tb" => FetchedRight(e, lines),
         Translates /\ e.name = "cr" =>
           registers' = [registers EXCEPT ![e.cpu * Registers + e.what[1]] = e.what[2]],
         ~(Translates /\ e.name = "cr") => UNCHANGED registers
  PROVE  ProgramsInv'
<1>1. LoopInv /\ InsideLoop /\ at \in {"next", "translated"}
  BY DEF InFrame, Running
<1>2. trace \in Seq(0 .. Base - 1) /\ time \in 0 .. Modulus - 1
  BY <1>1 DEF LoopInv, LoopTypes
<1>3. time \in Int
  <2>1. \A x, m : x \in 0 .. m => x \in Int
    OBVIOUS
  <2>. QED
    BY <1>2, <2>1, Zenon
<1>4. Described(e) /\ e.name = kind
  BY <1>2, <1>3, HeardIs
<1>5. Appended(e, lines) /\ UNCHANGED <<closed, expected, clock>> /\ time' = e.time
  BY DEF Handled, Appended
<1>6. Tallied' /\ count' \in [Counters -> Nat]
  <2>1. at' \in {"next", "translated", "stopped"}
    OBVIOUS
  <2>. QED
    BY <1>1, <1>5, <2>1, TalliedGrows
<1>7. PICK from \in Nat : from = HeaderLength + RecordLength(kind) /\ from <= Len(trace)
  <2>1. kind \in Kinds
    BY KindIs
  <2>2. HeaderLength \in Nat
    BY <1>2, HeaderIs
  <2>3. Len(trace) >= HeaderLength + RecordLength(kind)
    BY DEF RecordThere
  <2>4. RecordLength(kind) \in Nat
    BY <1>2, <2>1, <2>2, <2>3, FieldsAre
  <2>5. Len(trace) \in Nat
    BY <1>2
  <2>. QED
    BY <2>2, <2>3, <2>4, <2>5
<1>8. trace' = SubSeq(trace, from + 1, Len(trace))
  BY <1>4, <1>7 DEF Handled
<1>9. /\ time' \in 0 .. Modulus - 1
      /\ e.name = "cr" => e.cpu \in Nat /\ e.what[1] \in Nat
      /\ e.name = "tb" => e.what[1] \in Nat /\ e.what[2] \in Nat
  BY <1>4, <1>5 DEF Described
<1>. QED
  BY <1>5, <1>6, <1>7, <1>8, <1>9, NextEvent


\* The event the loop is at.
AtEvent(kind, e) ==
  /\ Reached /\ Running /\ loop # "gem" /\ HeaderThere /\ kind \in Kind /\ RecordThere(kind)
  /\ e = Heard(kind)

LEMMA LoopsAre ==
  ASSUME Reached
  PROVE  loop \in {"simple", "printtrace", "coordinator", "gem"}
<1>1. program \in {"simple", "gem", "printtrace", "tests", "distributed"}
  BY ProgramsAre DEF Reached, StartInv
<1>. QED
  BY <1>1 DEF Reached, Busy, Looping, loop

LEMMA GoesOn ==
  ASSUME GoOn
  PROVE  at' \in {"next", "stopped"}
BY DEF GoOn

\* What is heard is described.
LEMMA HeardHere ==
  ASSUME NEW kind, NEW e, AtEvent(kind, e)
  PROVE  Described(e) /\ e.name = kind
<1>1. trace \in Seq(0 .. Base - 1) /\ time \in 0 .. Modulus - 1
  BY DEF AtEvent, Reached, LoopInv, LoopTypes
<1>2. time \in Int
  <2>1. \A x, m : x \in 0 .. m => x \in Int
    OBVIOUS
  <2>. QED
    BY <1>1, <2>1, Zenon
<1>. QED
  BY <1>1, <1>2, HeardIs DEF AtEvent

LEMMA ControlRegisterKeeps ==
  ASSUME NEW kind, NEW e, AtEvent(kind, e), ControlRegister(e)
  PROVE  ProgramsInv'
<1>1. e.name = "cr" /\ Handled(e, {}) /\ count' = Counted({"events", "crs"}, 0) /\ UNCHANGED memoryVars
  BY DEF ControlRegister
<1>2. at' \in {"next", "stopped"}
  BY GoesOn DEF ControlRegister
<1>3. InFrame
  BY <1>1, FrameOfMost DEF AtEvent
<1>4. PICK S : S = {"events", "crs"}
  OBVIOUS
<1>5. Tally(e, S)
  BY <1>1, <1>4 DEF Tally
<1>6. /\ Translates => registers' = [registers EXCEPT ![e.cpu * Registers + e.what[1]] = e.what[2]]
      /\ ~Translates => UNCHANGED registers
  BY DEF ControlRegister
<1>7. loop # "gem" /\ kind \in Kind /\ HeaderThere /\ RecordThere(kind) /\ e = Heard(kind)
  BY DEF AtEvent
<1>8. count' = Counted(S, 0) /\ 0 \in Nat
  BY <1>1, <1>4
<1>. QED
  BY <1>1, <1>2, <1>3, <1>5, <1>6, <1>7, <1>8, EventHandled

LEMMA InvlpgKeeps ==
  ASSUME NEW kind, NEW e, AtEvent(kind, e), Invlpg(e), UNCHANGED registers
  PROVE  ProgramsInv'
<1>1. e.name = "invlpg" /\ Handled(e, {}) /\ count' = Counted({"events", "flushes"}, 0) /\ UNCHANGED memoryVars
  BY DEF Invlpg
<1>2. at' \in {"next", "stopped"}
  BY GoesOn DEF Invlpg
<1>3. InFrame
  BY <1>1, FrameOfMost DEF AtEvent
<1>4. PICK S : S = {"events", "flushes"}
  OBVIOUS
<1>5. Tally(e, S)
  BY <1>1, <1>4 DEF Tally
<1>7. loop # "gem" /\ kind \in Kind /\ HeaderThere /\ RecordThere(kind) /\ e = Heard(kind)
  BY DEF AtEvent
<1>8. count' = Counted(S, 0) /\ 0 \in Nat
  BY <1>1, <1>4
<1>. QED
  BY <1>1, <1>2, <1>3, <1>5, <1>7, <1>8, EventHandled

LEMMA MemoryAccessKeeps ==
  ASSUME NEW kind, NEW e, AtEvent(kind, e), MemoryAccess(e), UNCHANGED registers
  PROVE  ProgramsInv'
<1>1. e.name \in {"load", "store"} /\ Handled(e, {})
  BY DEF MemoryAccess
<1>2. PICK fault \in BOOLEAN : fault = (Translates /\ PageIn(e.what[1], Unmapped))
  BY DEF Translates
<1>3. PICK tally, page :
        /\ tally = {"events", IF e.name = "load" THEN "reads" ELSE "writes"}
        /\ page = IF PageIn(e.what[1], UserPages) THEN "user" ELSE "kernel"
  OBVIOUS
<1>4. PICK S :
        /\ S = CASE loop = "printtrace"  -> tally
                 [] loop = "simple"      -> tally \cup {"accesses"} \cup (IF fault THEN {} ELSE {page})
                 [] loop = "coordinator" ->
                      {"events"} \cup (IF fault THEN {}
                                       ELSE {IF PageIn(e.what[1], Uncached) THEN "disabled" ELSE "enabled"})
        /\ count' = Counted(S, 0)
  BY <1>3, <1>2 DEF MemoryAccess
<1>5. IF fault THEN at' = "stopped" ELSE at' \in {"next", "stopped"}
  BY <1>2, GoesOn DEF MemoryAccess
<1>6. at' \in {"next", "stopped"}
  BY <1>5
<1>7. loop # "gem" /\ kind \in Kind /\ HeaderThere /\ RecordThere(kind) /\ e = Heard(kind)
  BY DEF AtEvent
<1>8. Tally(e, S)
  <2>1. loop \in {"simple", "printtrace", "coordinator"}
    BY <1>7, LoopsAre DEF AtEvent
  <2>2. CASE loop = "printtrace"
    <3>1. S = tally
      BY <1>4, <2>2
    <3>. QED
      BY <1>1, <1>3, <2>2, <3>1 DEF Tally
  <2>3. CASE loop = "simple"
    <3>1. S = tally \cup {"accesses"} \cup (IF fault THEN {} ELSE {page})
      BY <1>4, <2>3
    <3>. QED
      BY <1>1, <1>3, <1>5, <2>3, <3>1 DEF Tally
  <2>4. CASE loop = "coordinator"
    <3>1. S = {"events"} \cup (IF fault THEN {}
                               ELSE {IF PageIn(e.what[1], Uncached) THEN "disabled" ELSE "enabled"})
      BY <1>4, <2>4
    <3>. QED
      BY <1>1, <1>5, <2>4, <3>1 DEF Tally
  <2>. QED
    BY <2>1, <2>2, <2>3, <2>4
<1>9. InFrame
  <2>1. CASE UNCHANGED memoryVars
    BY <2>1, FrameOfMost DEF AtEvent
  <2>2. CASE Write(e.what[1], e.what[2], Len(handed) + 1)
    <3>1. Sized(e.what[1], e.what[2])
      <4>1. Described(e)
        BY HeardHere
      <4>2. e.what[1] \in Nat
        BY <1>1, <4>1 DEF Described
      <4>3. PICK k \in 0 .. InfoSizes - 1 : e.what[2] = Power(2, k)
        BY <1>1, <4>1 DEF Described
      <4>4. Power(2, k) \in Nat
        BY PowersAre
      <4>. QED
        BY <4>2, <4>3, <4>4, SizesAssumption DEF Sized
    <3>2. MemoryInv /\ exited \in BOOLEAN
      BY DEF AtEvent, Reached, StartInv, Progress
    <3>3. MemoryInv'
      BY <2>2, <3>1, <3>2, WriteKeeps
    <3>4. UNCHANGED memories /\ exited' \in BOOLEAN
      BY <2>2, <3>2 DEF Write
    <3>. QED
      BY <3>3, <3>4, FrameIs DEF AtEvent
  <2>. QED
    BY <2>1, <2>2 DEF MemoryAccess
<1>10. count' = Counted(S, 0) /\ 0 \in Nat
  BY <1>4
<1>. QED
  BY <1>1, <1>6, <1>7, <1>8, <1>9, <1>10, EventHandled


\* How often the inner loop goes round before it meets a page that is not mapped.
RoundsOf(e) ==
  LET addr(i)  == e.what[1] + i * LineSize
      fault(i) == loop = "simple" /\ PageIn(addr(i), Unmapped)
  IN  {i \in Rounds(e.what[2]) : \A j \in 0 .. i - 1 : ~fault(j)}

LEMMA BlockKeeps ==
  ASSUME NEW kind, NEW e, AtEvent(kind, e), Block(e), UNCHANGED registers
  PROVE  ProgramsInv'
<1>1. e.name = "tb" /\ UNCHANGED memoryVars /\ GoOn
  BY DEF Block
<1>2. PICK lines : lines = IF Translates THEN LinesOf(e) ELSE {}
  OBVIOUS
<1>3. PICK more : more = IF loop = "coordinator" THEN 0 ELSE Cardinality(RoundsOf(e))
  OBVIOUS
<1>4. Handled(e, lines)
  BY <1>2 DEF Block, LinesOf
<1>5. count' = Counted({"events"}, more)
  BY <1>3 DEF Block, RoundsOf
<1>6. e.what[1] \in Nat /\ e.what[2] \in Nat
  BY <1>1, HeardHere DEF Described
<1>7. more \in Nat
  <2>1. PICK n \in Nat : n = e.what[2]
    BY <1>6
  <2>2. PICK R : R = RoundsOf(e)
    OBVIOUS
  <2>3. R \subseteq 0 .. n + 1
    <3>1. \A i \in Rounds(n) : i \in 0 .. n + 1
      BY DEF Rounds
    <3>2. \A i \in R : i \in Rounds(n)
      BY <2>1, <2>2 DEF RoundsOf
    <3>. QED
      BY <3>1, <3>2
  <2>4. IsFiniteSet(0 .. n + 1)
    BY FS_Interval
  <2>5. Cardinality(R) \in Nat
    BY <2>3, <2>4, FS_Subset, FS_CardinalityType
  <2>. QED
    BY <1>3, <2>2, <2>5
<1>8. FetchedRight(e, lines)
  <2>1. Translates => lines = LinesOf(e)
    BY <1>2
  <2>. QED
    BY <1>6, <2>1, BlockIsFetched
<1>9. at' \in {"next", "stopped"}
  BY <1>1, GoesOn
<1>10. InFrame
  BY <1>1, FrameOfMost DEF AtEvent
<1>11. loop # "gem" /\ kind \in Kind /\ HeaderThere /\ RecordThere(kind) /\ e = Heard(kind)
  BY DEF AtEvent
<1>12. PICK S : S = {"events"}
  OBVIOUS
<1>13. Tally(e, S) /\ count' = Counted(S, more)
  BY <1>1, <1>5, <1>12 DEF Tally
<1>. QED
  BY <1>1, <1>4, <1>7, <1>8, <1>9, <1>10, <1>11, <1>13, EventHandled

\* A round of gem's loop, with names for its parts.
OneOf(type) == Counted({"events", IF type = "write" THEN "writes" ELSE "reads"}, 0)
SumOf(type, misses) ==
  [c \in Counters |-> OneOf(type)[c] + IF c \in Missed(type) THEN misses ELSE 0]
CountOf(type, misses) ==
  [c \in Counters |-> IF c \in Restarted /\ SumOf(type, misses)["events"] % Interval = 0
                      THEN 0 ELSE SumOf(type, misses)[c]]

LEMMA GemKeeps ==
  ASSUME Reached, GemAccess, UNCHANGED registers
  PROVE  ProgramsInv'
<1>1. Running /\ loop = "gem" /\ Len(trace) >= RecordLength("gem") /\ UNCHANGED memoryVars
  BY DEF GemAccess
<1>2. InFrame /\ LoopInv /\ InsideLoop
  BY <1>1, FrameOfMost DEF InFrame
<1>3. trace \in Seq(0 .. Base - 1) /\ at \in {"next", "translated", "eof", "stopped"}
  BY <1>2 DEF LoopInv, LoopTypes
<1>4. PICK f : f = Fields(0, "gem")
  OBVIOUS
<1>5. PICK n \in Nat : n = RecordLength("gem") /\ n <= Len(trace) /\ f[1] \in 0 .. Modulus - 1
  <2>1. "gem" \in Kinds /\ 0 \in Nat /\ Widths("gem") = <<WordBytes, WordBytes, 1, 1>>
    BY WidthsAre DEF Kinds
  <2>2. PICK l \in Nat, m \in Nat : l = Len(trace) /\ m = Len(Widths("gem")) /\ m = 4
    <3>1. Len(<<WordBytes, WordBytes, 1, 1>>) = 4
      OBVIOUS
    <3>2. Len(trace) \in Nat
      BY <1>3
    <3>. QED
      BY <2>1, <3>1, <3>2
  <2>3. Widths("gem")[1] = WordBytes
    BY <2>1
  <2>4. Len(trace) >= 0 + RecordLength("gem")
    <3>1. PICK w \in Seq(Nat \ {0}) : w = Widths("gem")
      BY <2>1, WidthsAreNat
    <3>2. \A i \in 1 .. 4 : w[i] \in Nat
      BY <2>2, <3>1
    <3>3. SumTo(w, 4) \in Nat
      <4>1. 4 \in Nat
        OBVIOUS
      <4>2. \A k \in 0 .. 4 : SumTo(w, k) \in Nat /\ SumTo(w, k) <= SumTo(w, 4)
        BY <3>2, <4>1, SumGrows, Zenon
      <4>. QED
        BY <4>2
    <3>4. RecordLength("gem") \in Nat
      BY <2>2, <3>1, <3>3 DEF RecordLength
    <3>. QED
      BY <1>1, <3>4
  <2>5. /\ RecordLength("gem") \in Nat
        /\ \A i \in 1 .. Len(Widths("gem")) :
             Fields(0, "gem")[i] \in 0 .. Power(Base, Widths("gem")[i]) - 1
    BY <1>3, <2>1, <2>4, FieldsAre
  <2>6. 1 \in 1 .. Len(Widths("gem"))
    BY <2>2
  <2>7. f[1] \in 0 .. Power(Base, WordBytes) - 1
    BY <1>4, <2>3, <2>5, <2>6
  <2>. QED
    BY <1>1, <2>2, <2>5, <2>7 DEF Modulus
<1>6. PICK type \in {"fetch", "read", "write"} :
        type = TypeOf(f)
  BY DEF TypeOf
<1>7. PICK e : e = [name |-> "gem", time |-> f[1], cpu |-> f[4], what |-> <<f[2], type>>]
  OBVIOUS
<1>8. Appended(e, {}) /\ e.name = "gem" /\ time' = f[1]
  BY <1>4, <1>6, <1>7 DEF GemAccess, Appended, TypeOf
<1>9. \E misses \in 0 .. 2 : \E one, sum : GemCounts(type, misses, one, sum)
  <2>1. \E misses \in 0 .. 2 : count' = CountOf(TypeOf(Fields(0, "gem")), misses)
    BY DEF GemAccess, CountOf, SumOf, OneOf, TypeOf
  <2>2. PICK misses \in 0 .. 2 : count' = CountOf(type, misses)
    BY <1>4, <1>6, <2>1
  <2>3. GemCounts(type, misses, OneOf(type), SumOf(type, misses))
    BY <2>2 DEF GemCounts, OneOf, SumOf, CountOf
  <2>. QED
    BY <2>3
<1>10. Tallied' /\ count' \in [Counters -> Nat]
  BY <1>1, <1>2, <1>8, <1>9, TalliedGem
<1>11. /\ UNCHANGED <<closed, expected, clock>> /\ at' = at
       /\ trace' = SubSeq(trace, n + 1, Len(trace))
  BY <1>5 DEF GemAccess
<1>12. at' \in {"next", "translated", "eof", "stopped"}
  BY <1>3, <1>11
<1>13. time' \in 0 .. Modulus - 1
  BY <1>5, <1>8
<1>. QED
  BY <1>2, <1>5, <1>8, <1>10, <1>11, <1>12, <1>13, NextEvent


LEMMA LoopKeeps ==
  ASSUME ProgramsInv, Loop
  PROVE  ProgramsInv'
<1>1. Reached
  BY DEF ProgramsInv, Loop, Reached
<1>2. CASE (NoEvent \/ CutEvent \/ LimitReached \/ UnknownEvent \/ GemAccess) /\ UNCHANGED registers
  BY <1>1, <1>2, LoopEnds, GemKeeps
<1>3. ASSUME Running, loop # "gem", HeaderThere, NEW kind \in Kind, RecordThere(kind),
             NEW e \in {Heard(kind)},
             \/ ControlRegister(e)
             \/ (Invlpg(e) \/ Translate(e) \/ MemoryAccess(e) \/ Block(e)) /\ UNCHANGED registers
      PROVE  ProgramsInv'
  <2>1. AtEvent(kind, e)
    BY <1>1, <1>3 DEF AtEvent
  <2>2. CASE ControlRegister(e)
    BY <2>1, <2>2, ControlRegisterKeeps
  <2>3. CASE Invlpg(e) /\ UNCHANGED registers
    BY <2>1, <2>3, InvlpgKeeps
  <2>4. CASE Translate(e) /\ UNCHANGED registers
    BY <1>1, <1>3, <2>4, TranslateKeeps
  <2>5. CASE MemoryAccess(e) /\ UNCHANGED registers
    BY <2>1, <2>5, MemoryAccessKeeps
  <2>6. CASE Block(e) /\ UNCHANGED registers
    BY <2>1, <2>6, BlockKeeps
  <2>. QED
    BY <1>3, <2>2, <2>3, <2>4, <2>5, <2>6
<1>4. LoopStep
  BY DEF Loop
<1>. QED
  BY <1>2, <1>3, <1>4 DEF LoopStep

--------------------------------------------------------------------------------
(* Every step. *)

\* A step of the caches, or none at all.
LEMMA AllStays ==
  ASSUME ProgramsInv, UNCHANGED <<startupVars, memoryVars, loopVars>>
  PROVE  ProgramsInv'
<1>1. WriterStep
  BY DEF WriterStep, loopVars
<1>2. LoopTypes'
  BY DEF ProgramsInv, LoopInv, LoopTypes, loopVars
<1>. QED
  BY <1>1, <1>2, WriterKeeps DEF ProgramsInv

LEMMA EveryStepKeeps ==
  ASSUME ProgramsInv, [Next]_vars
  PROVE  ProgramsInv'
<1>1. CASE Test \/ SetUpCaches \/ UNCHANGED vars
  <2>1. UNCHANGED <<startupVars, memoryVars, loopVars>>
    BY <1>1 DEF Test, SetUpCaches, vars
  <2>. QED
    BY <2>1, AllStays
<1>2. CASE Loop
  BY <1>2, LoopKeeps
<1>3. CASE WriteTrace
  <2>1. CASE AppendEvent
    BY <1>3, <2>1, AppendEventKeeps DEF WriteTrace, ProgramsInv
  <2>2. CASE CloseTrace
    BY <1>3, <2>2, CloseTraceKeeps DEF WriteTrace, ProgramsInv
  <2>. QED
    BY <1>3, <2>1, <2>2 DEF WriteTrace
<1>4. CASE StartsOrEnds
  <2>1. StartInv' /\ MemoryInv' /\ Entered
    BY <1>4, StartKeeps DEF ProgramsInv
  <2>2. UNCHANGED <<loopVars, program, world, files>>
    BY <1>4 DEF StartsOrEnds, Rest
  <2>3. LoopInv'
    BY <2>1, <2>2, LoopStays DEF ProgramsInv
  <2>. QED
    BY <2>1, <2>3 DEF ProgramsInv
<1>. QED
  BY <1>1, <1>2, <1>3, <1>4 DEF Next, StartsOrEnds

--------------------------------------------------------------------------------
(* What it says. *)

\* The invariant holds of every program, from main to its end, whatever files it is started
\* with: how far the start has come (simple/simulator.c 240-385, coordinator.c 29-205,
\* input_reader.c 19-140), the memories, and the loop over the events of the trace
\* (simple/simulator.c 400-520, coordinator.c 207-311, gem/simulator.c 64-140, printtrace.c).
THEOREM ProgramsInvariant == Spec => []ProgramsInv
<1>1. Init => ProgramsInv
  BY ProgramBegins
<1>2. ProgramsInv /\ [Next]_vars => ProgramsInv'
  BY EveryStepKeeps
<1>. QED
  BY <1>1, <1>2, PTL DEF Spec

\* Each variable of the start has what its own message, of its own tag, or its own file
\* brings (input_reader.c 19-112, coordinator.c 29-58 and 147-202).
THEOREM StartupTypesHold == Spec => []StartupTypes
<1>1. ProgramsInv => StartupTypes
  <2>. SUFFICES ASSUME ProgramsInv
                PROVE  StartupTypes
    OBVIOUS
  <2>1. files \in Inputs /\ Received
    BY DEF ProgramsInv, StartInv, Located
  <2>2. Content.ranges \in Seq(MemoryRange) /\ DOMAIN Content.mapping = Names
    BY <2>1, ContentTypes
  <2>3. ranges \in Seq(MemoryRange)
    <3>1. <<>> \in Seq(MemoryRange)
      OBVIOUS
    <3>. QED
      BY <2>1, <2>2, <3>1 DEF Received
  <2>. QED
    BY <2>1, <2>2, <2>3 DEF Received, StartupTypes
<1>. QED
  BY <1>1, ProgramsInvariant, PTL

\* The loops keep bytes in the trace, words in the times and counts in the counters
\* (filereader.c 84-102, simulator.c 400-489, gem/simulator.c 64-140).
THEOREM LoopTypesHold == Spec => []LoopTypes
<1>1. ProgramsInv => LoopTypes
  BY DEF ProgramsInv, LoopInv
<1>. QED
  BY <1>1, ProgramsInvariant, PTL

\* The pages that were loaded, those still to be loaded and the dumps together are one flat
\* memory, in every simulator that has one (memory.c 29-67, 120-168).
THEOREM MemoryIsAlwaysFlat == Spec => []MemoryIsFlat
<1>1. ProgramsInv => MemoryIsFlat
  BY DEF ProgramsInv, MemoryInv
<1>. QED
  BY <1>1, ProgramsInvariant, PTL

\* The coordinator and the simple simulator access the lines of every block of code they
\* should, and no others but one (coordinator.c 290-305, simulator.c 460-489).
THEOREM BlocksAreAlwaysFetched == Spec => []BlocksAreFetched
<1>1. ProgramsInv => BlocksAreFetched
  BY DEF ProgramsInv, LoopInv
<1>. QED
  BY <1>1, ProgramsInvariant, PTL

\* What the loops print adds up (simulator.c 415-489, coordinator.c 219-311,
\* gem/simulator.c 36-61 and 128).
THEOREM CountsAlwaysAgree == Spec => []CountsAgree
<1>1. ProgramsInv => CountsAgree
  <2>. SUFFICES ASSUME Tallied, LoopTypes
                PROVE  CountsAgree
    BY DEF ProgramsInv, LoopInv
  <2>1. count["crs"] \in Nat
    BY DEF LoopTypes, Counters
  <2>2. loop \in {"simple", "printtrace"} =>
          count["crs"] - Named({"cr"}) \in {0, IF at = "eof" THEN 1 ELSE 0}
    <3>1. CASE at = "eof"
      BY <3>1 DEF Tallied
    <3>2. CASE at # "eof"
      BY <2>1, <3>2 DEF Tallied
    <3>. QED
      BY <3>1, <3>2
  <2>. QED
    BY <2>2 DEF Tallied, CountsAgree, Named
<1>. QED
  BY <1>1, ProgramsInvariant, PTL


\* A process in its loop is the one the program has it for.
LEMMA LooperIs ==
  ASSUME StartInv, NEW r \in Procs, InLoop(r)
  PROVE  /\ r = Looper /\ Looper \in Procs /\ pc[Looper] = "loop"
         /\ Role(r) \in {"simple", "coordinator"} => Translates
         /\ Role(r) # "gem" => "loop" \in MappingRead[program]
<1>1. program \in {"simple", "gem", "printtrace", "tests", "distributed"}
  BY ProgramsAre DEF StartInv
<1>2. CASE program = "distributed"
  <2>1. r = Looper
    BY <1>2 DEF StartInv, Located, InLoop, Looper
  <2>2. Translates /\ "loop" \in MappingRead[program]
    BY <1>2 DEF Translates, loop, MappingRead
  <2>. QED
    BY <2>1, <2>2 DEF InLoop
<1>3. CASE program # "distributed"
  <2>1. r = 0 /\ r = Looper /\ Role(r) = program /\ pc[0] = "loop"
    BY <1>3 DEF Procs, Looper, Role, InLoop
  <2>2. program # "tests"
    BY <1>3, <2>1 DEF StartInv, Located, Places
  <2>3. program \in {"simple", "printtrace"} => "loop" \in MappingRead[program]
    BY DEF MappingRead
  <2>4. program = "simple" => Translates
    BY DEF Translates, loop
  <2>. QED
    BY <1>1, <1>3, <2>1, <2>2, <2>3, <2>4
<1>. QED
  BY <1>2, <1>3

\* The mapping has the id of the last entry of a name.
LEMMA LastEntryCounts ==
  ASSUME files \in Inputs, NEW i \in DOMAIN files.mapping, files.mapping[i].name \in Names
  PROVE  \/ Content.mapping[files.mapping[i].name] = files.mapping[i].id % IdMask
         \/ \E j \in i + 1 .. Len(files.mapping) : files.mapping[j].name = files.mapping[i].name
<1>1. PICK entries : entries = files.mapping
  OBVIOUS
<1>2. PICK n \in Nat : n = Len(entries) /\ DOMAIN entries = 1 .. n
  <2>1. entries \in Seq([id : Nat, name : STRING])
    BY <1>1, InputsAssumption
  <2>. QED
    BY <2>1
<1>3. PICK name \in Names : name = entries[i].name
  BY <1>1
<1>4. PICK named : named = {j \in DOMAIN entries : entries[j].name = name}
  OBVIOUS
<1>5. named \in SUBSET (1 .. n) /\ i \in named
  BY <1>1, <1>2, <1>3, <1>4
<1>6. PICK m \in named : \A j \in named : j <= m
  BY <1>5, MaxIs
<1>7. PICK c \in named : c = (CHOOSE k \in named : \A j \in named : j <= k) /\ \A j \in named : j <= c
  BY <1>6
<1>8. Content.mapping[name] = entries[c].id % IdMask
  <2>1. Content.mapping = ReadMapping(entries)
    BY <1>1, ContentIs
  <2>2. ReadMapping(entries)[name] = IF named = {} THEN None ELSE entries[c].id % IdMask
    BY <1>4, <1>7 DEF ReadMapping
  <2>. QED
    BY <1>5, <2>1, <2>2
<1>9. c = i \/ c \in i + 1 .. n
  BY <1>5, <1>7
<1>10. c # i => c \in i + 1 .. Len(files.mapping) /\ files.mapping[c].name = files.mapping[i].name
  BY <1>1, <1>2, <1>3, <1>4, <1>9
<1>. QED
  BY <1>1, <1>3, <1>8, <1>10

\* A program in its loop has what its files say, in whatever order the messages came: the
\* memories, the mapping, and the registers, from the first Processors entries of their file,
\* which then the events change; of a file with fewer entries, the registers of the last
\* processor it lists are left out (input_reader.c 19-112, coordinator.c 29-58, 147-202 and
\* 280, simple/simulator.c 278-385 and 449, control_registers.c 32-43).
THEOREM InputsAlwaysArrive == Spec => []InputsArrive
<1>1. ProgramsInv => InputsArrive
  <2>. SUFFICES ASSUME ProgramsInv, NEW r \in Procs, InLoop(r)
                PROVE  /\ Role(r) \in {"simple", "coordinator"} =>
                            /\ Len(memories) = Len(files.ranges)
                            /\ \A i \in DOMAIN memories :
                                 memories[i] = files.ranges[Len(memories) + 1 - i]
                            /\ RegistersExist =>
                                 \A p \in SpelledOut : \A k \in 0 .. Registers - 1 :
                                   registers[p * Registers + k] =
                                     IF SetsOf(p, k) # {} THEN handed[Max(SetsOf(p, k))].what[2]
                                     ELSE FileValue(p, k)
                       /\ Role(r) # "gem" =>
                            \A i \in DOMAIN files.mapping :
                              files.mapping[i].name \in Names =>
                                \/ mapping[files.mapping[i].name] = files.mapping[i].id % IdMask
                                \/ \E j \in i + 1 .. Len(files.mapping) :
                                     files.mapping[j].name = files.mapping[i].name
    BY DEF InputsArrive
  <2>1. StartInv /\ RegistersHold /\ files \in Inputs
    BY DEF ProgramsInv, LoopInv, StartInv, Located
  <2>2. /\ Looper \in Procs /\ pc[Looper] = "loop"
        /\ Role(r) \in {"simple", "coordinator"} => Translates
        /\ Role(r) # "gem" => "loop" \in MappingRead[program]
    BY <2>1, LooperIs
  <2>3. ASSUME Translates
        PROVE  /\ Len(memories) = Len(files.ranges)
               /\ \A i \in DOMAIN memories : memories[i] = files.ranges[Len(memories) + 1 - i]
    <3>1. ranges = Content.ranges /\ Len(memories) = Len(ranges)
      BY <2>1, <2>2, <2>3 DEF StartInv, Progress
    <3>2. /\ Content.ranges \in Seq(MemoryRange) /\ Len(Content.ranges) = Len(files.ranges)
          /\ \A i \in DOMAIN Content.ranges :
               Content.ranges[i] = files.ranges[Len(files.ranges) + 1 - i]
      BY <2>1, ContentTypes
    <3>3. memories \in Seq(PagedMemory) /\ \A i \in DOMAIN memories : memories[i] = ranges[i]
      BY <2>1 DEF StartInv, Mapped
    <3>4. DOMAIN memories = DOMAIN Content.ranges
      BY <3>1, <3>2, <3>3
    <3>. QED
      BY <3>1, <3>2, <3>3, <3>4
  <2>4. ASSUME Translates, RegistersExist, NEW p \in SpelledOut, NEW k \in 0 .. Registers - 1
        PROVE  registers[p * Registers + k] =
                 IF SetsOf(p, k) # {} THEN handed[Max(SetsOf(p, k))].what[2]
                 ELSE FileValue(p, k)
    BY <2>1, <2>2, <2>4 DEF RegistersHold
  <2>5. ASSUME "loop" \in MappingRead[program], NEW i \in DOMAIN files.mapping,
               files.mapping[i].name \in Names
        PROVE  \/ mapping[files.mapping[i].name] = files.mapping[i].id % IdMask
               \/ \E j \in i + 1 .. Len(files.mapping) : files.mapping[j].name = files.mapping[i].name
    <3>1. mapping = Content.mapping
      BY <2>1, <2>2, <2>5 DEF StartInv, Progress
    <3>. QED
      BY <2>1, <2>5, <3>1, LastEntryCounts
  <2>. QED
    BY <2>2, <2>3, <2>4, <2>5
<1>. QED
  BY <1>1, ProgramsInvariant, PTL

--------------------------------------------------------------------------------
(* What is in the trace: the inductive invariant. *)

\* The events the writer of this trace may append.
WriterEvents == IF loop = "gem" THEN GemEvents ELSE Events

\* The time before event number i of those written.
TimeBefore(i) == IF i = 1 THEN 0 ELSE expected[i - 1].time

\* The writer has written evs, event i up to byte q[i] of all that it ever wrote.
Wrote(evs, q) ==
  /\ \A i \in 1 .. Len(expected) :
       /\ evs[i] \in WriterEvents
       /\ q[i] = q[i - 1] + Len(Encoded(evs[i]))
       /\ expected[i] = Meaning(TimeBefore(i), evs[i])
  /\ \A i \in 0 .. Len(expected) : q[i] \in Nat /\ \A j \in 0 .. i : q[j] <= q[i]

\* The trace has the events that were not handled, and then it ends, or has a part of one.
Left(evs, q) ==
  LET h == Len(handed)
      n == Len(expected)
  IN  /\ \A i \in h + 1 .. n : Begins(q[i - 1] - q[h], Encoded(evs[i]))
      /\ \/ Len(trace) = q[n] - q[h]
         \/ /\ closed
            /\ \E e \in WriterEvents :
                 /\ q[n] - q[h] < Len(trace) /\ Len(trace) < (q[n] - q[h]) + Len(Encoded(e))
                 /\ Begins(q[n] - q[h], Encoded(e))
      /\ ~closed => clock = TimeBefore(n + 1)

\* What was handled is the first part of what was written, at the end of a file all of it,
\* and the loop is at the time of its last event.
HandledInOrder ==
  /\ IsSeq(expected) /\ Len(handed) <= Len(expected)
  /\ \A i \in 1 .. Len(handed) : handed[i] = expected[i]
  /\ at = "eof" => closed /\ Len(handed) = Len(expected)
  /\ at \in {"next", "translated"} => time = TimeBefore(Len(handed) + 1)

DecodeInv == HandledInOrder /\ \E evs, q : Wrote(evs, q) /\ Left(evs, q)

--------------------------------------------------------------------------------
(* The events the writer has written. *)

LEMMA SameWriter ==
  ASSUME UNCHANGED <<program, world, files>>
  PROVE  /\ WriterEvents' = WriterEvents /\ loop' = loop
         /\ \A e : Encoded(e)' = Encoded(e)
         /\ \A c, e : Meaning(c, e)' = Meaning(c, e)
<1>1. loop' = loop /\ files' = files
  BY SameFiles
<1>2. \A e : Encoded(e)' = Encoded(e)
  BY <1>1 DEF Encoded, Id
<1>3. \A c, e : Meaning(c, e)' = Meaning(c, e)
  BY <1>1 DEF Meaning
<1>. QED
  BY <1>1, <1>2, <1>3 DEF WriterEvents

\* A difference in time has at least two bytes.
LEMMA DeltaLong ==
  ASSUME NEW d \in Nat
  PROVE  DeltaBytes(d) \in Seq(Byte) /\ Len(DeltaBytes(d)) >= 2
<1>1. WordBytes \in Nat /\ WordBytes - 1 \in Nat /\ WordBytes >= 2
  BY LoopAssumption
<1>2. PICK w \in Nat : w = Power(Base, WordBytes - 1)
  BY <1>1, PowerStep, BaseIs
<1>3. PICK long \in Nat : long = d + Half * w
  <2>1. Half * w \in Nat
    BY BaseIs
  <2>. QED
    BY <2>1
<1>4. /\ Bytes(d, 2) \in Seq(Byte) /\ Len(Bytes(d, 2)) = 2
      /\ Bytes(long, WordBytes) \in Seq(Byte) /\ Len(Bytes(long, WordBytes)) = WordBytes
  BY <1>1, BytesAre
<1>5. Len(Reverse(Bytes(d, 2))) = 2 /\ Len(Reverse(Bytes(long, WordBytes))) = WordBytes
  BY <1>4, ReverseIs
<1>6. DeltaBytes(d) \in {Reverse(Bytes(d, 2)), Reverse(Bytes(long, WordBytes))}
  BY <1>2, <1>3 DEF DeltaBytes
<1>7. Len(DeltaBytes(d)) >= 2
  BY <1>1, <1>5, <1>6
<1>. QED
  BY <1>7, DeltaBytesAre

\* An event has at least three bytes.
LEMMA EncodedLong ==
  ASSUME files \in Inputs, NEW e \in WriterEvents
  PROVE  Encoded(e) \in Seq(Byte) /\ Len(Encoded(e)) \in Nat /\ Len(Encoded(e)) >= 3
<1>1. Encoded(e) \in Seq(Byte)
  BY EncodedIs DEF WriterEvents
<1>2. Len(Encoded(e)) \in Nat
  BY <1>1
<1>3. CASE loop = "gem"
  <2>1. e.tick \in 0 .. Modulus - 1 /\ e.addr \in 0 .. Modulus - 1 /\ e \in GemEvents
    BY <1>3, EventsAssumption DEF WriterEvents
  <2>2. e.tick \in Nat /\ e.addr \in Nat
    <3>1. \A x, m : x \in 0 .. m => x \in Nat
      OBVIOUS
    <3>. QED
      BY <2>1, <3>1, Zenon
  <2>3. WordBytes \in Nat /\ WordBytes >= 2
    BY LoopAssumption
  <2>4. PICK a : a = Bytes(e.tick, WordBytes) /\ a \in Seq(Byte) /\ Len(a) = WordBytes
    BY <2>2, <2>3, BytesAre
  <2>5. PICK b : b = Bytes(e.addr, WordBytes) /\ b \in Seq(Byte) /\ Len(b) = WordBytes
    BY <2>2, <2>3, BytesAre
  <2>6. PICK g, u : g = GemType[e.type] /\ u = e.cpu
    OBVIOUS
  <2>7. PICK S : S = Byte \cup {g, u}
    OBVIOUS
  <2>8. PICK c : c = <<g, u>> /\ c \in Seq(S) /\ Len(c) = 2
    <3>1. g \in S /\ u \in S
      BY <2>7
    <3>2. <<g, u>> \in Seq(S) /\ Len(<<g, u>>) = 2
      BY <3>1
    <3>. QED
      BY <3>2
  <2>9. a \in Seq(S) /\ b \in Seq(S)
    BY <2>4, <2>5, <2>7
  <2>10. PICK ab : ab = a \o b
    OBVIOUS
  <2>11. ab \in Seq(S) /\ Len(ab) = WordBytes + WordBytes
    <3>1. a \o b \in Seq(S)
      BY <2>9, Joined
    <3>2. Len(a \o b) = Len(a) + Len(b)
      BY <2>9
    <3>. QED
      BY <2>4, <2>5, <2>10, <3>1, <3>2
  <2>12. Len(ab \o c) = (WordBytes + WordBytes) + 2
    BY <2>8, <2>11, ConcatProperties
  <2>13. Encoded(e) = ab \o c
    BY <1>3, <2>4, <2>5, <2>6, <2>8, <2>10 DEF Encoded
  <2>. QED
    BY <1>1, <1>2, <2>3, <2>12, <2>13
<1>4. CASE loop # "gem"
  <2>1. e \in Events
    BY <1>4 DEF WriterEvents
  <2>2. e.delta \in Nat
    BY <2>1, EventsAre DEF EventIs
  <2>3. PICK p : p = DeltaBytes(e.delta) /\ p \in Seq(Byte) /\ Len(p) >= 2
    BY <2>2, DeltaLong
  <2>4. PICK r : r = Payload(e) /\ r \in Seq(Byte)
    BY <2>1, PayloadIs
  <2>5. PICK x : x = Id(e.name) + IF e.negative THEN Half ELSE 0
    OBVIOUS
  <2>6. PICK S : S = Byte \cup {x}
    OBVIOUS
  <2>7. PICK c : c = <<x>> /\ c \in Seq(S) /\ Len(c) = 1
    <3>1. x \in S
      BY <2>6
    <3>2. <<x>> \in Seq(S) /\ Len(<<x>>) = 1
      BY <3>1
    <3>. QED
      BY <3>2
  <2>8. p \in Seq(S) /\ r \in Seq(S) /\ Len(p) \in Nat /\ Len(r) \in Nat
    BY <2>3, <2>4, <2>6
  <2>9. PICK f : f = p \o c
    OBVIOUS
  <2>10. f \in Seq(S) /\ Len(f) = Len(p) + 1
    BY <2>7, <2>8, <2>9, ConcatProperties
  <2>11. Len(f \o r) = (Len(p) + 1) + Len(r)
    <3>1. Len(f \o r) = Len(f) + Len(r)
      BY <2>8, <2>10, ConcatProperties, ZenonT(30)
    <3>. QED
      BY <2>10, <3>1
  <2>12. Encoded(e) = f \o r
    BY <1>4, <2>3, <2>4, <2>5, <2>7, <2>9 DEF Encoded
  <2>. QED
    BY <1>1, <1>2, <2>3, <2>8, <2>11, <2>12
<1>. QED
  BY <1>3, <1>4

\* The loop has been reached with the mapping that was read.
LEMMA MappingHere ==
  ASSUME Reached
  PROVE  /\ files \in Inputs /\ trace \in Seq(Byte) /\ time \in Int
         /\ loop # "gem" => mapping = Content.mapping
<1>1. StartInv /\ LoopInv /\ Looper \in Procs /\ pc[Looper] = "loop"
  BY DEF Reached, Busy, Looping, InLoop
<1>2. files \in Inputs
  BY <1>1 DEF StartInv, Located
<1>3. trace \in Seq(Byte) /\ time \in 0 .. Modulus - 1
  BY <1>1 DEF LoopInv, LoopTypes, Byte
<1>4. time \in Int
  <2>1. \A x, m : x \in 0 .. m => x \in Int
    OBVIOUS
  <2>. QED
    BY <1>3, <2>1, Zenon
<1>5. loop # "gem" => "loop" \in MappingRead[program]
  <2>1. loop \in {"simple", "printtrace", "coordinator", "gem"}
    BY LoopsAre
  <2>2. program \in {"simple", "gem", "printtrace", "tests", "distributed"}
    BY <1>1, ProgramsAre DEF StartInv
  <2>. QED
    BY <2>1, <2>2 DEF loop, MappingRead
<1>6. loop # "gem" => mapping = Content.mapping
  BY <1>1, <1>5 DEF StartInv, Progress
<1>. QED
  BY <1>2, <1>3, <1>4, <1>6

\* The event at the head of the trace, if there is one that was not handled; else there is
\* not a whole one.
HeadOf(evs, q) ==
  LET h == Len(handed)
      e == evs[h + 1]
  IN  /\ h < Len(expected) => /\ e \in WriterEvents /\ Begins(0, Encoded(e))
                              /\ Len(Encoded(e)) <= Len(trace) /\ trace # <<>>
                              /\ q[h + 1] = q[h] + Len(Encoded(e))
                              /\ expected[h + 1] = Meaning(TimeBefore(h + 1), e)
      /\ h >= Len(expected) =>
           \/ Len(trace) = 0
           \/ \E c \in WriterEvents : Begins(0, Encoded(c)) /\ Len(trace) < Len(Encoded(c))

LEMMA HeadIs ==
  ASSUME trace \in Seq(Byte), files \in Inputs, IsSeq(expected), Len(handed) \in Nat,
         Len(handed) <= Len(expected), NEW evs, NEW q, Wrote(evs, q), Left(evs, q)
  PROVE  HeadOf(evs, q)
<1>1. PICK h \in Nat, n \in Nat : h = Len(handed) /\ n = Len(expected) /\ h <= n
  BY DEF IsSeq
<1>2. /\ q[h] \in Nat /\ q[n] \in Nat
      /\ h < n => q[h + 1] \in Nat /\ q[h + 1] <= q[n]
  BY <1>1 DEF Wrote
<1>3. PICK l \in Nat : l = Len(trace)
  OBVIOUS
<1>4. l >= q[n] - q[h]
  BY <1>1, <1>2, <1>3 DEF Left
<1>5. ASSUME h < n
      PROVE  /\ evs[h + 1] \in WriterEvents /\ Begins(0, Encoded(evs[h + 1]))
             /\ Len(Encoded(evs[h + 1])) <= l /\ trace # <<>>
             /\ q[h + 1] = q[h] + Len(Encoded(evs[h + 1]))
             /\ expected[h + 1] = Meaning(TimeBefore(h + 1), evs[h + 1])
  <2>1. h + 1 \in 1 .. n /\ (h + 1) - 1 = h /\ h + 1 \in h + 1 .. n
    BY <1>5
  <2>2. /\ evs[h + 1] \in WriterEvents
        /\ q[h + 1] = q[h] + Len(Encoded(evs[h + 1]))
        /\ expected[h + 1] = Meaning(TimeBefore(h + 1), evs[h + 1])
    BY <1>1, <2>1 DEF Wrote
  <2>3. PICK k \in Nat : k = Len(Encoded(evs[h + 1])) /\ k >= 3
    BY <2>2, EncodedLong, Zenon
  <2>4. k <= l /\ l # 0
    BY <1>2, <1>4, <1>5, <2>2, <2>3
  <2>5. Begins(q[h] - q[h], Encoded(evs[h + 1]))
    BY <1>1, <2>1 DEF Left
  <2>6. q[h] - q[h] = 0
    BY <1>2
  <2>7. trace # <<>>
    BY <1>3, <2>4
  <2>. QED
    BY <2>2, <2>3, <2>4, <2>5, <2>6, <2>7
<1>6. ASSUME h >= n
      PROVE  l = 0 \/ \E c \in WriterEvents : Begins(0, Encoded(c)) /\ l < Len(Encoded(c))
  <2>1. h = n
    BY <1>1, <1>6
  <2>2. q[n] - q[h] = 0
    BY <1>2, <2>1
  <2>3. \/ l = q[n] - q[h]
        \/ \E c \in WriterEvents : /\ l < (q[n] - q[h]) + Len(Encoded(c))
                                   /\ Begins(q[n] - q[h], Encoded(c))
    BY <1>1, <1>3 DEF Left
  <2>4. CASE l = q[n] - q[h]
    BY <2>2, <2>4
  <2>5. ASSUME NEW c \in WriterEvents, l < (q[n] - q[h]) + Len(Encoded(c)),
               Begins(q[n] - q[h], Encoded(c))
        PROVE  Begins(0, Encoded(c)) /\ l < Len(Encoded(c))
    <3>1. PICK k \in Nat : k = Len(Encoded(c))
      BY EncodedLong
    <3>2. l < 0 + k /\ Begins(0, Encoded(c))
      BY <2>2, <2>5, <3>1
    <3>. QED
      BY <3>1, <3>2
  <2>. QED
    BY <2>3, <2>4, <2>5
<1>. QED
  BY <1>1, <1>3, <1>5, <1>6 DEF HeadOf

--------------------------------------------------------------------------------
(* The trace becomes shorter or longer. *)

\* Its first bytes are taken.
LEMMA BeginsShifted ==
  ASSUME trace \in Seq(Byte), NEW k \in Nat, k <= Len(trace),
         trace' = SubSeq(trace, k + 1, Len(trace)),
         NEW from \in Nat, k <= from, NEW c \in Seq(Byte), Begins(from, c)
  PROVE  Begins(from - k, c)'
<1>1. PICK n \in Nat : n = Len(trace)
  OBVIOUS
<1>2. PICK t : t = trace /\ t \in Seq(Byte) /\ Len(t) = n
  BY <1>1
<1>3. PICK s : s = SubSeq(t, k + 1, n) /\ s = trace'
  BY <1>1, <1>2
<1>4. Len(s) = n - k /\ \A i \in 1 .. n - k : s[i] = t[i + k]
  <2>1. k + 1 \in 1 .. n + 1 /\ n \in k .. n
    BY <1>1
  <2>. QED
    BY SMTT(30), <1>1, <1>2, <1>3, <2>1
<1>5. ASSUME NEW j \in 1 .. Len(c), (from - k) + j <= Len(s)
      PROVE  s[(from - k) + j] = c[j]
  <2>1. (from - k) + j \in 1 .. n - k /\ ((from - k) + j) + k = from + j /\ from + j <= n
    BY <1>4, <1>5
  <2>2. s[(from - k) + j] = t[from + j]
    BY <1>4, <2>1
  <2>3. t[from + j] = c[j]
    BY <1>1, <1>2, <1>5, <2>1 DEF Begins
  <2>. QED
    BY <2>2, <2>3
<1>. QED
  BY <1>3, <1>5 DEF Begins

\* Bytes are written behind it.
LEMMA BeginsOn ==
  ASSUME trace \in Seq(Byte), NEW s \in Seq(Byte), trace' = trace \o s,
         NEW from \in Nat, NEW c \in Seq(Byte), from + Len(c) <= Len(trace), Begins(from, c)
  PROVE  Begins(from, c)'
<1>1. PICK t : t = trace /\ t \in Seq(Byte)
  OBVIOUS
<1>2. PICK f : f = t \o s /\ f = trace'
  BY <1>1
<1>3. \A i \in 1 .. Len(t) : f[i] = t[i]
  BY <1>1, <1>2
<1>4. ASSUME NEW j \in 1 .. Len(c)
      PROVE  f[from + j] = c[j]
  <2>1. from + j \in 1 .. Len(t) /\ from + j <= Len(trace)
    BY <1>1
  <2>2. trace[from + j] = c[j]
    BY <2>1 DEF Begins
  <2>. QED
    BY <1>1, <1>3, <2>1, <2>2
<1>. QED
  BY <1>2, <1>4 DEF Begins

LEMMA BeginsBehind ==
  ASSUME trace \in Seq(Byte), NEW s \in Seq(Byte), trace' = trace \o s
  PROVE  /\ Len(trace') = Len(trace) + Len(s)
         /\ \A from : from = Len(trace) => Begins(from, s)'
<1>1. PICK t : t = trace /\ t \in Seq(Byte)
  OBVIOUS
<1>2. PICK f : f = t \o s /\ f = trace'
  BY <1>1
<1>3. Len(f) = Len(t) + Len(s)
  BY <1>1, <1>2
<1>4. \A j \in 1 .. Len(s) : f[Len(t) + j] = s[j]
  BY <1>1, <1>2
<1>5. ASSUME NEW from, from = Len(trace)
      PROVE  Begins(from, s)'
  <2>1. from = Len(t)
    BY <1>1, <1>5
  <2>2. \A j \in 1 .. Len(s) : f[from + j] = s[j]
    BY <1>4, <2>1
  <2>. QED
    BY <1>2, <2>2 DEF Begins
<1>. QED
  BY <1>1, <1>2, <1>3, <1>5

\* Its last bytes are left off.
LEMMA BeginsCut ==
  ASSUME trace \in Seq(Byte), NEW m \in Nat, m <= Len(trace), trace' = SubSeq(trace, 1, m),
         NEW from \in Nat, NEW c \in Seq(Byte), Begins(from, c)
  PROVE  Begins(from, c)'
<1>1. PICK t : t = trace /\ t \in Seq(Byte) /\ m <= Len(t)
  OBVIOUS
<1>2. PICK f : f = SubSeq(t, 1, m) /\ f = trace'
  BY <1>1
<1>3. Len(f) = m /\ \A i \in 1 .. m : f[i] = t[i]
  BY <1>1, <1>2
<1>4. ASSUME NEW j \in 1 .. Len(c), from + j <= m
      PROVE  f[from + j] = c[j]
  <2>1. from + j \in 1 .. m /\ from + j <= Len(trace)
    BY <1>1, <1>4
  <2>2. trace[from + j] = c[j]
    BY <2>1 DEF Begins
  <2>. QED
    BY <1>1, <1>3, <2>1, <2>2
<1>. QED
  BY <1>2, <1>3, <1>4 DEF Begins

--------------------------------------------------------------------------------
(* The trace after the other steps. *)

LEMMA WroteStays ==
  ASSUME UNCHANGED <<program, world, files, expected>>, NEW evs, NEW q, Wrote(evs, q)
  PROVE  Wrote(evs, q)'
<1>1. /\ WriterEvents' = WriterEvents /\ \A e : Encoded(e)' = Encoded(e)
      /\ \A c, e : Meaning(c, e)' = Meaning(c, e)
  BY SameWriter
<1>2. \A i : TimeBefore(i)' = TimeBefore(i)
  BY DEF TimeBefore
<1>. QED
  BY <1>1, <1>2 DEF Wrote

LEMMA DecodingStays ==
  ASSUME DecodeInv, UNCHANGED <<program, world, files, trace, closed, expected, clock, handed>>,
         at' = "eof" => closed /\ Len(handed) = Len(expected),
         at' \in {"next", "translated"} => time' = TimeBefore(Len(handed) + 1)
  PROVE  DecodeInv'
<1>1. /\ WriterEvents' = WriterEvents /\ \A e : Encoded(e)' = Encoded(e)
      /\ \A c, e : Meaning(c, e)' = Meaning(c, e)
  BY SameWriter
<1>2. \A i : TimeBefore(i)' = TimeBefore(i)
  BY DEF TimeBefore
<1>3. PICK evs, q : Wrote(evs, q) /\ Left(evs, q)
  BY DEF DecodeInv
<1>4. Wrote(evs, q)'
  BY <1>3, WroteStays
<1>5. \A from, c : Begins(from, c)' = Begins(from, c)
  BY DEF Begins
<1>6. Left(evs, q)'
  <2>1. \A i, j : Begins(q[i] - q[j], Encoded(evs[i + 1]))' = Begins(q[i] - q[j], Encoded(evs[i + 1]))
    BY <1>1 DEF Begins
  <2>. QED
    BY <1>1, <1>2, <1>3 DEF Left, Begins
<1>7. HandledInOrder'
  BY <1>2 DEF DecodeInv, HandledInOrder, IsSeq
<1>. QED
  BY <1>4, <1>6, <1>7 DEF DecodeInv

--------------------------------------------------------------------------------
(* The trace after a step of the writer. *)

\* What the lists of events and offsets say.
LEMMA OffsetsAre ==
  ASSUME files \in Inputs, NEW evs, NEW q, Wrote(evs, q), NEW n \in Nat, n = Len(expected)
  PROVE  /\ \A i \in 0 .. n : q[i] \in Nat
         /\ \A i \in 0 .. n : \A j \in 0 .. i : q[j] <= q[i]
         /\ \A i \in 1 .. n : /\ evs[i] \in WriterEvents /\ Encoded(evs[i]) \in Seq(Byte)
                              /\ Len(Encoded(evs[i])) \in Nat /\ Len(Encoded(evs[i])) >= 3
                              /\ i - 1 \in 0 .. n /\ q[i - 1] \in Nat
                              /\ q[i] = q[i - 1] + Len(Encoded(evs[i]))
<1>1. \A i \in 1 .. n : evs[i] \in WriterEvents /\ q[i] = q[i - 1] + Len(Encoded(evs[i]))
  BY DEF Wrote
<1>2. \A i \in 0 .. n : q[i] \in Nat /\ \A j \in 0 .. i : q[j] <= q[i]
  BY DEF Wrote
<1>3. \A i \in 1 .. n : i - 1 \in 0 .. n
  OBVIOUS
<1>4. \A i \in 1 .. n : /\ Encoded(evs[i]) \in Seq(Byte)
                        /\ Len(Encoded(evs[i])) \in Nat /\ Len(Encoded(evs[i])) >= 3
  BY <1>1, EncodedLong
<1>. QED
  BY <1>1, <1>2, <1>3, <1>4, Zenon

LEMMA AppendDecodes ==
  ASSUME DecodeInv, StartInv, LoopInv, AppendEvent, UNCHANGED startupVars
  PROVE  DecodeInv'
<1>1. /\ files \in Inputs /\ trace \in Seq(Byte) /\ ~closed /\ Len(handed) \in Nat
      /\ UNCHANGED <<program, world, files, closed, at, time, handed>>
  <2>1. Len(handed) \in Nat
    BY ElementsOf DEF LoopInv, EventsHandled, IsSeq
  <2>. QED
    BY <2>1 DEF StartInv, Located, LoopInv, LoopTypes, Byte, AppendEvent, WriterStep, startupVars
<1>2. PICK e \in WriterEvents :
        /\ trace' = trace \o Encoded(e) /\ clock' = Meaning(clock, e).time
        /\ expected' = Append(expected, Meaning(clock, e))
  BY DEF AppendEvent, WriterEvents
<1>3. PICK evs, q : Wrote(evs, q) /\ Left(evs, q)
  BY DEF DecodeInv
<1>4. PICK h \in Nat, n \in Nat : h = Len(handed) /\ n = Len(expected) /\ h <= n
  <2>1. Len(expected) \in Nat
    BY ElementsOf DEF DecodeInv, HandledInOrder, IsSeq
  <2>. QED
    BY <1>1, <2>1 DEF DecodeInv, HandledInOrder
<1>5. PICK b \in Seq(Byte), k \in Nat : b = Encoded(e) /\ k = Len(b)
  BY <1>1, EncodedLong
<1>6. PICK x : x = Meaning(clock, e)
  OBVIOUS
<1>7. /\ IsSeq(expected)' /\ Len(expected') = n + 1 /\ expected'[n + 1] = x
      /\ \A i \in 1 .. n : expected'[i] = expected[i]
  <2>1. PICK s, t : s = expected /\ t = expected'
    OBVIOUS
  <2>2. IsSeq(s) /\ t = Append(s, x)
    BY <1>2, <1>6, <2>1 DEF DecodeInv, HandledInOrder
  <2>3. IsSeq(t) /\ OneMore(s, x, t)
    BY <2>2, AppendIs, Zenon
  <2>. QED
    BY <1>4, <2>1, <2>3 DEF IsSeq, OneMore
<1>8. PICK evs2, q2 :
        /\ evs2 = [i \in 1 .. n + 1 |-> IF i = n + 1 THEN e ELSE evs[i]]
        /\ q2 = [i \in 0 .. n + 1 |-> IF i = n + 1 THEN q[n] + k ELSE q[i]]
  OBVIOUS
<1>9. /\ evs2[n + 1] = e /\ \A i \in 1 .. n : evs2[i] = evs[i]
      /\ q2[n + 1] = q[n] + k /\ \A i \in 0 .. n : q2[i] = q[i]
  BY <1>8
<1>10. /\ \A i \in 1 .. n + 1 : TimeBefore(i)' = TimeBefore(i)
       /\ TimeBefore(n + 1) = clock /\ TimeBefore(n + 2)' = clock'
  <2>1. \A i \in 1 .. n + 1 : i # 1 => i - 1 \in 1 .. n
    OBVIOUS
  <2>2. \A i \in 1 .. n + 1 : TimeBefore(i)' = TimeBefore(i)
    BY <1>7, <2>1 DEF TimeBefore
  <2>3. TimeBefore(n + 1) = clock
    BY <1>1, <1>3, <1>4 DEF Left
  <2>4. TimeBefore(n + 2)' = expected'[n + 1].time
    <3>1. n + 2 # 1 /\ (n + 2) - 1 = n + 1
      OBVIOUS
    <3>. QED
      BY <3>1 DEF TimeBefore
  <2>. QED
    BY <1>2, <1>6, <1>7, <2>2, <2>3, <2>4
<1>11. /\ \A i \in 0 .. n : q[i] \in Nat
       /\ \A i \in 0 .. n : \A j \in 0 .. i : q[j] <= q[i]
       /\ \A i \in 1 .. n : /\ evs[i] \in WriterEvents /\ Encoded(evs[i]) \in Seq(Byte)
                            /\ Len(Encoded(evs[i])) \in Nat /\ Len(Encoded(evs[i])) >= 3
                            /\ i - 1 \in 0 .. n /\ q[i - 1] \in Nat
                            /\ q[i] = q[i - 1] + Len(Encoded(evs[i]))
  BY <1>1, <1>3, <1>4, OffsetsAre
<1>12. /\ WriterEvents' = WriterEvents /\ \A c : Encoded(c)' = Encoded(c)
       /\ \A t, c : Meaning(t, c)' = Meaning(t, c)
  BY <1>1, SameWriter
<1>13. Wrote(evs2, q2)'
  <2>1. ASSUME NEW i \in 1 .. n + 1
        PROVE  /\ evs2[i] \in WriterEvents' /\ q2[i] = q2[i - 1] + Len(Encoded(evs2[i])')
               /\ expected'[i] = Meaning(TimeBefore(i), evs2[i])'
    <3>1. CASE i = n + 1
      <4>1. i - 1 = n /\ n \in 0 .. n
        BY <3>1
      <4>2. expected'[i] = Meaning(TimeBefore(n + 1), e)
        BY <1>6, <1>7, <1>10, <3>1
      <4>. QED
        BY <1>5, <1>9, <1>10, <1>12, <3>1, <4>1, <4>2
    <3>2. CASE i # n + 1
      <4>1. i \in 1 .. n /\ i - 1 \in 0 .. n /\ i \in 0 .. n
        BY <3>2
      <4>2. expected[i] = Meaning(TimeBefore(i), evs[i])
        BY <1>3, <1>4, <4>1 DEF Wrote
      <4>3. evs2[i] \in WriterEvents' /\ q2[i] = q2[i - 1] + Len(Encoded(evs2[i])')
        BY <1>9, <1>11, <1>12, <4>1
      <4>. QED
        BY <1>7, <1>9, <1>10, <1>12, <4>1, <4>2, <4>3
    <3>. QED
      BY <3>1, <3>2
  <2>2. ASSUME NEW i \in 0 .. n + 1
        PROVE  q2[i] \in Nat /\ \A j \in 0 .. i : q2[j] <= q2[i]
    <3>1. CASE i = n + 1
      <4>1. n \in 0 .. n /\ q[n] \in Nat
        BY <1>11
      <4>2. q2[i] \in Nat /\ q[n] <= q2[i]
        BY <1>9, <3>1, <4>1
      <4>3. \A j \in 0 .. n : q2[j] \in Nat /\ q2[j] <= q[n]
        BY <1>9, <1>11, <4>1
      <4>4. \A j \in 0 .. i : j \in 0 .. n \/ j = i
        BY <3>1
      <4>. QED
        BY <4>1, <4>2, <4>3, <4>4
    <3>2. CASE i # n + 1
      <4>1. i \in 0 .. n /\ \A j \in 0 .. i : j \in 0 .. n
        BY <3>2
      <4>. QED
        BY <1>9, <1>11, <4>1
    <3>. QED
      BY <3>1, <3>2
  <2>. QED
    BY <1>7, <2>1, <2>2 DEF Wrote
<1>14. Left(evs2, q2)'
  <2>1. q[n] \in Nat /\ q[h] \in Nat /\ q2[h] = q[h] /\ n \in 0 .. n /\ h \in 0 .. n
    BY <1>4, <1>9, <1>11
  <2>2. PICK l \in Nat : l = Len(trace) /\ l = q[n] - q[h]
    <3>1. Len(trace) \in Nat
      BY <1>1
    <3>. QED
      BY <1>1, <1>3, <1>4, <3>1 DEF Left
  <2>3. Len(trace') = l + k /\ Begins(l, b)'
    BY <1>1, <1>2, <1>5, <2>2, BeginsBehind
  <2>4. ASSUME NEW i \in h + 1 .. n + 1
        PROVE  Begins(q2[i - 1] - q2[h], Encoded(evs2[i]))'
    <3>1. CASE i = n + 1
      <4>1. i - 1 = n /\ q2[i - 1] - q2[h] = l
        BY <1>9, <2>1, <2>2, <3>1
      <4>2. Encoded(evs2[i])' = b
        BY <1>5, <1>9, <1>12, <3>1
      <4>. QED
        BY <2>3, <4>1, <4>2 DEF Begins
    <3>2. CASE i # n + 1
      <4>1. i \in 1 .. n /\ i \in h + 1 .. n /\ h \in 0 .. i - 1 /\ i \in 0 .. n
        BY <1>4, <3>2
      <4>2. PICK c \in Seq(Byte) : c = Encoded(evs[i])
        BY <1>11, <4>1
      <4>3. PICK from \in Nat : from = q[i - 1] - q[h]
        <5>1. q[i - 1] \in Nat /\ q[h] <= q[i - 1]
          BY <1>11, <4>1
        <5>. QED
          BY <2>1, <5>1
      <4>4. Begins(from, c)
        BY <1>3, <1>4, <4>1, <4>2, <4>3 DEF Left
      <4>5. from + Len(c) <= Len(trace)
        <5>1. q[i] = q[i - 1] + Len(c) /\ q[i] <= q[n] /\ q[i] \in Nat /\ q[i - 1] \in Nat
          BY <1>11, <2>1, <4>1, <4>2
        <5>2. PICK m \in Nat : m = Len(c)
          OBVIOUS
        <5>3. PICK u \in Nat, v \in Nat, w \in Nat, z \in Nat :
                u = q[i - 1] /\ v = q[h] /\ w = q[i] /\ z = q[n]
          BY <2>1, <5>1
        <5>4. from = u - v /\ w = u + m /\ w <= z /\ l = z - v
          BY <2>2, <4>3, <5>1, <5>2, <5>3
        <5>5. from + m <= l
          BY <5>4
        <5>. QED
          BY <2>2, <5>2, <5>5
      <4>6. Begins(from, c)'
        BY <1>1, <1>2, <1>5, <4>4, <4>5, BeginsOn
      <4>7. q2[i - 1] - q2[h] = from /\ Encoded(evs2[i])' = c
        BY <1>9, <1>11, <1>12, <2>1, <4>1, <4>2, <4>3
      <4>. QED
        BY <4>6, <4>7 DEF Begins
    <3>. QED
      BY <3>1, <3>2
  <2>5. Len(trace') = q2[n + 1] - q2[h]
    BY <1>9, <2>1, <2>2, <2>3
  <2>6. clock' = TimeBefore((n + 1) + 1)'
    <3>1. (n + 1) + 1 = n + 2
      OBVIOUS
    <3>. QED
      BY <1>10, <3>1
  <2>7. Len(handed)' = h /\ Len(expected)' = n + 1
    BY <1>1, <1>4, <1>7
  <2>. QED
    BY <2>4, <2>5, <2>6, <2>7 DEF Left
<1>15. HandledInOrder'
  <2>1. Len(handed') = h /\ Len(expected') = n + 1 /\ h <= n + 1
    BY <1>1, <1>4, <1>7
  <2>2. \A i \in 1 .. h : handed'[i] = expected'[i]
    <3>1. \A i \in 1 .. h : i \in 1 .. n /\ handed[i] = expected[i]
      BY <1>4 DEF DecodeInv, HandledInOrder
    <3>. QED
      BY <1>1, <1>7, <3>1
  <2>3. at' # "eof"
    BY <1>1 DEF DecodeInv, HandledInOrder
  <2>4. at' \in {"next", "translated"} => time' = TimeBefore(h + 1)'
    <3>1. h + 1 \in 1 .. n + 1
      BY <1>4
    <3>. QED
      BY <1>1, <1>4, <1>10, <3>1 DEF DecodeInv, HandledInOrder
  <2>. QED
    BY <1>7, <2>1, <2>2, <2>3, <2>4 DEF HandledInOrder
<1>. QED
  BY <1>13, <1>14, <1>15 DEF DecodeInv

LEMMA CloseDecodes ==
  ASSUME DecodeInv, StartInv, LoopInv, CloseTrace, UNCHANGED startupVars
  PROVE  DecodeInv'
<1>1. /\ files \in Inputs /\ trace \in Seq(Byte) /\ ~closed /\ closed' /\ Len(handed) \in Nat
      /\ UNCHANGED <<program, world, files, clock, at, time, handed>>
  <2>1. Len(handed) \in Nat
    BY ElementsOf DEF LoopInv, EventsHandled, IsSeq
  <2>. QED
    BY <2>1 DEF StartInv, Located, LoopInv, LoopTypes, Byte, CloseTrace, WriterStep, startupVars
<1>2. PICK cut \in {0, 1, 2} :
        /\ cut > 0 => Len(trace) > cut
        /\ trace' = SubSeq(trace, 1, Len(trace) - cut)
        /\ expected' = IF cut = 0 THEN expected ELSE Front(expected)
  BY DEF CloseTrace
<1>3. PICK evs, q : Wrote(evs, q) /\ Left(evs, q)
  BY DEF DecodeInv
<1>4. PICK h \in Nat, n \in Nat : h = Len(handed) /\ n = Len(expected) /\ h <= n
  <2>1. Len(expected) \in Nat
    BY ElementsOf DEF DecodeInv, HandledInOrder, IsSeq
  <2>. QED
    BY <1>1, <2>1 DEF DecodeInv, HandledInOrder
<1>5. /\ \A i \in 0 .. n : q[i] \in Nat
      /\ \A i \in 0 .. n : \A j \in 0 .. i : q[j] <= q[i]
      /\ \A i \in 1 .. n : /\ evs[i] \in WriterEvents /\ Encoded(evs[i]) \in Seq(Byte)
                           /\ Len(Encoded(evs[i])) \in Nat /\ Len(Encoded(evs[i])) >= 3
                           /\ i - 1 \in 0 .. n /\ q[i - 1] \in Nat
                           /\ q[i] = q[i - 1] + Len(Encoded(evs[i]))
  BY <1>1, <1>3, <1>4, OffsetsAre
<1>6. /\ WriterEvents' = WriterEvents /\ \A c : Encoded(c)' = Encoded(c)
      /\ \A t, c : Meaning(t, c)' = Meaning(t, c)
  BY <1>1, SameWriter
<1>7. q[n] \in Nat /\ q[h] \in Nat /\ n \in 0 .. n /\ h \in 0 .. n
  BY <1>4, <1>5
<1>8. PICK l \in Nat : l = Len(trace) /\ l = q[n] - q[h]
  <2>1. Len(trace) \in Nat
    BY <1>1
  <2>. QED
    BY <1>1, <1>3, <1>4, <2>1 DEF Left
\* The events that are complete, and what is behind them.
<1>9. PICK m \in Nat :
        /\ Len(expected') = m /\ h <= m /\ m <= n /\ IsSeq(expected)'
        /\ \A i \in 1 .. m : expected'[i] = expected[i]
        /\ m = IF cut = 0 THEN n ELSE n - 1
  <2>1. CASE cut = 0
    <3>1. expected' = expected
      BY <1>2, <2>1
    <3>. QED
      BY <1>4, <2>1, <3>1 DEF IsSeq, DecodeInv, HandledInOrder
  <2>2. CASE cut # 0
    <3>1. cut > 0 /\ l > 0
      BY <1>2, <1>8, <2>2
    <3>2. h < n
      BY <1>4, <1>7, <1>8, <3>1
    <3>3. PICK s, t : s = expected /\ t = expected'
      OBVIOUS
    <3>4. PICK S : S = Range(s) /\ s \in Seq(S) /\ Len(s) = n
      BY <1>4, <3>3 DEF DecodeInv, HandledInOrder, IsSeq
    <3>5. t = SubSeq(s, 1, n - 1)
      BY <1>2, <2>2, <3>3, <3>4 DEF Front
    <3>6. /\ t \in Seq(S) /\ Len(t) = n - 1
          /\ \A i \in 1 .. n - 1 : t[i] = s[i]
      BY <3>2, <3>4, <3>5
    <3>7. IsSeq(t)
      <4>1. DOMAIN t = 1 .. Len(t) /\ Len(t) \in Nat
        BY <3>6, ElementsOf
      <4>2. \A i \in 1 .. Len(t) : t[i] \in Range(t)
        BY <4>1 DEF Range
      <4>3. PICK k \in Nat : k = Len(t) /\ t \in [1 .. k -> S]
        BY <3>6, <4>1, LenProperties, Zenon
      <4>4. PICK R : R = Range(t) /\ \A i \in 1 .. k : t[i] \in R
        BY <4>2, <4>3
      <4>5. t \in [1 .. k -> R]
        BY <4>3, <4>4
      <4>6. [1 .. k -> R] \subseteq Seq(R)
        BY SeqDef, Zenon
      <4>. QED
        BY <4>4, <4>5, <4>6 DEF IsSeq
    <3>8. n - 1 \in Nat /\ h <= n - 1
      BY <1>4, <3>2
    <3>. QED
      BY <2>2, <3>3, <3>6, <3>7, <3>8 DEF IsSeq
  <2>. QED
    BY <2>1, <2>2
<1>10. \A i \in 1 .. m + 1 : TimeBefore(i)' = TimeBefore(i)
  <2>1. \A i \in 1 .. m + 1 : i # 1 => i - 1 \in 1 .. m
    OBVIOUS
  <2>. QED
    BY <1>9, <2>1 DEF TimeBefore
<1>11. PICK r \in Nat : r = l - cut /\ Len(trace') = r /\ trace' = SubSeq(trace, 1, r) /\ r <= Len(trace)
  <2>1. l - cut \in Nat /\ l - cut <= l
    BY <1>2, <1>8
  <2>2. PICK x \in Nat : x = l - cut /\ x <= l
    BY <2>1
  <2>3. PICK t : t = trace /\ t \in Seq(Byte) /\ Len(t) = l
    BY <1>1, <1>8
  <2>4. trace' = SubSeq(t, 1, x)
    BY <1>2, <1>8, <2>2, <2>3
  <2>5. Len(SubSeq(t, 1, x)) = x
    BY <2>2, <2>3
  <2>. QED
    BY <1>8, <2>2, <2>3, <2>4, <2>5
<1>12. ASSUME NEW i \in h + 1 .. n
       PROVE  Begins(q[i - 1] - q[h], Encoded(evs[i]))'
  <2>1. i \in 1 .. n /\ h \in 0 .. i - 1
    BY <1>4
  <2>2. PICK c \in Seq(Byte) : c = Encoded(evs[i])
    BY <1>5, <2>1
  <2>3. PICK from \in Nat : from = q[i - 1] - q[h]
    <3>1. q[i - 1] \in Nat /\ q[h] <= q[i - 1]
      BY <1>5, <2>1
    <3>. QED
      BY <1>7, <3>1
  <2>4. Begins(from, c)
    BY <1>3, <1>4, <2>2, <2>3 DEF Left
  <2>5. Begins(from, c)'
    BY <1>1, <1>11, <2>4, BeginsCut
  <2>. QED
    BY <1>6, <2>2, <2>3, <2>5 DEF Begins
<1>13. Wrote(evs, q)'
  <2>1. ASSUME NEW i \in 1 .. m
        PROVE  /\ evs[i] \in WriterEvents' /\ q[i] = q[i - 1] + Len(Encoded(evs[i])')
               /\ expected'[i] = Meaning(TimeBefore(i), evs[i])'
    <3>1. i \in 1 .. n /\ i \in 1 .. m + 1
      BY <1>9
    <3>2. expected[i] = Meaning(TimeBefore(i), evs[i])
      BY <1>3, <1>4, <3>1 DEF Wrote
    <3>. QED
      BY <1>5, <1>6, <1>9, <1>10, <3>1, <3>2
  <2>2. \A i \in 0 .. m : i \in 0 .. n
    BY <1>9
  <2>. QED
    BY <1>5, <1>9, <2>1, <2>2 DEF Wrote
<1>14. Left(evs, q)'
  <2>1. Len(handed)' = h /\ Len(expected)' = m /\ closed'
    BY <1>1, <1>4, <1>9
  <2>2. \A i \in h + 1 .. m : Begins(q[i - 1] - q[h], Encoded(evs[i]))'
    <3>1. \A i \in h + 1 .. m : i \in h + 1 .. n
      BY <1>9
    <3>. QED
      BY <1>12, <3>1
  <2>3. CASE cut = 0
    <3>1. m = n /\ r = l
      BY <1>9, <1>11, <2>3
    <3>2. Len(trace') = q[m] - q[h]
      BY <1>8, <1>11, <3>1
    <3>. QED
      BY <2>1, <2>2, <3>2 DEF Left
  <2>4. CASE cut # 0
    <3>1. m = n - 1 /\ n \in h + 1 .. n /\ n \in 1 .. n /\ h \in 0 .. m /\ m \in 0 .. n
      BY <1>4, <1>9, <2>4
    <3>2. PICK u \in Nat, v \in Nat, k \in Nat :
            u = q[m] /\ v = q[h] /\ k = Len(Encoded(evs[n])) /\ k >= 3 /\ q[n] = u + k
      BY <1>5, <1>7, <3>1
    <3>3. l = (u + k) - v /\ r = l - cut /\ cut \in {1, 2}
      BY <1>2, <1>8, <1>11, <2>4, <3>2
    <3>4. u - v < r /\ r < (u - v) + k
      <4>1. PICK y \in 1 .. 2 : r = l - y
        BY <3>3
      <4>2. r = ((u + k) - v) - y
        BY <3>3, <4>1
      <4>3. PICK z \in Int : z = u - v
        BY <3>2
      <4>4. r = z + (k - y) /\ k - y >= 1 /\ k - y < k /\ k - y \in Int
        <5>1. k >= 3
          BY <3>2
        <5>. QED
          BY <4>2, <4>3, <5>1
      <4>5. PICK x \in Int : x = k - y /\ r = z + x /\ x >= 1 /\ x < k
        BY <4>4
      <4>. QED
        BY <4>3, <4>5
    <3>5. Begins(q[m] - q[h], Encoded(evs[n]))'
      BY <1>12, <3>1
    <3>6. evs[n] \in WriterEvents' /\ Encoded(evs[n])' = Encoded(evs[n])
      BY <1>5, <1>6, <3>1
    <3>7. /\ q[m] - q[h] < Len(trace') /\ Len(trace') < (q[m] - q[h]) + Len(Encoded(evs[n])')
      BY <1>11, <3>2, <3>4, <3>6
    <3>. QED
      BY <2>1, <2>2, <3>5, <3>6, <3>7 DEF Left
  <2>. QED
    BY <2>3, <2>4
<1>15. HandledInOrder'
  <2>1. \A i \in 1 .. h : handed'[i] = expected'[i]
    <3>1. \A i \in 1 .. h : i \in 1 .. m /\ handed[i] = expected[i]
      BY <1>4, <1>9 DEF DecodeInv, HandledInOrder
    <3>. QED
      BY <1>1, <1>9, <3>1
  <2>2. at' # "eof"
    BY <1>1 DEF DecodeInv, HandledInOrder
  <2>3. at' \in {"next", "translated"} => time' = TimeBefore(h + 1)'
    <3>1. h + 1 \in 1 .. m + 1
      BY <1>9
    <3>. QED
      BY <1>1, <1>4, <1>10, <3>1 DEF DecodeInv, HandledInOrder
  <2>. QED
    BY <1>1, <1>4, <1>9, <2>1, <2>2, <2>3 DEF HandledInOrder
<1>. QED
  BY <1>13, <1>14, <1>15 DEF DecodeInv

--------------------------------------------------------------------------------
(* The trace after a step of the loop. *)

\* What is left of a sequence when its first elements are taken.
LEMMA WhatIsLeft ==
  ASSUME NEW S, NEW s \in Seq(S), NEW k \in 0 .. Len(s)
  PROVE  Len(SubSeq(s, k + 1, Len(s))) = Len(s) - k
<1>1. PICK n \in Nat : n = Len(s) /\ k \in 0 .. n
  OBVIOUS
<1>2. k + 1 \in 1 .. n + 1 /\ n \in k .. n
  BY <1>1
<1>. QED
  BY <1>1, <1>2

\* The event at the head of the trace has been handled.
LEMMA HandledDecodes ==
  ASSUME DecodeInv, Reached, NEW evs, NEW q, Wrote(evs, q), Left(evs, q), Running,
         Len(handed) < Len(expected),
         NEW x, x = expected[Len(handed) + 1], handed' = Append(handed, x), time' = x.time,
         NEW k \in Nat, k = Len(Encoded(evs[Len(handed) + 1])), k <= Len(trace),
         trace' = SubSeq(trace, k + 1, Len(trace)), UNCHANGED <<closed, expected, clock>>,
         at' # "eof"
  PROVE  DecodeInv'
<1>1. /\ files \in Inputs /\ trace \in Seq(Byte) /\ IsSeq(handed)
      /\ UNCHANGED <<program, world, files>>
  BY MappingHere DEF Reached, LoopInv, EventsHandled
<1>2. PICK h \in Nat, n \in Nat : h = Len(handed) /\ n = Len(expected) /\ h < n
  <2>1. Len(expected) \in Nat /\ Len(handed) \in Nat
    BY <1>1, ElementsOf DEF DecodeInv, HandledInOrder, IsSeq
  <2>. QED
    BY <2>1
<1>3. /\ \A i \in 0 .. n : q[i] \in Nat
      /\ \A i \in 0 .. n : \A j \in 0 .. i : q[j] <= q[i]
      /\ \A i \in 1 .. n : /\ evs[i] \in WriterEvents /\ Encoded(evs[i]) \in Seq(Byte)
                           /\ Len(Encoded(evs[i])) \in Nat /\ Len(Encoded(evs[i])) >= 3
                           /\ i - 1 \in 0 .. n /\ q[i - 1] \in Nat
                           /\ q[i] = q[i - 1] + Len(Encoded(evs[i]))
  BY <1>1, <1>2, OffsetsAre
<1>4. /\ WriterEvents' = WriterEvents /\ \A c : Encoded(c)' = Encoded(c)
      /\ \A t, c : Meaning(t, c)' = Meaning(t, c)
  BY <1>1, SameWriter
<1>5. \A i : TimeBefore(i)' = TimeBefore(i)
  BY DEF TimeBefore
<1>6. Wrote(evs, q)'
  BY <1>1, WroteStays
<1>7. /\ Len(handed') = h + 1 /\ handed'[h + 1] = expected[h + 1]
      /\ \A i \in 1 .. h : handed'[i] = handed[i]
  <2>1. PICK s, t : s = handed /\ t = handed'
    OBVIOUS
  <2>2. IsSeq(s) /\ t = Append(s, x)
    BY <1>1, <2>1
  <2>3. OneMore(s, x, t)
    BY <2>2, AppendIs, Zenon
  <2>. QED
    BY <1>2, <2>1, <2>3 DEF OneMore
<1>8. q[h] \in Nat /\ q[h + 1] = q[h] + k /\ q[n] \in Nat /\ q[h + 1] <= q[n]
  <2>1. h + 1 \in 1 .. n /\ (h + 1) - 1 = h /\ n \in 0 .. n /\ h + 1 \in 0 .. n
    BY <1>2
  <2>. QED
    BY <1>2, <1>3, <2>1
<1>9. Len(trace') = Len(trace) - k
  <2>1. PICK t \in Seq(Byte), l \in Nat : t = trace /\ l = Len(t) /\ k <= l
    BY <1>1
  <2>2. k \in 0 .. Len(t)
    BY <2>1
  <2>3. Len(SubSeq(t, k + 1, Len(t))) = Len(t) - k
    BY <2>2, WhatIsLeft
  <2>. QED
    BY <2>1, <2>3
<1>10. Left(evs, q)'
  <2> DEFINE Remains ==
        \/ Len(trace) = q[Len(expected)] - q[Len(handed)]
        \/ /\ closed
           /\ \E e \in WriterEvents :
                /\ q[Len(expected)] - q[Len(handed)] < Len(trace)
                /\ Len(trace) < (q[Len(expected)] - q[Len(handed)]) + Len(Encoded(e))
                /\ Begins(q[Len(expected)] - q[Len(handed)], Encoded(e))
  <2>1. \A i \in h + 2 .. n : Begins(q[i - 1] - q[h + 1], Encoded(evs[i]))'
    <3>1. ASSUME NEW i \in h + 2 .. n
          PROVE  Begins(q[i - 1] - q[h + 1], Encoded(evs[i]))'
      <4>1. i \in 1 .. n /\ i \in h + 1 .. n /\ h + 1 \in 0 .. i - 1
        BY <1>2
      <4>2. PICK c \in Seq(Byte) : c = Encoded(evs[i])
        BY <1>3, <4>1
      <4>3. PICK from \in Nat : from = q[i - 1] - q[h] /\ k <= from
        <5>1. q[i - 1] \in Nat /\ q[h + 1] <= q[i - 1]
          BY <1>3, <4>1
        <5>2. PICK u \in Nat, v \in Nat : u = q[i - 1] /\ v = q[h]
          BY <1>8, <5>1
        <5>3. v + k <= u
          BY <1>8, <5>1, <5>2
        <5>4. u - v \in Nat /\ k <= u - v
          BY <5>3
        <5>. QED
          BY <5>2, <5>4
      <4>4. Begins(from, c)
        BY <1>2, <4>1, <4>2, <4>3 DEF Left
      <4>5. Begins(from - k, c)'
        BY <1>1, <4>3, <4>4, BeginsShifted
      <4>6. q[i - 1] - q[h + 1] = from - k
        <5>1. PICK u \in Nat, v \in Nat, w \in Nat : u = q[i - 1] /\ v = q[h] /\ w = q[h + 1]
          <6>1. q[i - 1] \in Nat /\ q[h] \in Nat /\ q[h + 1] \in Nat
            <7>1. i - 1 \in 0 .. n /\ h + 1 \in 0 .. n
              BY <1>2, <4>1
            <7>2. q[i - 1] \in Nat /\ q[h + 1] \in Nat
              BY <1>3, <7>1, Zenon
            <7>. QED
              BY <1>8, <7>2
          <6>. QED
            BY <6>1
        <5>2. from = u - v /\ w = v + k
          BY <1>8, <4>3, <5>1
        <5>3. u - w = from - k
          BY <5>2
        <5>. QED
          BY <5>1, <5>3
      <4>. QED
        BY <1>4, <4>2, <4>5, <4>6 DEF Begins
    <3>. QED
      BY <3>1
  <2>2. Len(handed)' = h + 1 /\ Len(expected)' = n /\ (h + 1) + 1 = h + 2 /\ closed' = closed
    BY <1>2, <1>7
  <2>3. ASSUME Len(trace) = q[n] - q[h]  PROVE Remains'
    <3>1. Len(trace') = q[n] - q[h + 1]
      <4>1. PICK l \in Int, u \in Nat, v \in Nat, w \in Nat :
              l = Len(trace) /\ u = q[n] /\ v = q[h] /\ w = q[h + 1] /\ w = v + k
        BY <1>1, <1>8
      <4>2. w = v + k /\ l = u - v => l - k = u - w
        OBVIOUS
      <4>. QED
        BY <1>9, <2>3, <4>1, <4>2
    <3>. QED
      BY <2>2, <3>1
  <2>4. ASSUME closed, NEW e \in WriterEvents, q[n] - q[h] < Len(trace),
               Len(trace) < (q[n] - q[h]) + Len(Encoded(e)), Begins(q[n] - q[h], Encoded(e))
        PROVE  Remains'
    <3>1. PICK c \in Seq(Byte), m \in Nat : c = Encoded(e) /\ m = Len(c)
      BY <1>1, EncodedLong
    <3>2. PICK l \in Nat, u \in Nat, v \in Nat : l = Len(trace) /\ u = q[n] /\ v = q[h]
      <4>1. Len(trace) \in Nat
        BY <1>1
      <4>. QED
        BY <1>8, <4>1
    <3>3. v + k <= u /\ u - v < l /\ l < (u - v) + m
      BY <1>8, <2>4, <3>1, <3>2
    <3>4. PICK from \in Nat : from = u - v /\ k <= from
      BY <3>3
    <3>5. Begins(from - k, c)'
      <4>1. Begins(from, c)
        BY <2>4, <3>1, <3>2, <3>4
      <4>. QED
        BY <1>1, <3>4, <4>1, BeginsShifted
    <3>6. q[n] - q[h + 1] = from - k /\ Len(trace') = l - k
      <4>1. PICK w \in Nat : w = q[h + 1] /\ w = v + k
        BY <1>8, <3>2
      <4>2. u - w = from - k
        BY <3>4, <4>1
      <4>. QED
        BY <1>9, <3>2, <4>1, <4>2
    <3>7. from - k < l - k /\ l - k < (from - k) + m
      BY <3>3, <3>4
    <3>8. e \in WriterEvents' /\ Encoded(e)' = c
      BY <1>4, <3>1
    <3>9. Begins(q[n] - q[h + 1], Encoded(e))'
      BY <3>5, <3>6, <3>8 DEF Begins
    <3>10. /\ q[n] - q[h + 1] < Len(trace')
           /\ Len(trace') < (q[n] - q[h + 1]) + Len(Encoded(e)')
      BY <3>1, <3>6, <3>7, <3>8
    <3>11. Len(expected)' = n /\ Len(handed)' = h + 1 /\ closed'
      BY <2>2, <2>4
    <3>. QED
      BY <3>8, <3>9, <3>10, <3>11
  <2>5. Remains'
    BY <1>2, <2>3, <2>4 DEF Left
  <2>. QED
    BY <1>2, <1>5, <2>1, <2>2, <2>5 DEF Left
<1>11. HandledInOrder'
  <2>1. \A i \in 1 .. h + 1 : handed'[i] = expected[i]
    <3>1. \A i \in 1 .. h + 1 : i \in 1 .. h \/ i = h + 1
      OBVIOUS
    <3>2. \A i \in 1 .. h : handed[i] = expected[i]
      BY <1>2 DEF DecodeInv, HandledInOrder
    <3>. QED
      BY <1>7, <3>1, <3>2
  <2>2. time' = TimeBefore((h + 1) + 1)
    <3>1. (h + 1) + 1 # 1 /\ ((h + 1) + 1) - 1 = h + 1
      OBVIOUS
    <3>. QED
      BY <1>2, <3>1 DEF TimeBefore
  <2>3. IsSeq(expected)'
    BY DEF DecodeInv, HandledInOrder, IsSeq
  <2>. QED
    BY <1>2, <1>5, <1>7, <2>1, <2>2, <2>3 DEF HandledInOrder
<1>. QED
  BY <1>6, <1>10, <1>11 DEF DecodeInv

\* A loop over a file comes to its end when all has been handled.
LEMMA EndsDecode ==
  ASSUME Reached, DecodeInv, NoEvent \/ CutEvent \/ LimitReached \/ UnknownEvent
  PROVE  DecodeInv'
<1>1. /\ files \in Inputs /\ trace \in Seq(Byte) /\ time \in Int
      /\ loop # "gem" => mapping = Content.mapping
      /\ UNCHANGED <<program, world, files>>
  BY MappingHere DEF Reached
<1>2. PICK where \in {"eof", "stopped"} :
        Stop(where) /\ (where = "eof" => NoEvent \/ CutEvent)
  BY DEF NoEvent, CutEvent, LimitReached, UnknownEvent
<1>3. at' = where /\ UNCHANGED <<trace, closed, expected, clock, handed>>
  BY <1>2 DEF Stop
<1>4. PICK evs, q : Wrote(evs, q) /\ Left(evs, q)
  BY DEF DecodeInv
<1>5. IsSeq(expected) /\ Len(handed) \in Nat /\ Len(expected) \in Nat /\ Len(handed) <= Len(expected)
  <2>1. IsSeq(handed)
    BY DEF Reached, LoopInv, EventsHandled
  <2>. QED
    BY <2>1, ElementsOf DEF DecodeInv, HandledInOrder, IsSeq
<1>6. HeadOf(evs, q)
  BY <1>1, <1>4, <1>5, HeadIs
<1>7. ASSUME Len(handed) < Len(expected), NoEvent \/ CutEvent
      PROVE  FALSE
  <2>1. PICK e \in WriterEvents :
          Begins(0, Encoded(e)) /\ Len(Encoded(e)) <= Len(trace) /\ trace # <<>>
    BY <1>6, <1>7 DEF HeadOf
  <2>2. Len(trace) \in Nat /\ Len(Encoded(e)) \in Nat
    BY <1>1, EncodedLong
  <2>3. CASE loop = "gem"
    <3>1. e \in GemEvents
      BY <2>3 DEF WriterEvents
    <3>2. Len(Encoded(e)) = RecordLength("gem")
      BY <1>1, <2>1, <2>3, <3>1, GemDecodes
    <3>3. Len(trace) >= RecordLength("gem")
      BY <2>1, <2>2, <3>2
    <3>. QED
      BY <1>7, <2>3, <3>3 DEF NoEvent, CutEvent
  <2>4. CASE loop # "gem"
    <3>1. e \in Events
      BY <2>4 DEF WriterEvents
    <3>2. HeaderLength \in Nat /\ Len(Encoded(e)) = HeaderLength + Len(Payload(e))
      BY <1>1, <2>1, <2>4, <3>1, EventHeader
    <3>3. Len(Payload(e)) \in Nat
      BY <3>1, PayloadIs, ElementsOf
    <3>4. Len(trace) >= HeaderLength
      BY <2>1, <2>2, <3>2, <3>3
    <3>5. HeaderThere
      BY <2>1, <3>4 DEF HeaderThere
    <3>6. PICK kind \in Kind : ~RecordThere(kind)
      BY <1>7, <2>4, <3>5 DEF NoEvent, CutEvent
    <3>7. Len(Encoded(e)) = HeaderLength + RecordLength(kind)
      BY <1>1, <2>1, <2>4, <3>1, <3>5, EventDecodes
    <3>8. Len(trace) >= HeaderLength + RecordLength(kind)
      BY <2>1, <2>2, <3>7
    <3>. QED
      BY <3>6, <3>8 DEF RecordThere
  <2>. QED
    BY <2>3, <2>4
<1>8. at' = "eof" => closed /\ Len(handed) = Len(expected)
  <2>1. NoEvent \/ CutEvent => closed
    BY DEF NoEvent, CutEvent
  <2>2. NoEvent \/ CutEvent => ~(Len(handed) < Len(expected))
    BY <1>7
  <2>. QED
    BY <1>2, <1>3, <1>5, <2>1, <2>2
<1>9. at' \notin {"next", "translated"}
  BY <1>2, <1>3
<1>. QED
  BY <1>1, <1>3, <1>8, <1>9, DecodingStays

\* An event that is handled is the next of those that were written.
LEMMA EventIsNext ==
  ASSUME NEW kind, NEW x, AtEvent(kind, x), DecodeInv
  PROVE  \E evs, q :
           /\ Wrote(evs, q) /\ Left(evs, q) /\ Len(handed) < Len(expected)
           /\ x = expected[Len(handed) + 1]
           /\ Len(Encoded(evs[Len(handed) + 1])) = HeaderLength + RecordLength(kind)
           /\ Len(Encoded(evs[Len(handed) + 1])) \in Nat
           /\ Len(Encoded(evs[Len(handed) + 1])) <= Len(trace)
<1>1. /\ files \in Inputs /\ trace \in Seq(Byte) /\ time \in Int
      /\ loop # "gem" /\ mapping = Content.mapping /\ kind \in Kind /\ HeaderThere
      /\ RecordThere(kind) /\ x = Heard(kind) /\ Reached /\ Running
  BY MappingHere DEF AtEvent
<1>2. PICK evs, q : Wrote(evs, q) /\ Left(evs, q)
  BY DEF DecodeInv
<1>3. IsSeq(expected) /\ Len(handed) \in Nat /\ Len(expected) \in Nat /\ Len(handed) <= Len(expected)
  <2>1. IsSeq(handed)
    BY <1>1 DEF Reached, LoopInv, EventsHandled
  <2>. QED
    BY <2>1, ElementsOf DEF DecodeInv, HandledInOrder, IsSeq
<1>4. HeadOf(evs, q)
  BY <1>1, <1>2, <1>3, HeadIs
<1>5. trace # <<>> /\ Len(trace) \in Nat /\ Len(trace) # 0
  BY <1>1 DEF HeaderThere
<1>6. Len(trace) >= HeaderLength + RecordLength(kind)
  BY <1>1 DEF RecordThere
<1>7. ASSUME NEW e \in WriterEvents, Begins(0, Encoded(e))
      PROVE  /\ Len(Encoded(e)) = HeaderLength + RecordLength(kind) /\ Len(Encoded(e)) \in Nat
             /\ Len(Encoded(e)) <= Len(trace) /\ x = Meaning(time, e)
  <2>1. e \in Events
    BY <1>1, <1>7 DEF WriterEvents
  <2>2. Len(Encoded(e)) = HeaderLength + RecordLength(kind) /\ Heard(kind) = Meaning(time, e)
    BY <1>1, <1>7, <2>1, EventDecodes
  <2>3. Len(Encoded(e)) \in Nat
    BY <1>1, EncodedLong
  <2>. QED
    BY <1>1, <1>5, <1>6, <2>2, <2>3
<1>8. Len(handed) < Len(expected)
  <2>1. SUFFICES ASSUME ~(Len(handed) < Len(expected))
                 PROVE  FALSE
    OBVIOUS
  <2>2. Len(handed) >= Len(expected)
    BY <1>3, <2>1
  <2>3. PICK c \in WriterEvents : Begins(0, Encoded(c)) /\ Len(trace) < Len(Encoded(c))
    BY <1>4, <1>5, <2>2 DEF HeadOf
  <2>4. Len(Encoded(c)) <= Len(trace) /\ Len(Encoded(c)) \in Nat
    BY <1>7, <2>3
  <2>. QED
    BY <1>5, <2>3, <2>4
<1>9. PICK h \in Nat : h = Len(handed)
  BY <1>3
<1>10. PICK e \in WriterEvents :
         /\ e = evs[h + 1] /\ Begins(0, Encoded(e))
         /\ expected[h + 1] = Meaning(TimeBefore(h + 1), e)
  BY <1>4, <1>8, <1>9 DEF HeadOf
<1>11. time = TimeBefore(h + 1)
  BY <1>1, <1>9 DEF Running, DecodeInv, HandledInOrder
<1>12. /\ Len(Encoded(e)) = HeaderLength + RecordLength(kind) /\ Len(Encoded(e)) \in Nat
       /\ Len(Encoded(e)) <= Len(trace) /\ x = Meaning(time, e)
  BY <1>7, <1>10
<1>13. x = expected[h + 1]
  BY <1>10, <1>11, <1>12
<1>. QED
  BY <1>2, <1>8, <1>9, <1>10, <1>12, <1>13

LEMMA EventDecoded ==
  ASSUME NEW kind, NEW x, AtEvent(kind, x), DecodeInv, NEW lines, Handled(x, lines), at' # "eof"
  PROVE  DecodeInv'
<1>1. PICK evs, q :
        /\ Wrote(evs, q) /\ Left(evs, q) /\ Len(handed) < Len(expected)
        /\ x = expected[Len(handed) + 1]
        /\ Len(Encoded(evs[Len(handed) + 1])) = HeaderLength + RecordLength(kind)
        /\ Len(Encoded(evs[Len(handed) + 1])) \in Nat
        /\ Len(Encoded(evs[Len(handed) + 1])) <= Len(trace)
  BY EventIsNext
<1>2. PICK k \in Nat : k = Len(Encoded(evs[Len(handed) + 1]))
  BY <1>1
<1>3. k = HeaderLength + RecordLength(kind) /\ k <= Len(trace)
  BY <1>1, <1>2
<1>4. x.name = kind
  BY HeardHere
<1>5. /\ trace' = SubSeq(trace, k + 1, Len(trace)) /\ time' = x.time
      /\ handed' = Append(handed, x) /\ UNCHANGED <<closed, expected, clock>>
  BY <1>3, <1>4 DEF Handled
<1>6. Reached /\ Running
  BY DEF AtEvent
<1>. QED
  BY <1>1, <1>2, <1>3, <1>5, <1>6, HandledDecodes

\* The same of a record of gem5.
LEMMA GemDecoded ==
  ASSUME Reached, DecodeInv, GemAccess
  PROVE  DecodeInv'
<1>1. /\ files \in Inputs /\ trace \in Seq(Byte) /\ time \in Int
      /\ Running /\ loop = "gem" /\ Len(trace) >= RecordLength("gem")
  BY MappingHere DEF GemAccess
<1>2. PICK evs, q : Wrote(evs, q) /\ Left(evs, q)
  BY DEF DecodeInv
<1>3. IsSeq(expected) /\ Len(handed) \in Nat /\ Len(expected) \in Nat /\ Len(handed) <= Len(expected)
  <2>1. IsSeq(handed)
    BY DEF Reached, LoopInv, EventsHandled
  <2>. QED
    BY <2>1, ElementsOf DEF DecodeInv, HandledInOrder, IsSeq
<1>4. HeadOf(evs, q)
  BY <1>1, <1>2, <1>3, HeadIs
<1>5. PICK f : f = Fields(0, "gem")
  OBVIOUS
<1>6. PICK x : x = [name |-> "gem", time |-> f[1], cpu |-> f[4], what |-> <<f[2], TypeOf(f)>>]
  OBVIOUS
<1>7. /\ handed' = Append(handed, x) /\ time' = f[1] /\ at' = at
      /\ trace' = SubSeq(trace, RecordLength("gem") + 1, Len(trace))
      /\ UNCHANGED <<closed, expected, clock>>
  BY <1>5, <1>6 DEF GemAccess, TypeOf
<1>8. Len(trace) \in Nat /\ Len(trace) # 0
  <2>1. RecordLength("gem") \in Nat /\ RecordLength("gem") # 0
    <3>1. PICK w : w = <<WordBytes, WordBytes, 1, 1>> /\ LaidOut("gem", w)
      BY WidthsAre, FieldPlaces DEF Kinds
    <3>2. Len(w) = 4 /\ w[1] = WordBytes /\ w[2] = WordBytes /\ w[3] = 1 /\ w[4] = 1
      BY <3>1
    <3>3. RecordLength("gem") = ((WordBytes + WordBytes) + 1) + 1
      BY <3>1, <3>2 DEF LaidOut
    <3>4. WordBytes \in Nat /\ WordBytes >= 2
      BY LoopAssumption
    <3>. QED
      BY <3>3, <3>4
  <2>. QED
    BY <1>1, <2>1
<1>9. ASSUME NEW e \in WriterEvents, Begins(0, Encoded(e))
      PROVE  /\ Len(Encoded(e)) = RecordLength("gem") /\ Len(Encoded(e)) \in Nat
             /\ Len(Encoded(e)) <= Len(trace) /\ x = Meaning(time, e) /\ f[1] = e.tick
  <2>1. e \in GemEvents
    BY <1>1, <1>9 DEF WriterEvents
  <2>2. Len(Encoded(e)) = RecordLength("gem") /\ f[1] = e.tick /\ x = Meaning(time, e)
    BY <1>1, <1>5, <1>6, <1>9, <2>1, GemDecodes
  <2>3. Len(Encoded(e)) \in Nat
    BY <1>1, EncodedLong
  <2>. QED
    BY <1>1, <1>8, <2>2, <2>3
<1>10. Len(handed) < Len(expected)
  <2>1. SUFFICES ASSUME ~(Len(handed) < Len(expected))
                 PROVE  FALSE
    OBVIOUS
  <2>2. Len(handed) >= Len(expected)
    BY <1>3, <2>1
  <2>3. PICK c \in WriterEvents : Begins(0, Encoded(c)) /\ Len(trace) < Len(Encoded(c))
    BY <1>4, <1>8, <2>2 DEF HeadOf
  <2>4. Len(Encoded(c)) <= Len(trace) /\ Len(Encoded(c)) \in Nat
    BY <1>9, <2>3
  <2>. QED
    BY <1>8, <2>3, <2>4
<1>11. PICK h \in Nat : h = Len(handed)
  BY <1>3
<1>12. PICK e \in WriterEvents :
         /\ e = evs[h + 1] /\ Begins(0, Encoded(e))
         /\ expected[h + 1] = Meaning(TimeBefore(h + 1), e)
  BY <1>4, <1>10, <1>11 DEF HeadOf
<1>13. time = TimeBefore(h + 1)
  BY <1>1, <1>11 DEF Running, DecodeInv, HandledInOrder
<1>14. /\ Len(Encoded(e)) = RecordLength("gem") /\ Len(Encoded(e)) \in Nat
       /\ Len(Encoded(e)) <= Len(trace) /\ x = Meaning(time, e)
  BY <1>9, <1>12
<1>15. x = expected[h + 1] /\ x.time = f[1]
  BY <1>6, <1>12, <1>13, <1>14
<1>16. PICK k \in Nat : k = Len(Encoded(e)) /\ k = RecordLength("gem") /\ k <= Len(trace)
  BY <1>14
<1>17. at' # "eof"
  BY <1>1, <1>7 DEF Running
<1>18. k = Len(Encoded(evs[Len(handed) + 1])) /\ x = expected[Len(handed) + 1] /\ time' = x.time
  BY <1>7, <1>11, <1>12, <1>15, <1>16
<1>19. trace' = SubSeq(trace, k + 1, Len(trace))
  BY <1>7, <1>16
<1>. QED
  BY <1>1, <1>2, <1>7, <1>10, <1>16, <1>17, <1>18, <1>19, HandledDecodes

LEMMA LoopDecodes ==
  ASSUME ProgramsInv, DecodeInv, Loop
  PROVE  DecodeInv'
<1>1. Reached /\ UNCHANGED <<program, world, files>>
  BY DEF ProgramsInv, Loop, Reached
<1>2. CASE NoEvent \/ CutEvent \/ LimitReached \/ UnknownEvent \/ GemAccess
  BY <1>1, <1>2, EndsDecode, GemDecoded
<1>3. ASSUME Running, loop # "gem", HeaderThere, NEW kind \in Kind, RecordThere(kind),
             NEW x \in {Heard(kind)},
             ControlRegister(x) \/ Invlpg(x) \/ Translate(x) \/ MemoryAccess(x) \/ Block(x)
      PROVE  DecodeInv'
  <2>1. AtEvent(kind, x)
    BY <1>1, <1>3 DEF AtEvent
  <2>2. CASE Translate(x)
    <3>1. /\ at = "next" /\ at' = "translated"
          /\ UNCHANGED <<trace, closed, expected, clock, time, handed>>
      BY <2>2 DEF Translate
    <3>2. time' = TimeBefore(Len(handed) + 1)
      BY <3>1 DEF DecodeInv, HandledInOrder
    <3>. QED
      BY <1>1, <3>1, <3>2, DecodingStays
  <2>3. CASE ControlRegister(x) \/ Invlpg(x) \/ MemoryAccess(x)
    <3>1. Handled(x, {})
      BY <2>3 DEF ControlRegister, Invlpg, MemoryAccess
    <3>2. at' \in {"next", "stopped"}
      BY <2>3, GoesOn DEF ControlRegister, Invlpg, MemoryAccess
    <3>. QED
      BY <2>1, <3>1, <3>2, EventDecoded
  <2>4. CASE Block(x)
    <3>1. PICK lines : Handled(x, lines)
      BY <2>4 DEF Block
    <3>2. at' \in {"next", "stopped"}
      BY <2>4, GoesOn DEF Block
    <3>. QED
      BY <2>1, <3>1, <3>2, EventDecoded
  <2>. QED
    BY <1>3, <2>2, <2>3, <2>4
<1>4. LoopStep
  BY DEF Loop
<1>. QED
  BY <1>2, <1>3, <1>4 DEF LoopStep

LEMMA DecodingBegins ==
  ASSUME Init
  PROVE  DecodeInv
<1>1. /\ trace = <<>> /\ closed = FALSE /\ expected = <<>> /\ clock = 0 /\ at = "next"
      /\ time = 0 /\ handed = <<>>
  BY DEF Init, LoopInit
<1>2. HandledInOrder
  BY <1>1 DEF HandledInOrder, IsSeq, TimeBefore
<1>3. PICK q : q = [i \in 0 .. 0 |-> 0]
  OBVIOUS
<1>4. Len(expected) = 0 /\ Len(handed) = 0 /\ Len(trace) = 0
  BY <1>1
<1>5. q[0] = 0
  BY <1>3
<1>6. Wrote(q, q)
  <2>1. \A i \in 0 .. 0 : q[i] \in Nat /\ \A j \in 0 .. i : q[j] <= q[i]
    <3>1. \A i \in 0 .. 0 : i = 0
      OBVIOUS
    <3>. QED
      BY <1>5, <3>1
  <2>2. \A i \in 1 .. 0 : FALSE
    OBVIOUS
  <2>. QED
    BY <1>4, <2>1, <2>2 DEF Wrote
<1>7. Left(q, q)
  <2>1. \A i \in 0 + 1 .. 0 : FALSE
    OBVIOUS
  <2>2. TimeBefore(0 + 1) = 0
    BY DEF TimeBefore
  <2>3. q[0] - q[0] = 0
    BY <1>5
  <2>. QED
    BY <1>1, <1>4, <2>1, <2>2, <2>3 DEF Left
<1>. QED
  BY <1>2, <1>6, <1>7 DEF DecodeInv

LEMMA EveryStepDecodes ==
  ASSUME ProgramsInv, DecodeInv, [Next]_vars
  PROVE  DecodeInv'
<1>1. CASE UNCHANGED <<loopVars, program, world, files>>
  <2>1. UNCHANGED <<trace, closed, expected, clock, at, time, handed>>
    BY <1>1 DEF loopVars
  <2>2. /\ at' = "eof" => closed /\ Len(handed) = Len(expected)
        /\ at' \in {"next", "translated"} => time' = TimeBefore(Len(handed) + 1)
    BY <2>1 DEF DecodeInv, HandledInOrder
  <2>. QED
    BY <1>1, <2>1, <2>2, DecodingStays
<1>2. CASE Loop
  BY <1>2, LoopDecodes
<1>3. CASE WriteTrace
  BY <1>3, AppendDecodes, CloseDecodes DEF WriteTrace, ProgramsInv
<1>4. CASE Test \/ SetUpCaches \/ UNCHANGED vars
  <2>1. UNCHANGED <<loopVars, program, world, files>>
    BY <1>4 DEF Test, SetUpCaches, vars, startupVars
  <2>. QED
    BY <1>1, <2>1
<1>5. CASE StartsOrEnds
  <2>1. UNCHANGED <<loopVars, program, world, files>>
    BY <1>5 DEF StartsOrEnds, Rest
  <2>. QED
    BY <1>1, <2>1
<1>. QED
  BY <1>2, <1>3, <1>4, <1>5 DEF Next, StartsOrEnds

\* The trace has the records of the events that were not handled, in every program.
THEOREM DecodesAlways == Spec => []DecodeInv
<1>1. Init => DecodeInv
  BY DecodingBegins
<1>2. ProgramsInv /\ DecodeInv /\ [Next]_vars => DecodeInv'
  BY EveryStepDecodes
<1>. QED
  BY <1>1, <1>2, ProgramsInvariant, PTL DEF Spec

\* Whatever events are written, each is handled as the writer meant it, at the time it was
\* written at, and in order, and at the end of a file none is left (filereader.c 84-102,
\* gemfilereader.c 23-37).
THEOREM TraceIsAlwaysDecoded == Spec => []TraceIsDecoded
<1>1. ProgramsInv /\ DecodeInv => TraceIsDecoded
  <2>. SUFFICES ASSUME ProgramsInv, DecodeInv
                PROVE  TraceIsDecoded
    OBVIOUS
  <2>1. IsSeq(handed) /\ IsSeq(expected)
    BY DEF ProgramsInv, LoopInv, EventsHandled, DecodeInv, HandledInOrder
  <2>2. PICK S : S = Range(handed) \cup Range(expected)
    OBVIOUS
  <2>3. handed \in Seq(S) /\ expected \in Seq(S)
    BY <2>1, <2>2 DEF IsSeq
  <2>4. /\ Len(handed) \in Nat /\ Len(expected) \in Nat /\ Len(handed) <= Len(expected)
        /\ \A i \in 1 .. Len(handed) : handed[i] = expected[i]
    BY <2>3, ElementsOf DEF DecodeInv, HandledInOrder
  <2>5. IsPrefix(handed, expected)
    <3>1. PICK s \in Seq(S), t \in Seq(S), n \in Nat : s = handed /\ t = expected /\ n = Len(s)
      BY <2>3, <2>4
    <3>2. n <= Len(t) /\ \A i \in 1 .. n : s[i] = t[i]
      BY <2>4, <3>1
    <3>3. PICK u : u = SubSeq(t, 1, n)
      OBVIOUS
    <3>4. u \in Seq(S) /\ Len(u) = n /\ \A i \in 1 .. n : u[i] = t[i]
      BY <3>1, <3>2, <3>3
    <3>5. PICK v : v = SubSeq(s, 1, n)
      OBVIOUS
    <3>6. v \in Seq(S) /\ Len(v) = n /\ \A i \in 1 .. n : v[i] = s[i]
      BY <3>1, <3>5
    <3>7. \A i \in 1 .. Len(u) : u[i] = v[i]
      BY <3>2, <3>4, <3>6
    <3>8. u = v
      BY <3>4, <3>6, <3>7, SeqEqual
    <3>. QED
      BY <2>4, <3>1, <3>3, <3>5, <3>8 DEF IsPrefix
  <2>6. at = "eof" => handed = expected
    <3>1. SUFFICES ASSUME at = "eof"
                   PROVE  handed = expected
      OBVIOUS
    <3>2. Len(handed) = Len(expected)
      BY <3>1 DEF DecodeInv, HandledInOrder
    <3>. QED
      BY <2>3, <2>4, <3>2, SeqEqual
  <2>. QED
    BY <2>5, <2>6 DEF TraceIsDecoded
<1>. QED
  BY <1>1, ProgramsInvariant, DecodesAlways, PTL

--------------------------------------------------------------------------------
(* What is lost of what the guest stored. *)

\* The addresses that the store e passes over.
PassedOver(e) ==
  {a \in e.what[1] .. e.what[1] + e.what[2] - 1 :
     /\ e.name = "store"
     /\ (e.what[1] % PageSize) + e.what[2] > PageSize \/ e.what[2] > 8}

LEMMA LostIs ==
  LostOnlyInSplits <=> \A a \in lost : \E k \in DOMAIN handed : a \in PassedOver(handed[k])
BY DEF LostOnlyInSplits, PassedOver

\* An access of at most 8 bytes has a size that is copied.
LEMMA SmallSizes ==
  ASSUME NEW k \in Nat, Power(2, k) <= 8
  PROVE  Copied(Power(2, k))
<1>1. \A n \in Nat : /\ Power(2, 0) = 1 /\ Power(2, n) \in Nat \ {0}
                     /\ Power(2, n + 1) = 2 * Power(2, n)
  <2>1. 2 \in Nat \ {0}
    OBVIOUS
  <2>. QED
    BY <2>1, PowerStep, PowersAre
<1>2. Power(2, 0) = 1 /\ Power(2, 1) = 2 /\ Power(2, 2) = 4 /\ Power(2, 3) = 8
  <2>1. Power(2, 0 + 1) = 2 * Power(2, 0) /\ Power(2, 1 + 1) = 2 * Power(2, 1)
        /\ Power(2, 2 + 1) = 2 * Power(2, 2) /\ Power(2, 0) = 1
    BY <1>1
  <2>2. 0 + 1 = 1 /\ 1 + 1 = 2 /\ 2 + 1 = 3
    OBVIOUS
  <2>. QED
    BY <2>1, <2>2
<1>3. CASE k \in {0, 1, 2, 3}
  BY <1>2, <1>3 DEF Copied
<1>4. CASE k >= 4
  <2>1. PICK j \in Nat : j = k - 4
    BY <1>4
  <2>2. /\ Power(2, j) \in Nat \ {0} /\ Power(2, j + 1) = 2 * Power(2, j)
        /\ Power(2, (j + 1) + 1) = 2 * Power(2, j + 1)
        /\ Power(2, (j + 2) + 1) = 2 * Power(2, j + 2)
        /\ Power(2, (j + 3) + 1) = 2 * Power(2, j + 3)
    BY <1>1
  <2>3. (j + 1) + 1 = j + 2 /\ (j + 2) + 1 = j + 3 /\ (j + 3) + 1 = k
    BY <2>1
  <2>4. Power(2, k) = 2 * (2 * (2 * (2 * Power(2, j))))
    BY <2>2, <2>3
  <2>5. PICK x \in Nat \ {0} : x = Power(2, j)
    BY <2>2
  <2>6. 2 * (2 * (2 * (2 * x))) > 8
    OBVIOUS
  <2>. QED
    BY <2>4, <2>5, <2>6
<1>. QED
  BY <1>3, <1>4

\* A store within a page, of a size that is copied, loses nothing.
LEMMA NothingLost ==
  ASSUME MemoryShape, NEW a \in Nat, NEW n \in Nat, Copied(n), (a % PageSize) + n <= PageSize,
         NEW b \in a .. a + n - 1, b \in DOMAIN flat
  PROVE  b \in Written(a, n)
<1>1. b \in Nat
  OBVIOUS
<1>2. a \div PageSize = b \div PageSize
  BY <1>1, PlaceInPart
<1>3. MemoryFor(a) # {}
  <2>1. MemoryFor(b) # {}
    BY <1>1 DEF MemoryShape
  <2>. QED
    BY <1>1, <1>2, <2>1, SamePage
<1>4. PICK p : p = [addr |-> a, size |-> n]
  OBVIOUS
<1>5. p \in Parts(a, n)
  <2>1. PICK r \in 0 .. PageSize - 1 : r = a % PageSize
    BY PageAndPlace
  <2>2. PageSize \in Nat /\ ~(n > PageSize - r)
    BY <2>1, SimMemoryAssumption
  <2>. QED
    BY <1>4, <2>1, <2>2 DEF Parts
<1>6. p \in PartsInMemory(a, n)
  BY <1>3, <1>4, <1>5 DEF PartsInMemory
<1>. QED
  BY <1>4, <1>6 DEF Written

\* What was passed over stays so.
LEMMA LostStays ==
  ASSUME LoopInv, LostOnlyInSplits, lost' \subseteq lost,
         handed' = handed \/ \E e, lines : Appended(e, lines)
  PROVE  LostOnlyInSplits'
<1>1. \A k \in DOMAIN handed : k \in DOMAIN handed' /\ handed'[k] = handed[k]
  <2>1. ASSUME NEW e, NEW lines, Appended(e, lines), NEW k \in DOMAIN handed
        PROVE  k \in DOMAIN handed' /\ handed'[k] = handed[k]
    <3>1. PICK n \in Nat : Longer(e, lines, n)
      BY <2>1, LongerIs
    <3>. QED
      BY <2>1, <3>1 DEF Longer
  <2>. QED
    BY <2>1
<1>2. \A a \in lost : \E k \in DOMAIN handed : a \in PassedOver(handed[k])
  BY LostIs
<1>3. \A a \in lost' : \E k \in DOMAIN handed' : a \in PassedOver(handed'[k])
  BY <1>1, <1>2
<1>. QED
  BY <1>3 DEF LostOnlyInSplits, PassedOver

\* Only a store writes to the simulated memory.
LEMMA WriterIsStore ==
  ASSUME NEW kind, NEW x, AtEvent(kind, x), DecodeInv, kind \in {"load", "store"}, x.what[3]
  PROVE  x.name = "store"
<1>1. PICK evs, q : Wrote(evs, q) /\ Len(handed) < Len(expected) /\ x = expected[Len(handed) + 1]
  BY EventIsNext
<1>2. x.name = kind
  BY HeardHere
<1>3. Len(handed) + 1 \in 1 .. Len(expected)
  <2>1. IsSeq(handed) /\ IsSeq(expected)
    BY DEF AtEvent, Reached, LoopInv, EventsHandled, DecodeInv, HandledInOrder
  <2>2. Len(handed) \in Nat /\ Len(expected) \in Nat
    BY <2>1, ElementsOf DEF IsSeq
  <2>. QED
    BY <1>1, <2>2
<1>4. PICK i : i = Len(handed) + 1 /\ i \in 1 .. Len(expected)
  BY <1>3
<1>5. x = Meaning(TimeBefore(i), evs[i])
  BY <1>1, <1>4 DEF Wrote
<1>6. PICK e : e = evs[i]
  OBVIOUS
<1>7. x.name = e.name
  BY <1>5, <1>6 DEF Meaning
<1>8. CASE e.name = "load"
  <2>1. x.what = <<e.addr, Power(2, e.shift), FALSE>>
    BY <1>5, <1>6, <1>8 DEF Meaning
  <2>. QED
    BY <2>1
<1>. QED
  BY <1>2, <1>7, <1>8

LEMMA WritesLose ==
  ASSUME NEW kind, NEW x, AtEvent(kind, x), DecodeInv, LostOnlyInSplits, MemoryAccess(x)
  PROVE  LostOnlyInSplits'
<1>1. LoopInv /\ MemoryShape
  BY DEF AtEvent, Reached, MemoryInv
<1>2. x.name \in {"load", "store"} /\ x.name = kind /\ Described(x)
  BY HeardHere DEF MemoryAccess
<1>3. Appended(x, {})
  BY DEF MemoryAccess, Handled, Appended
<1>4. CASE UNCHANGED memoryVars
  <2>1. lost' \subseteq lost
    BY <1>4 DEF memoryVars
  <2>. QED
    BY <1>1, <1>3, <2>1, LostStays
<1>5. CASE x.what[3] /\ Write(x.what[1], x.what[2], Len(handed) + 1)
  <2>1. x.name = "store"
    BY <1>2, <1>5, WriterIsStore
  <2>2. PICK a \in Nat, k \in Nat : a = x.what[1] /\ x.what[2] = Power(2, k)
    BY <1>2 DEF Described
  <2>3. PICK n \in Nat : n = Power(2, k)
    <3>1. 2 \in Nat \ {0}
      OBVIOUS
    <3>. QED
      BY <3>1, PowersAre
  <2>4. lost' = (lost \cup ((a .. a + n - 1) \cap DOMAIN flat)) \ Written(a, n)
    BY <1>5, <2>2, <2>3 DEF Write
  <2>5. PICK h \in Nat : Longer(x, {}, h)
    BY <1>1, <1>3, LongerIs
  <2>6. ASSUME NEW b \in lost'
        PROVE  \E i \in DOMAIN handed' : b \in PassedOver(handed'[i])
    <3>1. CASE b \in lost
      <4>1. PICK i \in DOMAIN handed : b \in PassedOver(handed[i])
        BY <3>1, LostIs
      <4>2. i \in DOMAIN handed' /\ handed'[i] = handed[i]
        BY <2>5 DEF Longer
      <4>. QED
        BY <4>1, <4>2
    <3>2. CASE b \notin lost
      <4>1. b \in a .. a + n - 1 /\ b \in DOMAIN flat /\ b \notin Written(a, n)
        BY <2>4, <3>2
      <4>2. (a % PageSize) + n > PageSize \/ n > 8
        <5>1. SUFFICES ASSUME (a % PageSize) + n <= PageSize, n <= 8
                       PROVE  FALSE
          <6>1. a % PageSize \in Nat /\ PageSize \in Nat
            BY PageAndPlace, SimMemoryAssumption
          <6>. QED
            BY <5>1, <6>1
        <5>2. Copied(n)
          BY <2>3, <5>1, SmallSizes
        <5>. QED
          BY <1>1, <4>1, <5>1, <5>2, NothingLost
      <4>3. b \in PassedOver(x)
        BY <2>1, <2>2, <2>3, <4>1, <4>2 DEF PassedOver
      <4>4. h + 1 \in DOMAIN handed' /\ handed'[h + 1] = x
        BY <2>5 DEF Longer
      <4>. QED
        BY <4>3, <4>4
    <3>. QED
      BY <3>1, <3>2
  <2>. QED
    BY <2>6 DEF LostOnlyInSplits, PassedOver
<1>. QED
  BY <1>4, <1>5 DEF MemoryAccess

LEMMA LoopLoses ==
  ASSUME Reached, LoopStep, DecodeInv, LostOnlyInSplits
  PROVE  LostOnlyInSplits'
<1>1. LoopInv
  BY DEF Reached
<1>2. CASE NoEvent \/ CutEvent \/ LimitReached \/ UnknownEvent
  <2>1. UNCHANGED <<handed, lost>>
    BY <1>2 DEF NoEvent, CutEvent, LimitReached, UnknownEvent, Stop, memoryVars
  <2>. QED
    BY <1>1, <2>1, LostStays
<1>3. CASE GemAccess
  <2>1. UNCHANGED lost
    BY <1>3 DEF GemAccess, memoryVars
  <2>2. \E e, lines : Appended(e, lines)
    BY <1>3 DEF GemAccess, Appended
  <2>. QED
    BY <1>1, <2>1, <2>2, LostStays
<1>4. ASSUME Running, loop # "gem", HeaderThere, NEW kind \in Kind, RecordThere(kind),
             NEW x \in {Heard(kind)},
             ControlRegister(x) \/ Invlpg(x) \/ Translate(x) \/ MemoryAccess(x) \/ Block(x)
      PROVE  LostOnlyInSplits'
  <2>1. CASE Translate(x)
    <3>1. UNCHANGED <<handed, lost>>
      BY <2>1 DEF Translate, Read
    <3>. QED
      BY <1>1, <3>1, LostStays
  <2>2. CASE ControlRegister(x) \/ Invlpg(x) \/ Block(x)
    <3>1. UNCHANGED lost
      BY <2>2 DEF ControlRegister, Invlpg, Block, memoryVars
    <3>2. \E e, lines : Appended(e, lines)
      BY <2>2 DEF ControlRegister, Invlpg, Block, Handled, Appended
    <3>. QED
      BY <1>1, <3>1, <3>2, LostStays
  <2>3. CASE MemoryAccess(x)
    <3>1. AtEvent(kind, x)
      BY <1>4 DEF AtEvent
    <3>. QED
      BY <2>3, <3>1, WritesLose
  <2>. QED
    BY <1>4, <2>1, <2>2, <2>3
<1>. QED
  BY <1>2, <1>3, <1>4 DEF LoopStep

\* Before and after its loop a program loses nothing.
LEMMA StartLoses ==
  ASSUME StartsOrEnds
  PROVE  UNCHANGED <<handed, lost>>
<1>1. UNCHANGED handed
  BY DEF StartsOrEnds, Rest, loopVars
<1>2. ASSUME NEW r, Fail(r)
      PROVE  UNCHANGED lost
  BY <1>2 DEF Fail, memoryVars
<1>3. ASSUME NEW r, StartupStep(r)
      PROVE  UNCHANGED lost
  <2>1. CASE SetUpMemory(r)
    BY <2>1 DEF SetUpMemory, InitMemory
  <2>2. CASE ReadNext(r)
    BY <1>2, <2>2 DEF ReadNext, memoryVars
  <2>3. CASE ReadAndSend(r)
    BY <1>2, <2>3 DEF ReadAndSend, memoryVars
  <2>4. CASE MemoriesSet(r) \/ Main(r) \/ StartWorker(r) \/ StartOutput(r)
    BY <2>4 DEF MemoriesSet, Main, StartWorker, StartOutput, memoryVars
  <2>5. CASE ReceiveRanges(r) \/ ReceiveMapping(r) \/ ReceiveRegisters(r)
    BY <2>5 DEF ReceiveRanges, ReceiveMapping, ReceiveRegisters, memoryVars
  <2>. QED
    BY <1>3, <2>1, <2>2, <2>3, <2>4, <2>5 DEF StartupStep
<1>4. ASSUME NEW r, Start(r) \/ SendReturns(r)
      PROVE  UNCHANGED lost
  BY <1>3, <1>4 DEF Start, CachesBuilt, SendReturns, memoryVars
<1>5. TraceArrives \/ EndJob \/ ReaderReturns \/ LoopReturns => UNCHANGED lost
  BY <1>2 DEF TraceArrives, EndJob, ReaderReturns, LoopReturns, memoryVars
<1>. QED
  BY <1>1, <1>4, <1>5 DEF StartsOrEnds

\* A byte the guest stored to a kernel page is in the simulated memory, but for stores that
\* run over the end of a page and those of more than 8 bytes (memory.c 132-168).
THEOREM LostOnlyWhenSplit == Spec => []LostOnlyInSplits
<1>1. Init => LostOnlyInSplits
  BY DEF Init, StartupInit, MemoryInit, LostOnlyInSplits
<1>2. ProgramsInv /\ DecodeInv /\ LostOnlyInSplits /\ [Next]_vars => LostOnlyInSplits'
  <2>. SUFFICES ASSUME ProgramsInv, DecodeInv, LostOnlyInSplits, [Next]_vars
                PROVE  LostOnlyInSplits'
    OBVIOUS
  <2>1. CASE Test \/ SetUpCaches \/ UNCHANGED vars
    <3>1. UNCHANGED <<handed, lost>>
      BY <2>1 DEF Test, SetUpCaches, vars, memoryVars, loopVars
    <3>. QED
      BY <3>1, LostStays DEF ProgramsInv
  <2>2. CASE WriteTrace
    <3>1. UNCHANGED <<handed, lost>>
      BY <2>2 DEF WriteTrace, AppendEvent, CloseTrace, WriterStep, memoryVars
    <3>. QED
      BY <3>1, LostStays DEF ProgramsInv
  <2>3. CASE StartsOrEnds
    BY <2>3, StartLoses, LostStays DEF ProgramsInv
  <2>4. CASE Loop
    <3>1. Reached /\ LoopStep
      BY <2>4 DEF ProgramsInv, Loop, Reached
    <3>. QED
      BY <3>1, LoopLoses
  <2>. QED
    BY <2>1, <2>2, <2>3, <2>4 DEF Next, StartsOrEnds
<1>3. Spec => []DecodeInv
  BY DecodesAlways
<1>. QED
  BY <1>1, <1>2, <1>3, ProgramsInvariant, PTL DEF Spec
================================================================================
