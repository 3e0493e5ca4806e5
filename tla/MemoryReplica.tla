----------------------------- MODULE MemoryReplica -----------------------------
(***************************************************************************)
(* The simulator's copy of the guest's physical memory and the translation *)
(* of addresses that reads the guest's page tables from it: the event      *)
(* loops of simulator/distributed/coordinator.c and                        *)
(* simulator/simple/simulator.c, vaddr_to_phys of pagetable/pagetable.c,   *)
(* memory/memory.c as build.sh compiles it and control_registers.c.        *)
(*                                                                         *)
(* The copy is loaded page by page from a dump and kept up to date with    *)
(* the stores of the trace, except those to user pages.  It is right only  *)
(* where it has to be: on the pages the guest keeps its page tables in.    *)
(*                                                                         *)
(* A page holds Fan words, each read as a page table entry; a virtual page *)
(* is the tuple of its four table indices.  Of an entry the model keeps    *)
(* the bits that are read: bits 12 to 49, the frame, as far as the mask    *)
(* 0x3fffffffff000 goes, and what is above them up to bit 62: software     *)
(* bits and protection keys.                                               *)
(***************************************************************************)
EXTENDS Integers, FiniteSets

CONSTANTS
  Cpus,             \* numbered from 0
  Fan,              \* words in a page, entries in a table (512)
  Frames,           \* frames the mask of pagetable.c can address (2^38)
  RAM,              \* frames of the memory ranges; other frames are devices
  KernelFrames,     \* frames the guest never maps to user mode
  Roots,            \* page table roots the guest uses
  Virtual,          \* virtual pages accessed
  Backing,          \* the dump: contents of RAM when the trace starts
  InitialCr,        \* control registers when the trace starts
  CrValues,         \* values the guest gives them
  Values,           \* words stored
  RealMode,         \* programs whose trace has accesses with paging disabled
  MaxStores         \* bound on the stores of a trace

Index == 0 .. Fan - 1
Entry == [present : BOOLEAN, user : BOOLEAN, large : BOOLEAN, disable : BOOLEAN,
          frame : 0 .. Frames - 1, high : Nat]
Page     == [Index -> Entry]
Cr       == [paging : BOOLEAN, pae : BOOLEAN, cr3 : Roots]
Programs == {"coordinator", "simple"}

VARIABLES
  program,      \* the simulator that runs
  mem,          \* the guest's memory
  registers,    \* its control registers
  replica,      \* simulated_memories: the pages loaded, and their contents
  cr,           \* control_register_values
  userPage,     \* is_user_page_access
  status,       \* does the event loop run, and if not why not
  event,        \* kind of the last event
  forwarded,    \* the address it gave to the caches, if any
  accessed,     \* the address the guest accessed in it through its caches, if any
  stores        \* stores so far

vars == <<program, mem, registers, replica, cr, userPage, status, event, forwarded,
          accessed, stores>>

Unloaded == <<>>
NoEntry  == [present |-> FALSE, user |-> FALSE, large |-> FALSE, disable |-> FALSE,
             frame |-> 0, high |-> 0]

\* A word of memory; there is none outside RAM.
Word(m, f, i) == IF f \in RAM THEN m[f][i] ELSE NoEntry

--------------------------------------------------------------------------------
(* The guest's memory management unit: the entries on the way to a virtual page, *)
(* the leaf among them, and what it maps the page to. It ignores bits 52 to 62; a   *)
(* guest with less than 2^50 bytes of memory leaves bits 50 and 51 zero.            *)

Entries(m, root, v) ==
  LET e1 == Word(m, root, v[1])
      e2 == Word(m, e1.frame, v[2])
      e3 == Word(m, e2.frame, v[3])
  IN  <<e1, e2, e3, Word(m, e3.frame, v[4])>>

Leaf(e)   == IF e[2].large THEN 2 ELSE IF e[3].large THEN 3 ELSE 4
Mapped(e) == \A l \in 1 .. Leaf(e) : e[l].present
UserMode(e) == \A l \in 1 .. Leaf(e) : e[l].user

\* The first frame of an aligned group of n frames.
Base(f, n) == f - (f % n)

\* The frame of a virtual page in the page its leaf maps.
Target(e, v) ==
  LET large == Fan * Fan
  IN  IF Leaf(e) = 2 THEN Base(e[2].frame, large) + (v[3] * Fan + v[4])
      ELSE IF Leaf(e) = 3 THEN Base(e[3].frame, Fan) + v[4]
      ELSE e[4].frame

\* What the guest's kernel keeps to: page tables are in kernel frames, user mode is
\* given no access to those, and no software bit or protection key is set in the entry
\* of a large page, where vaddr_to_phys would take it for a bit of the address.
Disciplined(m) ==
  \A root \in Roots : \A v \in Virtual :
    LET e == Entries(m, root, v)
    IN  /\ ~e[1].large
        /\ \A l \in 1 .. 3 :
             (l < Leaf(e) /\ \A k \in 1 .. l : e[k].present) => e[l].frame \in KernelFrames
        /\ Mapped(e) /\ UserMode(e) => Target(e, v) \notin KernelFrames
        /\ Mapped(e) /\ Leaf(e) # 4 => e[Leaf(e)].high = 0

ASSUME ReplicaAssumption ==
  /\ Fan \in Nat \ {0} /\ Frames \in Nat \ {0} /\ RAM \subseteq Nat /\ MaxStores \in Nat
  /\ Roots \subseteq KernelFrames /\ KernelFrames \subseteq RAM
  /\ Virtual \subseteq Index \X Index \X Index \X Index
  /\ Backing \in [RAM -> Page] /\ Disciplined(Backing) /\ Values \subseteq Entry
  /\ InitialCr \in [Cpus -> Cr] /\ CrValues \subseteq Cr /\ RealMode \subseteq Programs

\* The virtual page's number, its frame when paging is disabled.
Number(v) == ((v[1] * Fan + v[2]) * Fan + v[3]) * Fan + v[4]

--------------------------------------------------------------------------------
(* The simulator: memory.c and pagetable.c. *)

\* The contents of a page, which read_sim_memory and write_sim_memory load from
\* the dump when they first touch it.
View(r) == [f \in RAM |-> IF r[f] = Unloaded THEN Backing[f] ELSE r[f]]

\* Mutated form of Load: a page that is loaded already is loaded again.
LoadAgain(r, frames) ==
  [f \in RAM |-> IF f \in frames THEN Backing[f] ELSE r[f]]

\* Mutated form of Load: a page is allocated one word too short.
LoadShort(r, frames) ==
  [f \in RAM |-> IF f \in frames THEN [i \in 0 .. Fan - 2 |-> View(r)[f][i]] ELSE r[f]]

Load(r, frames) ==
  [f \in RAM |-> IF f \in frames THEN View(r)[f] ELSE r[f]]

\* write_sim_memory.
Write(r, f, i, value) ==
  IF f \in RAM THEN [Load(r, {f}) EXCEPT ![f][i] = value] ELSE r

NotFound(read) ==
  [ok |-> FALSE, frame |-> 0, user |-> FALSE, disable |-> FALSE, read |-> read]

\* Mutated form of Found: cache_disable is not set.
FoundCached(frame, user, disable, read) ==
  [ok |-> TRUE, frame |-> frame, user |-> user, disable |-> FALSE, read |-> read]

Found(frame, user, disable, read) ==
  [ok |-> TRUE, frame |-> frame, user |-> user, disable |-> disable, read |-> read]

\* The address in an entry with only bit 63 and the low bits cleared.
Unmasked(entry) == entry.frame + entry.high * Frames

\* Mutated form of Masked: the upper bits are not cleared.
MaskedNot(entry) == Unmasked(entry)

\* The same & 0x3fffffffff000.
Masked(entry) == entry.frame

\* vaddr_to_phys: present, user and page size are tested level by level. Tables and small
\* pages are masked, large pages of the two middle levels are not.
VaddrToPhys(m, root, v) ==
  LET l2 == Word(m, root, v[1])
      l3 == Word(m, Masked(l2), v[2])
      l4 == Word(m, Masked(l3), v[3])
      phys == Word(m, Masked(l4), v[4])
      user2 == l2.user /\ l3.user
      user3 == user2 /\ l4.user
      in1G  == v[3] * Fan + v[4]
      read2 == {root, Masked(l2)}
      read3 == read2 \cup {Masked(l3)}
      read4 == read3 \cup {Masked(l4)}
  IN  IF ~l2.present THEN NotFound({root})
      ELSE IF l2.large THEN Found(Base(Masked(l2), Fan * Fan) + in1G, l2.user, FALSE, {root})
      ELSE IF ~l3.present THEN NotFound(read2)
      ELSE IF l3.large
           THEN Found(Base(Unmasked(l3), Fan * Fan) + in1G, user2, l3.disable, read2)
      ELSE IF ~l4.present THEN NotFound(read3)
      ELSE IF l4.large THEN Found(Base(Unmasked(l4), Fan) + v[4], user3, l4.disable, read3)
      ELSE IF ~phys.present THEN NotFound(read4)
      ELSE Found(Masked(phys), user3 /\ phys.user, phys.disable, read4)

\* An address is translated if paging is enabled; else is_user_page_access and
\* cache_disable are left as they are.  32-bit tables are not supported.
Translate(cpu, v, user) ==
  IF ~cr[cpu].paging THEN Found(Number(v), user, FALSE, {})
  ELSE IF ~cr[cpu].pae THEN NotFound({})
  ELSE VaddrToPhys(View(replica), cr[cpu].cr3, v)

--------------------------------------------------------------------------------

Init ==
  /\ program \in Programs
  /\ mem = Backing
  /\ replica = [f \in RAM |-> Unloaded]
  /\ registers = InitialCr /\ cr = InitialCr
  /\ userPage \in BOOLEAN
  /\ status = "run"
  /\ event = "none" /\ forwarded = <<>> /\ accessed = <<>> /\ stores = 0

\* What the guest does in an access with paging disabled or four-level tables: is
\* there a page, where, and does it go through the caches?
GuestMapped(cpu, v) ==
  registers[cpu].paging => registers[cpu].pae /\ Mapped(Entries(mem, registers[cpu].cr3, v))
GuestFrame(cpu, v) ==
  IF registers[cpu].paging THEN Target(Entries(mem, registers[cpu].cr3, v), v) ELSE Number(v)
GuestCached(cpu, v) ==
  registers[cpu].paging => LET e == Entries(mem, registers[cpu].cr3, v) IN ~e[Leaf(e)].disable
GuestAccess(cpu, v, i) ==
  IF GuestMapped(cpu, v) /\ GuestCached(cpu, v) THEN <<GuestFrame(cpu, v), i>> ELSE <<>>

\* The accesses a trace has.
Traced(cpu) == status = "run" /\ (registers[cpu].paging \/ program \in RealMode)

\* The simulator ends on an address it cannot translate.
Untranslated(t) ==
  /\ status' = "untranslated"
  /\ replica' = Load(replica, t.read)
  /\ UNCHANGED <<program, mem, registers, cr, userPage, event, forwarded, accessed, stores>>

\* Mutated form of Cleared: nobody clears the flag.
ClearedNot == userPage

\* is_user_page_access when an access begins: only simple clears it.
Cleared == IF program = "simple" THEN FALSE ELSE userPage

\* A load: guest_mem_load_before_exec.
DataLoad(cpu, v, i) ==
  LET t == Translate(cpu, v, Cleared)
  IN  /\ Traced(cpu)
      /\ IF ~t.ok THEN Untranslated(t)
         ELSE /\ event' = "data"
              /\ userPage' = t.user
              /\ replica' = Load(replica, t.read)
              /\ forwarded' = IF t.disable THEN <<>> ELSE <<t.frame, i>>
              /\ accessed' = GuestAccess(cpu, v, i)
              /\ UNCHANGED <<program, mem, registers, cr, status, stores>>

\* A store: guest_mem_store_before_exec.  It is written to the copy unless its page
\* is a user page.
DataStore(cpu, v, i, value) ==
  LET t == Translate(cpu, v, Cleared)
      f == GuestFrame(cpu, v)
      stored == IF f \in RAM THEN [mem EXCEPT ![f][i] = value] ELSE mem
  IN  /\ Traced(cpu) /\ stores < MaxStores
      /\ GuestMapped(cpu, v) => Disciplined(stored)
      /\ IF ~t.ok THEN Untranslated(t)
         ELSE /\ event' = "data"
              /\ userPage' = t.user
              /\ replica' = LET loaded == Load(replica, t.read)
                            IN  IF t.user THEN loaded ELSE Write(loaded, t.frame, i, value)
              /\ forwarded' = IF t.disable THEN <<>> ELSE <<t.frame, i>>
              /\ mem' = stored
              /\ accessed' = GuestAccess(cpu, v, i)
              /\ stores' = stores + 1
              /\ UNCHANGED <<program, registers, cr, status>>

\* A line of the block a CPU starts to execute: guest_start_exec_tb.  The
\* coordinator passes its virtual address on; simple translates it, and skips the
\* rest of the block if it cannot.
Fetch(cpu, v, i) ==
  LET t == Translate(cpu, v, userPage)
  IN  /\ Traced(cpu)
      /\ event' = "fetch" /\ accessed' = GuestAccess(cpu, v, i)
      /\ IF program = "coordinator"
         THEN /\ forwarded' = <<Number(v), i>>
              /\ UNCHANGED <<userPage, replica, status>>
         ELSE /\ userPage' = t.user
              /\ replica' = Load(replica, t.read)
              /\ forwarded' = IF t.ok /\ ~t.disable THEN <<t.frame, i>> ELSE <<>>
              /\ status' = IF cr[cpu].paging /\ ~cr[cpu].pae THEN "untranslated" ELSE status
      /\ UNCHANGED <<program, mem, registers, cr, stores>>

\* Mutated form of SetCrValue: without the offset of the CPU.
SetCrValueOfFirst(values, cpu, new) == [values EXCEPT ![0] = new]

\* set_cr_value.
SetCrValue(values, cpu, new) == [values EXCEPT ![cpu] = new]

\* guest_update_cr.
UpdateCr(cpu, new) ==
  /\ status = "run"
  /\ registers' = [registers EXCEPT ![cpu] = new]
  /\ cr' = SetCrValue(cr, cpu, new)
  /\ UNCHANGED <<program, mem, replica, userPage, status, event, forwarded, accessed, stores>>

\* The event limit, the end of the trace or an unknown event.
End ==
  /\ status = "run"
  /\ status' = "ended"
  /\ UNCHANGED <<program, mem, registers, replica, cr, userPage, event, forwarded, accessed,
                 stores>>

Next ==
  \/ \E cpu \in Cpus : \E v \in Virtual : \E i \in Index :
       \/ DataLoad(cpu, v, i)
       \/ \E value \in Values : DataStore(cpu, v, i, value)
       \/ Fetch(cpu, v, i)
  \/ \E cpu \in Cpus : \E new \in CrValues : UpdateCr(cpu, new)
  \/ End

Spec == Init /\ [][Next]_vars

--------------------------------------------------------------------------------

Address == {<<>>} \cup (Int \X Index)

\* Type invariant of the guest, the copy and the simulators' variables.
TypeOK ==
  /\ program \in Programs
  /\ mem \in [RAM -> Page] /\ replica \in [RAM -> Page \cup {Unloaded}]
  /\ registers \in [Cpus -> Cr] /\ cr \in [Cpus -> Cr] /\ userPage \in BOOLEAN
  /\ status \in {"run", "ended", "untranslated"}
  /\ event \in {"none", "data", "fetch"}
  /\ forwarded \in Address /\ accessed \in Address /\ stores \in Nat

\* Although stores to user pages are skipped (coordinator.c 261, simulator.c 433)
\* and pages are loaded late from a dump of the start (memory.c 40-46), the copy of
\* every page that can hold page tables is what the guest has there.
TablesAgree == \A f \in KernelFrames : View(replica)[f] = mem[f]

\* vaddr_to_phys on the copy (pagetable.c 41-132) is the translation the guest's
\* memory management unit makes at that moment, for every root and page: it
\* finds the same frame, or none, and the same user and cache-disable bits, whatever
\* software bits and protection keys the entries of tables and small pages have.
TranslatesLikeGuest ==
  \A root \in Roots : \A v \in Virtual :
    LET t == VaddrToPhys(View(replica), root, v)
        e == Entries(mem, root, v)
    IN  /\ t.ok <=> Mapped(e)
        /\ t.ok => /\ t.frame = Target(e, v) /\ (t.user <=> UserMode(e))
                   /\ t.disable = e[Leaf(e)].disable

\* The caches are given the physical address the guest accesses, or none if it
\* does not use its caches (coordinator.c 244-272, simulator.c 83-115), except in
\* fetches of the coordinator, whose addresses are never translated.
ForwardsGuestAccess ==
  event = "data" \/ (event = "fetch" /\ program = "simple") => forwarded = accessed

\* simulator.c 432: "all write access are directly written to memory"; user pages
\* apart, which both event loops leave out, a store of the guest is in the copy.
StoreReachesMemory ==
  [][\A cpu \in Cpus : \A v \in Virtual : \A i \in Index : \A value \in Values :
       /\ DataStore(cpu, v, i, value) /\ status' = "run" /\ GuestFrame(cpu, v) \in RAM
       /\ registers[cpu].paging => ~UserMode(Entries(mem, registers[cpu].cr3, v))
       => View(replica')[GuestFrame(cpu, v)][i] = value]_vars
================================================================================
