------------------------------- MODULE SimMemory -------------------------------
(***************************************************************************)
(* The simulated memory of memory/memory.c (MULTI_LEVEL_MEMORY) and        *)
(* memory/memory_range.c, byte by byte: several address ranges, each with  *)
(* a dump its pages are read from when they are first accessed, and        *)
(* accesses that run over the end of a page.                               *)
(*                                                                         *)
(* A byte is named by where it comes from: a place in a dump, or a store.  *)
(***************************************************************************)
EXTENDS Integers, Sequences, FiniteSets

CONSTANTS
  PageSize,         \* bytes of a page (2^12)
  Level2, Level1,   \* pages of a table and tables of a memory (2^14 each)
  AddressLimit      \* what read_sim_memory refuses (2^42)

VARIABLES
  memories,     \* the array of struct Memory: the range and the dump of each
  table,        \* the pages loaded so far, by memory and table indexes
  exited,       \* exit(1) was called
  flat,         \* what the guest has at each address of a range
  lost          \* addresses whose last store was never copied

memoryVars == <<memories, table, exited, flat, lost>>

ASSUME SimMemoryAssumption ==
  /\ PageSize \in Nat \ {0} /\ Level2 \in Nat \ {0} /\ Level1 \in Nat \ {0}
  /\ AddressLimit \in Nat

FromDump(m, offset) == <<m.start, offset>>
FromStore(n, a)     == <<n, a, "store">>

InRange(m, a) == m.start <= a /\ a < m.end

\* A range as QEMU writes them: of whole pages, and no more than the tables have room for.
WholePages(m) ==
  /\ m.start % PageSize = 0 /\ m.end % PageSize = 0 /\ m.start <= m.end
  /\ m.end - m.start <= PageSize * Level2 * Level1

\* get_memory_for_address: the first memory whose range has the address, or none.
MemoryFor(a) ==
  {i \in DOMAIN memories :
     /\ InRange(memories[i], a)
     /\ \A j \in DOMAIN memories : j < i => ~InRange(memories[j], a)}

\* The two table indexes of an address, in the tables of memory i.
Slot(i, a) ==
  LET page == a \div PageSize IN <<i, (page \div Level2) % Level1, page % Level2>>

\* Mutated form of PageOffset: the offset of an address in the memory, not in the range.
PageOffsetAbsolute(m, a) == (a \div PageSize) * PageSize

\* Where the page of an address starts in the dump of its memory.
PageOffset(m, a) == ((a - m.start) \div PageSize) * PageSize

\* init_last_level_memory.
PageOf(m, a) == [k \in 0 .. PageSize - 1 |-> FromDump(m, PageOffset(m, a) + k)]
InDump(m, a) == PageOffset(m, a) + PageSize <= m.dump

\* The parts an access is made of: two if it runs over the end of its page.
Parts(a, n) ==
  LET left == PageSize - (a % PageSize)
  IN  IF n > left THEN {[addr |-> a, size |-> left], [addr |-> a + left, size |-> n - left]}
                  ELSE {[addr |-> a, size |-> n]}

\* The parts that are in some memory; none if the access starts outside of all.
PartsInMemory(a, n) ==
  IF MemoryFor(a) = {} THEN {} ELSE {p \in Parts(a, n) : MemoryFor(p.addr) # {}}

\* The memory and the part of each page that is not loaded yet.
Missing(a, n) ==
  {x \in (DOMAIN memories) \X PartsInMemory(a, n) :
     x[1] \in MemoryFor(x[2].addr) /\ Slot(x[1], x[2].addr) \notin DOMAIN table}

\* find_in_level: the tables once the pages of an access have been loaded.
Loaded(a, n) ==
  [s \in DOMAIN table \cup {Slot(x[1], x[2].addr) : x \in Missing(a, n)} |->
     IF s \in DOMAIN table THEN table[s]
     ELSE LET x == CHOOSE y \in Missing(a, n) : Slot(y[1], y[2].addr) = s
          IN  PageOf(memories[x[1]], x[2].addr)]

\* Mutated form of Copied: there is none for eight bytes.
CopiedButEight(n) == n \in {1, 2, 4}

\* The sizes read_sim_memory and write_sim_memory have an assignment for. A part of
\* another size is skipped, and counted as done.
Copied(n) == n \in {1, 2, 4, 8}

\* A copied part of an access has byte k of the page in slot s.
Covers(a, n, s, k) ==
  \E p \in PartsInMemory(a, n) :
    /\ Copied(p.size)
    /\ \E i \in MemoryFor(p.addr) : Slot(i, p.addr) = s
    /\ p.addr % PageSize <= k /\ k < (p.addr % PageSize) + p.size

\* The addresses whose bytes a store of n bytes at a copies.
Written(a, n) ==
  UNION {p.addr .. p.addr + p.size - 1 : p \in {q \in PartsInMemory(a, n) : Copied(q.size)}}

--------------------------------------------------------------------------------

MemoryInit ==
  /\ memories = <<>> /\ table = <<>> /\ exited = FALSE
  /\ flat = <<>> /\ lost = {}

\* init_memory, for the next element of the array.
InitMemory(m) ==
  /\ memories' = Append(memories, m)
  /\ flat' = [a \in DOMAIN flat \cup (m.start .. m.end - 1) |->
                IF a \in DOMAIN flat THEN flat[a] ELSE FromDump(m, a - m.start)]
  /\ UNCHANGED <<table, lost>>

\* fread fails for a page that the dump does not have, and the program ends.
ShortDump(a, n) ==
  \E x \in Missing(a, n) : ~InDump(memories[x[1]], x[2].addr)

\* read_sim_memory.
Read(a, n) ==
  /\ IF a >= AddressLimit THEN UNCHANGED <<table, exited>>
     ELSE IF ShortDump(a, n) THEN exited' = TRUE /\ UNCHANGED table
     ELSE table' = Loaded(a, n) /\ UNCHANGED exited
  /\ UNCHANGED <<memories, flat, lost>>

\* The tables after store number v.
Stored(a, n, v) ==
  [s \in DOMAIN Loaded(a, n) |-> [k \in 0 .. PageSize - 1 |->
     IF Covers(a, n, s, k) THEN FromStore(v, a + ((k - a) % PageSize)) ELSE Loaded(a, n)[s][k]]]

\* write_sim_memory.
Write(a, n, v) ==
  /\ flat' = [b \in DOMAIN flat |-> IF b \in a .. a + n - 1 THEN FromStore(v, b) ELSE flat[b]]
  /\ lost' = (lost \cup ((a .. a + n - 1) \cap DOMAIN flat)) \ Written(a, n)
  /\ IF ShortDump(a, n) THEN exited' = TRUE /\ UNCHANGED table
     ELSE table' = Stored(a, n, v) /\ UNCHANGED exited
  /\ UNCHANGED memories

--------------------------------------------------------------------------------

\* What read_sim_memory finds at an address of memory i.
ByteAt(i, a) ==
  IF Slot(i, a) \in DOMAIN table THEN table[Slot(i, a)][a % PageSize]
                                 ELSE PageOf(memories[i], a)[a % PageSize]

\* The tables, the pages still to be loaded and the dumps together are one flat memory: at
\* every address of every range they have the byte that was last stored there, or the one
\* of the dump. (memory.c 29-67, 147-168: a page is loaded before it is stored to, its
\* place in the dump is relative to the range, and no two pages share a slot.) Stores that
\* were never copied are excepted.
MemoryIsFlat ==
  ~exited => \A a \in DOMAIN flat \ lost : \A i \in MemoryFor(a) : ByteAt(i, a) = flat[a]
================================================================================
