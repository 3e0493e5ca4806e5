--------------------------- MODULE EventLoopsProofs ---------------------------
(***************************************************************************)
(* The lemmas about the loops that the theorems about the programs rest    *)
(* on, for every size of pages, words and bytes: the tables of the         *)
(* simulated memory and the dumps are one flat memory, a block of code     *)
(* has the lines that are accessed, and a reader makes of the bytes of an  *)
(* event what the writer meant.                                            *)
(***************************************************************************)
EXTENDS EventLoops, TLAPS, FiniteSetTheorems, SequenceTheorems, WellFoundedInduction

\* The ranges memories are made for.
PagedMemory == {m \in [start : Nat, end : Nat, dump : Nat] : WholePages(m)}

\* The shape of the memories, their tables and the flat memory they stand for.
MemoryShape ==
  /\ memories \in Seq(PagedMemory)
  /\ DOMAIN flat \subseteq Nat
  /\ \A a \in Nat : a \in DOMAIN flat <=> MemoryFor(a) # {}
  /\ \A s \in DOMAIN table : s[1] \in DOMAIN memories
  /\ lost \subseteq DOMAIN flat

\* The bytes that were not lost are where the guest stored them.
Flat == \A a \in DOMAIN flat \ lost : \A i \in MemoryFor(a) : ByteAt(i, a) = flat[a]

--------------------------------------------------------------------------------
(* Division. *)

LEMMA DivMod ==
  ASSUME NEW d \in Nat \ {0}, NEW a \in Nat
  PROVE  a \div d \in Nat /\ a % d \in 0 .. d - 1 /\ a = d * (a \div d) + (a % d)
<1>1. a = d * (a \div d) + (a % d)
  OBVIOUS
<1>2. a % d \in 0 .. d - 1
  OBVIOUS
<1>3. a \div d \in Nat
  OBVIOUS
<1>. QED
  BY <1>1, <1>2, <1>3

LEMMA DivUnique ==
  ASSUME NEW d \in Nat \ {0}, NEW q \in Int, NEW r \in 0 .. d - 1, NEW a \in Int,
         a = d * q + r
  PROVE  a \div d = q /\ a % d = r
OBVIOUS

\* Products grow with their factors.
LEMMA Multiples ==
  ASSUME NEW d \in Nat \ {0}, NEW x \in Int, NEW y \in Int
  PROVE  /\ d * x < d * y <=> x < y
         /\ d * x <= d * y <=> x <= y
OBVIOUS

\* Numbers with the same remainder that are less than the divisor apart are the same.
LEMMA ModApart ==
  ASSUME NEW d \in Nat \ {0}, NEW x \in Nat, NEW y \in Nat, x % d = y % d,
         x < y + d, y < x + d
  PROVE  x = y
<1>1. /\ x = d * (x \div d) + (x % d) /\ y = d * (y \div d) + (y % d)
      /\ x \div d \in Nat /\ y \div d \in Nat
      /\ x % d \in 0 .. d - 1 /\ y % d \in 0 .. d - 1
  <2>1. x \div d \in Nat /\ x % d \in 0 .. d - 1 /\ x = d * (x \div d) + (x % d)
    BY DivMod
  <2>2. y \div d \in Nat /\ y % d \in 0 .. d - 1 /\ y = d * (y \div d) + (y % d)
    BY DivMod
  <2>. QED
    BY <2>1, <2>2
<1>2. PICK p \in Nat, q \in Nat : p = x \div d /\ q = y \div d
  BY <1>1
<1>3. d * p < d * q + d /\ d * q < d * p + d
  BY <1>1, <1>2
<1>4. d * q + d = d * (q + 1) /\ d * p + d = d * (p + 1)
  BY <1>2
<1>5. p < q + 1 /\ q < p + 1
  BY <1>3, <1>4, Multiples
<1>. QED
  BY <1>1, <1>2, <1>5

--------------------------------------------------------------------------------
(* Pages and slots. *)

\* The page and the place in it of an address.
LEMMA PageAndPlace ==
  ASSUME NEW a \in Nat
  PROVE  /\ a \div PageSize \in Nat /\ a % PageSize \in 0 .. PageSize - 1
         /\ a = PageSize * (a \div PageSize) + (a % PageSize)
BY DivMod, SimMemoryAssumption

LEMMA PageStart ==
  ASSUME NEW a \in Nat, a % PageSize = 0
  PROVE  \E s \in Nat : a = PageSize * s
<1>1. a \div PageSize \in Nat /\ a = PageSize * (a \div PageSize) + (a % PageSize)
  BY PageAndPlace
<1>2. PICK s \in Nat : s = a \div PageSize
  BY <1>1
<1>3. a = PageSize * s
  BY <1>1, <1>2, SimMemoryAssumption
<1>. QED
  BY <1>3

\* A range of whole pages has all of the page of an address or nothing of it.
LEMMA SamePageOneWay ==
  ASSUME NEW m \in PagedMemory, NEW a \in Nat, NEW b \in Nat,
         a \div PageSize = b \div PageSize, InRange(m, a)
  PROVE  InRange(m, b)
<1>1. m.start \in Nat /\ m.end \in Nat /\ m.start % PageSize = 0 /\ m.end % PageSize = 0
  BY DEF PagedMemory, WholePages
<1>2. PICK s \in Nat : m.start = PageSize * s
  BY <1>1, PageStart
<1>3. PICK e \in Nat : m.end = PageSize * e
  BY <1>1, PageStart
<1>4. PICK q \in Nat, x \in 0 .. PageSize - 1, y \in 0 .. PageSize - 1 :
        a = PageSize * q + x /\ b = PageSize * q + y
  <2>1. /\ a \div PageSize \in Nat /\ a % PageSize \in 0 .. PageSize - 1
        /\ a = PageSize * (a \div PageSize) + (a % PageSize)
    BY PageAndPlace
  <2>2. b % PageSize \in 0 .. PageSize - 1 /\ b = PageSize * (b \div PageSize) + (b % PageSize)
    BY PageAndPlace
  <2>. QED
    BY <2>1, <2>2
<1>5. PageSize \in Nat \ {0}
  BY SimMemoryAssumption
<1>6. PageSize * s \in Nat /\ PageSize * e \in Nat /\ PageSize * q \in Nat
      /\ PageSize * (q + 1) = PageSize * q + PageSize
  BY <1>5
<1>7. s <= q
  <2>1. PageSize * s < PageSize * (q + 1)
    BY <1>2, <1>4, <1>5, <1>6 DEF InRange
  <2>. QED
    BY <1>5, <2>1, Multiples
<1>8. q + 1 <= e
  <2>1. PageSize * q < PageSize * e
    BY <1>3, <1>4, <1>5, <1>6 DEF InRange
  <2>. QED
    BY <1>5, <2>1, Multiples
<1>9. PageSize * s <= PageSize * q /\ PageSize * (q + 1) <= PageSize * e
  BY <1>5, <1>7, <1>8, Multiples
<1>. QED
  BY <1>2, <1>3, <1>4, <1>5, <1>6, <1>9 DEF InRange

\* The addresses of a page are in the same memory.
LEMMA SamePage ==
  ASSUME MemoryShape, NEW a \in Nat, NEW b \in Nat, a \div PageSize = b \div PageSize
  PROVE  MemoryFor(a) = MemoryFor(b)
<1>1. \A i \in DOMAIN memories : memories[i] \in PagedMemory
  BY DEF MemoryShape
<1>2. \A i \in DOMAIN memories : InRange(memories[i], a) <=> InRange(memories[i], b)
  BY <1>1, SamePageOneWay
<1>. QED
  BY <1>2 DEF MemoryFor

\* No address is in two memories.
LEMMA OneMemory ==
  ASSUME MemoryShape, NEW a, NEW i \in MemoryFor(a), NEW j \in MemoryFor(a)
  PROVE  i = j
<1>1. DOMAIN memories = 1 .. Len(memories) /\ Len(memories) \in Nat
  BY DEF MemoryShape
<1>. QED
  BY <1>1 DEF MemoryFor

\* The place of an address in the dump of its memory, by way of any address of its page.
LEMMA PlaceInDump ==
  ASSUME NEW m \in PagedMemory, NEW a \in Nat, InRange(m, a),
         NEW b \in Nat, b \div PageSize = a \div PageSize
  PROVE  PageOf(m, b)[a % PageSize] = FromDump(m, a - m.start)
<1>1. m.start \in Nat /\ m.start % PageSize = 0
  BY DEF PagedMemory, WholePages
<1>2. PICK s \in Nat : m.start = PageSize * s
  BY <1>1, PageStart
<1>3. PICK p \in Nat, x \in 0 .. PageSize - 1, y \in 0 .. PageSize - 1 :
        /\ a = PageSize * p + x /\ b = PageSize * p + y /\ x = a % PageSize
  <2>1. /\ a \div PageSize \in Nat /\ a % PageSize \in 0 .. PageSize - 1
        /\ a = PageSize * (a \div PageSize) + (a % PageSize)
    BY PageAndPlace
  <2>2. b % PageSize \in 0 .. PageSize - 1 /\ b = PageSize * (b \div PageSize) + (b % PageSize)
    BY PageAndPlace
  <2>. QED
    BY <2>1, <2>2
<1>4. PageSize \in Nat \ {0}
  BY SimMemoryAssumption
<1>5. PICK q \in Int : q = p - s
  OBVIOUS
<1>6. PageSize * q = PageSize * p - PageSize * s /\ PageSize * q \in Int /\ PageSize * p \in Int
  BY <1>4, <1>5
<1>7. b - m.start = PageSize * q + y /\ a - m.start = PageSize * q + x /\ b - m.start \in Int
  BY <1>2, <1>3, <1>4, <1>6
<1>8. (b - m.start) \div PageSize = q
  <2>1. PICK z \in Int : z = b - m.start
    BY <1>7
  <2>2. z = PageSize * q + y /\ y \in 0 .. PageSize - 1
    BY <1>3, <1>7, <2>1
  <2>3. z \div PageSize = q
    BY <1>4, <2>2, DivUnique, Zenon
  <2>. QED
    BY <2>1, <2>3
<1>9. PageOffset(m, b) + x = a - m.start
  <2>1. PageOffset(m, b) = PageSize * q
    BY <1>4, <1>8 DEF PageOffset
  <2>. QED
    BY <1>7, <2>1
<1>. QED
  BY <1>3, <1>9 DEF PageOf

\* Two addresses of a memory have a slot in common only if they are in the same page.
LEMMA SlotApart ==
  ASSUME MemoryShape, NEW a \in Nat, NEW b \in Nat, NEW i \in MemoryFor(a), NEW j \in MemoryFor(b),
         Slot(i, a) = Slot(j, b)
  PROVE  i = j /\ a \div PageSize = b \div PageSize
<1>1. /\ PageSize \in Nat \ {0} /\ Level2 \in Nat \ {0} /\ Level1 \in Nat \ {0}
  BY SimMemoryAssumption
<1>2. PICK m \in PagedMemory : m = memories[i] /\ InRange(m, a) /\ InRange(m, b) /\ i = j
  BY DEF MemoryShape, MemoryFor, Slot
<1>3. PICK p \in Nat, q \in Nat : p = a \div PageSize /\ q = b \div PageSize
  BY PageAndPlace
<1>4. (p \div Level2) % Level1 = (q \div Level2) % Level1 /\ p % Level2 = q % Level2
  BY <1>3 DEF Slot
<1>5. PICK t \in Nat : t = Level2 * Level1
  BY <1>1
<1>6. p < q + t /\ q < p + t
  <2>1. PICK s \in Nat : m.start = PageSize * s
    <3>1. m.start \in Nat /\ m.start % PageSize = 0
      BY DEF PagedMemory, WholePages
    <3>. QED
      BY <3>1, PageStart
  <2>2. m.end \in Nat /\ m.end <= PageSize * s + PageSize * t
    <3>1. m.end \in Nat /\ m.end - m.start <= PageSize * Level2 * Level1
      BY DEF PagedMemory, WholePages
    <3>2. PageSize * Level2 * Level1 = PageSize * t
      BY <1>1, <1>5
    <3>. QED
      BY <1>1, <1>5, <2>1, <3>1, <3>2
  <2>3. ASSUME NEW x \in Nat, InRange(m, x)
        PROVE  s <= x \div PageSize /\ x \div PageSize < s + t
    <3>1. /\ x \div PageSize \in Nat /\ x % PageSize \in 0 .. PageSize - 1
          /\ x = PageSize * (x \div PageSize) + (x % PageSize)
      BY PageAndPlace
    <3>2. PICK y \in Nat : y = x \div PageSize
      BY <3>1
    <3>3. /\ PageSize * y \in Nat /\ PageSize * s \in Nat /\ PageSize * (s + t) \in Nat
          /\ PageSize * (y + 1) = PageSize * y + PageSize
          /\ PageSize * (s + t) = PageSize * s + PageSize * t
      BY <1>1
    <3>4. PageSize * s < PageSize * (y + 1) /\ PageSize * y < PageSize * (s + t)
      BY <1>1, <2>1, <2>2, <2>3, <3>1, <3>2, <3>3 DEF InRange
    <3>5. s < y + 1 /\ y < s + t
      BY <1>1, <3>4, Multiples
    <3>. QED
      BY <3>2, <3>5
  <2>4. s <= p /\ p < s + t /\ s <= q /\ q < s + t
    BY <1>2, <1>3, <2>3
  <2>. QED
    BY <2>4
<1>7. PICK u \in Nat, v \in Nat : u = p \div Level2 /\ v = q \div Level2
  BY <1>1, DivMod
<1>8. PICK r \in 0 .. Level2 - 1 : p = Level2 * u + r /\ q = Level2 * v + r
  <2>1. p = Level2 * u + (p % Level2) /\ p % Level2 \in 0 .. Level2 - 1
    BY <1>1, <1>7, DivMod
  <2>2. q = Level2 * v + (q % Level2)
    BY <1>1, <1>7, DivMod
  <2>. QED
    BY <1>4, <2>1, <2>2
<1>9. u < v + Level1 /\ v < u + Level1
  <2>1. /\ Level2 * (v + Level1) = Level2 * v + t /\ Level2 * (u + Level1) = Level2 * u + t
        /\ Level2 * u \in Nat /\ Level2 * v \in Nat
    BY <1>1, <1>5
  <2>2. Level2 * u < Level2 * (v + Level1) /\ Level2 * v < Level2 * (u + Level1)
    BY <1>6, <1>8, <2>1
  <2>. QED
    BY <1>1, <2>2, Multiples
<1>10. u = v
  BY <1>1, <1>4, <1>7, <1>9, ModApart
<1>. QED
  BY <1>2, <1>3, <1>8, <1>10

--------------------------------------------------------------------------------
(* The parts of an access. *)

\* An access that may be made: it is not a little longer than a page.
Sized(a, n) == a \in Nat /\ n \in Nat /\ (n <= PageSize \/ n > PageSize + 8)

LEMMA PartsAre ==
  ASSUME NEW a \in Nat, NEW n \in Nat, NEW p \in Parts(a, n)
  PROVE  /\ p.addr \in Nat /\ p.size \in Nat
         /\ a <= p.addr /\ p.addr + p.size <= a + n
         /\ p.addr = a \/ p.addr % PageSize = 0
<1>1. PICK left \in 1 .. PageSize : left = PageSize - (a % PageSize)
  <2>1. a % PageSize \in 0 .. PageSize - 1 /\ PageSize \in Nat \ {0}
    BY PageAndPlace, SimMemoryAssumption
  <2>. QED
    BY <2>1
<1>2. PageSize \in Nat \ {0}
  BY SimMemoryAssumption
<1>3. CASE n > left
  <2>1. p = [addr |-> a, size |-> left] \/ p = [addr |-> a + left, size |-> n - left]
    BY <1>1, <1>3 DEF Parts
  <2>2. CASE p = [addr |-> a, size |-> left]
    BY <1>1, <1>2, <1>3, <2>2
  <2>3. CASE p = [addr |-> a + left, size |-> n - left]
    <3>1. p.addr = a + left /\ p.size = n - left
      BY <2>3
    <3>2. p.addr % PageSize = 0
      <4>1. PICK q \in Nat : q = a \div PageSize
        BY PageAndPlace
      <4>2. a = PageSize * q + (a % PageSize) /\ a % PageSize \in 0 .. PageSize - 1
        BY <4>1, PageAndPlace
      <4>3. PageSize * (q + 1) = PageSize * q + PageSize /\ PageSize * q \in Nat
        BY <1>2
      <4>4. p.addr = PageSize * (q + 1) + 0
        BY <1>1, <1>2, <3>1, <4>2, <4>3
      <4>5. p.addr \in Int /\ 0 \in 0 .. PageSize - 1 /\ q + 1 \in Int
        BY <1>1, <1>2, <3>1
      <4>. QED
        BY <1>2, <4>4, <4>5, DivUnique
    <3>. QED
      BY <1>1, <1>2, <1>3, <3>1, <3>2
  <2>. QED
    BY <2>1, <2>2, <2>3
<1>4. CASE ~(n > left)
  <2>1. p = [addr |-> a, size |-> n]
    BY <1>1, <1>4 DEF Parts
  <2>. QED
    BY <2>1
<1>. QED
  BY <1>3, <1>4

\* A part that is copied is in one page, and less than a page from the start of the access.
LEMMA CopiedPart ==
  ASSUME NEW a, NEW n, Sized(a, n), NEW p \in Parts(a, n), Copied(p.size)
  PROVE  (p.addr % PageSize) + p.size <= PageSize /\ p.addr + p.size <= a + PageSize
<1>1. /\ a \in Nat /\ n \in Nat /\ (n <= PageSize \/ n > PageSize + 8)
      /\ PageSize \in Nat \ {0} /\ p.size <= 8
  BY SimMemoryAssumption DEF Sized, Copied
<1>2. PICK left \in 1 .. PageSize : left = PageSize - (a % PageSize)
  <2>1. a % PageSize \in 0 .. PageSize - 1
    BY <1>1, PageAndPlace
  <2>. QED
    BY <1>1, <2>1
<1>3. a % PageSize = PageSize - left
  <2>1. a % PageSize \in 0 .. PageSize - 1
    BY <1>1, PageAndPlace
  <2>. QED
    BY <1>1, <1>2, <2>1
<1>4. CASE n > left
  <2>1. p = [addr |-> a, size |-> left] \/ p = [addr |-> a + left, size |-> n - left]
    BY <1>2, <1>4 DEF Parts
  <2>2. CASE p = [addr |-> a, size |-> left]
    BY <1>1, <1>2, <1>3, <2>2
  <2>3. CASE p = [addr |-> a + left, size |-> n - left]
    <3>1. p.addr = a + left /\ p.size = n - left
      BY <2>3
    <3>2. p.addr % PageSize = 0
      BY <1>1, <1>2, <3>1, PartsAre
    <3>3. n <= PageSize
      BY <1>1, <1>2, <3>1
    <3>. QED
      BY <1>1, <1>2, <3>1, <3>2, <3>3
  <2>. QED
    BY <2>1, <2>2, <2>3
<1>5. CASE ~(n > left)
  <2>1. p.addr = a /\ p.size = n
    BY <1>2, <1>5 DEF Parts
  <2>. QED
    BY <1>1, <1>2, <1>3, <1>5, <2>1
<1>. QED
  BY <1>4, <1>5

\* Which addresses a part has that is in one page.
LEMMA PlaceInPart ==
  ASSUME NEW b \in Nat, NEW size \in Nat, (b % PageSize) + size <= PageSize, NEW x \in Nat
  PROVE  x \in b .. b + size - 1 <=>
           /\ b \div PageSize = x \div PageSize
           /\ b % PageSize <= x % PageSize /\ x % PageSize < (b % PageSize) + size
<1>1. PageSize \in Nat \ {0}
  BY SimMemoryAssumption
<1>2. PICK q \in Nat, r \in 0 .. PageSize - 1 :
        b = PageSize * q + r /\ q = b \div PageSize /\ r = b % PageSize
  BY PageAndPlace
<1>3. PageSize * q \in Nat
  BY <1>1
<1>4. ASSUME x \in b .. b + size - 1
      PROVE  x \div PageSize = q /\ x % PageSize = r + (x - b)
  <2>1. PICK k \in 0 .. PageSize - 1 : k = r + (x - b)
    <3>1. r + (x - b) \in 0 .. PageSize - 1
      BY <1>1, <1>2, <1>4
    <3>. QED
      BY <3>1
  <2>2. x = PageSize * q + k
    <3>1. PICK w \in Nat : w = PageSize * q
      BY <1>3
    <3>2. b = PageSize * q + r
      BY <1>2
    <3>3. b = w + r
      BY <3>1, <3>2
    <3>4. x = w + k
      BY <2>1, <3>1, <3>3
    <3>. QED
      BY <3>1, <3>4
  <2>. QED
    BY <1>1, <2>1, <2>2, DivUnique
<1>5. ASSUME x \div PageSize = q, r <= x % PageSize, x % PageSize < r + size
      PROVE  x \in b .. b + size - 1
  <2>1. x = PageSize * q + (x % PageSize) /\ x % PageSize \in 0 .. PageSize - 1
    BY <1>5, PageAndPlace
  <2>. QED
    BY <1>1, <1>2, <1>3, <1>5, <2>1
<1>. QED
  BY <1>2, <1>4, <1>5

--------------------------------------------------------------------------------
(* What loading and storing does to the byte at an address. *)

LEMMA LoadedHas ==
  ASSUME NEW a, NEW n, NEW s \in DOMAIN Loaded(a, n), s \notin DOMAIN table
  PROVE  \E y \in Missing(a, n) :
           Slot(y[1], y[2].addr) = s /\ Loaded(a, n)[s] = PageOf(memories[y[1]], y[2].addr)
<1>1. s \in {Slot(y[1], y[2].addr) : y \in Missing(a, n)}
  BY DEF Loaded
<1>2. PICK x : x = CHOOSE y \in Missing(a, n) : Slot(y[1], y[2].addr) = s
  OBVIOUS
<1>3. x \in Missing(a, n) /\ Slot(x[1], x[2].addr) = s
  BY <1>1, <1>2
<1>4. Loaded(a, n)[s] = PageOf(memories[x[1]], x[2].addr)
  BY <1>1, <1>2 DEF Loaded
<1>. QED
  BY <1>3, <1>4

\* What is missing is of a part in a memory.
LEMMA MissingIs ==
  ASSUME MemoryShape, NEW a \in Nat, NEW n \in Nat, NEW y \in Missing(a, n)
  PROVE  /\ y[1] \in DOMAIN memories /\ y[1] \in MemoryFor(y[2].addr)
         /\ y[2] \in Parts(a, n) /\ y[2].addr \in Nat
<1>1. /\ y[1] \in DOMAIN memories /\ y[1] \in MemoryFor(y[2].addr) /\ y[2] \in Parts(a, n)
  BY DEF Missing, PartsInMemory
<1>. QED
  BY <1>1, PartsAre

\* Loading pages changes no byte of the memory.
LEMMA LoadedByte ==
  ASSUME MemoryShape, NEW a \in Nat, NEW n \in Nat, NEW x \in Nat, NEW i \in MemoryFor(x),
         Slot(i, x) \in DOMAIN Loaded(a, n)
  PROVE  Loaded(a, n)[Slot(i, x)][x % PageSize] = ByteAt(i, x)
<1>1. CASE Slot(i, x) \in DOMAIN table
  BY <1>1 DEF Loaded, ByteAt
<1>2. CASE Slot(i, x) \notin DOMAIN table
  <2>1. PICK y \in Missing(a, n) :
          /\ Slot(y[1], y[2].addr) = Slot(i, x)
          /\ Loaded(a, n)[Slot(i, x)] = PageOf(memories[y[1]], y[2].addr)
    BY <1>2, LoadedHas
  <2>2. PICK j \in DOMAIN memories, b \in Nat : j = y[1] /\ b = y[2].addr /\ j \in MemoryFor(b)
    BY <2>1, MissingIs
  <2>3. i = j /\ x \div PageSize = b \div PageSize
    BY <2>1, <2>2, SlotApart
  <2>4. PICK m \in PagedMemory : m = memories[i] /\ InRange(m, x)
    BY DEF MemoryShape, MemoryFor
  <2>5. PageOf(m, b)[x % PageSize] = FromDump(m, x - m.start)
    BY <2>3, <2>4, PlaceInDump
  <2>6. PageOf(m, x)[x % PageSize] = FromDump(m, x - m.start)
    BY <2>4, PlaceInDump
  <2>. QED
    BY <1>2, <2>1, <2>2, <2>3, <2>4, <2>5, <2>6 DEF ByteAt
<1>. QED
  BY <1>1, <1>2

\* The place a store has in a page is that of the addresses it copies, and of no others.
LEMMA CoversIs ==
  ASSUME MemoryShape, NEW a, NEW n, Sized(a, n), NEW x \in Nat, NEW i \in MemoryFor(x)
  PROVE  Covers(a, n, Slot(i, x), x % PageSize) <=> x \in Written(a, n)
<1>1. a \in Nat /\ n \in Nat
  BY DEF Sized
<1>2. ASSUME NEW p \in PartsInMemory(a, n), Copied(p.size)
      PROVE  /\ p.addr \in Nat /\ p.size \in Nat /\ (p.addr % PageSize) + p.size <= PageSize
             /\ x \in p.addr .. p.addr + p.size - 1 <=>
                  /\ p.addr \div PageSize = x \div PageSize
                  /\ p.addr % PageSize <= x % PageSize /\ x % PageSize < (p.addr % PageSize) + p.size
  <2>1. p \in Parts(a, n)
    BY DEF PartsInMemory
  <2>2. p.addr \in Nat /\ p.size \in Nat
    BY <1>1, <2>1, PartsAre
  <2>3. (p.addr % PageSize) + p.size <= PageSize
    BY <1>2, <2>1, CopiedPart
  <2>4. PICK b \in Nat, size \in Nat : b = p.addr /\ size = p.size
    BY <2>2
  <2>5. x \in b .. b + size - 1 <=>
           /\ b \div PageSize = x \div PageSize
           /\ b % PageSize <= x % PageSize /\ x % PageSize < (b % PageSize) + size
    BY <2>3, <2>4, PlaceInPart
  <2>. QED
    BY <2>2, <2>3, <2>4, <2>5
<1>3. ASSUME NEW p \in PartsInMemory(a, n), Copied(p.size),
             NEW j \in MemoryFor(p.addr), Slot(j, p.addr) = Slot(i, x)
      PROVE  p.addr \div PageSize = x \div PageSize
  BY <1>2, <1>3, SlotApart
<1>4. ASSUME NEW p \in PartsInMemory(a, n), Copied(p.size), p.addr \div PageSize = x \div PageSize
      PROVE  i \in MemoryFor(p.addr) /\ Slot(i, p.addr) = Slot(i, x)
  <2>1. i \in MemoryFor(p.addr)
    BY <1>2, <1>4, SamePage
  <2>. QED
    BY <1>4, <2>1 DEF Slot
<1>5. ASSUME Covers(a, n, Slot(i, x), x % PageSize)
      PROVE  x \in Written(a, n)
  <2>1. PICK p \in PartsInMemory(a, n) :
          /\ Copied(p.size)
          /\ \E j \in MemoryFor(p.addr) : Slot(j, p.addr) = Slot(i, x)
          /\ p.addr % PageSize <= x % PageSize /\ x % PageSize < (p.addr % PageSize) + p.size
    BY <1>5 DEF Covers
  <2>2. p.addr \div PageSize = x \div PageSize
    BY <1>3, <2>1
  <2>3. x \in p.addr .. p.addr + p.size - 1
    BY <1>2, <2>1, <2>2
  <2>. QED
    BY <2>1, <2>3 DEF Written
<1>6. ASSUME x \in Written(a, n)
      PROVE  Covers(a, n, Slot(i, x), x % PageSize)
  <2>1. PICK p \in PartsInMemory(a, n) : Copied(p.size) /\ x \in p.addr .. p.addr + p.size - 1
    BY <1>6 DEF Written
  <2>2. /\ p.addr \div PageSize = x \div PageSize
        /\ p.addr % PageSize <= x % PageSize /\ x % PageSize < (p.addr % PageSize) + p.size
    BY <1>2, <2>1
  <2>3. i \in MemoryFor(p.addr) /\ Slot(i, p.addr) = Slot(i, x)
    BY <1>4, <2>1, <2>2
  <2>. QED
    BY <2>1, <2>2, <2>3 DEF Covers
<1>. QED
  BY <1>5, <1>6

\* An address that is copied is one of the store, and its page is loaded.
LEMMA StoredPlace ==
  ASSUME MemoryShape, NEW a, NEW n, Sized(a, n), NEW x \in Written(a, n)
  PROVE  /\ x \in Nat /\ x \in a .. a + n - 1
         /\ a + (((x % PageSize) - a) % PageSize) = x
         /\ \A i \in MemoryFor(x) : Slot(i, x) \in DOMAIN Loaded(a, n)
<1>1. a \in Nat /\ n \in Nat /\ PageSize \in Nat \ {0}
  BY SimMemoryAssumption DEF Sized
<1>2. PICK p \in PartsInMemory(a, n) : Copied(p.size) /\ x \in p.addr .. p.addr + p.size - 1
  BY DEF Written
<1>3. p \in Parts(a, n) /\ MemoryFor(p.addr) # {}
  BY <1>2 DEF PartsInMemory
<1>4. PICK b \in Nat, size \in Nat : b = p.addr /\ size = p.size /\ a <= b /\ b + size <= a + n
  BY <1>1, <1>3, PartsAre
<1>5. (b % PageSize) + size <= PageSize /\ b + size <= a + PageSize
  BY <1>2, <1>3, <1>4, CopiedPart
<1>6. x \in Nat /\ x \in b .. b + size - 1 /\ a <= x /\ x < a + PageSize
  BY <1>1, <1>2, <1>4, <1>5
<1>7. b \div PageSize = x \div PageSize
  BY <1>5, <1>6, PlaceInPart
<1>8. a + (((x % PageSize) - a) % PageSize) = x
  <2>1. PICK q \in Nat, k \in 0 .. PageSize - 1 : x = PageSize * q + k /\ k = x % PageSize
    BY <1>6, PageAndPlace
  <2>2. PICK w \in Nat : w = PageSize * q
    BY <1>1
  <2>3. PICK z \in Int, r \in 0 .. PageSize - 1 : z = k - a /\ r = x - a
    <3>1. PICK r \in 0 .. PageSize - 1 : r = x - a
      BY <1>1, <1>6
    <3>2. PICK z \in Int : z = k - a
      BY <1>1
    <3>. QED
      BY <3>1, <3>2
  <2>4. PageSize * (0 - q) = 0 - w
    BY <1>1, <2>2
  <2>5. x = w + k
    BY <2>1, <2>2
  <2>6. z = PageSize * (0 - q) + r
    BY <1>1, <1>6, <2>3, <2>4, <2>5
  <2>7. z % PageSize = r
    <3>1. PICK t \in Int : t = 0 - q
      OBVIOUS
    <3>2. z = PageSize * t + r
      BY <2>6, <3>1
    <3>. QED
      BY <1>1, <3>2, DivUnique, Zenon
  <2>8. a + r = x
    BY <1>1, <1>6, <2>3
  <2>. QED
    BY <2>1, <2>3, <2>7, <2>8
<1>9. ASSUME NEW i \in MemoryFor(x)
      PROVE  Slot(i, x) \in DOMAIN Loaded(a, n)
  <2>1. i \in MemoryFor(b) /\ i \in DOMAIN memories
    <3>1. MemoryFor(b) = MemoryFor(x)
      BY <1>6, <1>7, SamePage
    <3>. QED
      BY <1>9, <3>1 DEF MemoryFor
  <2>2. Slot(i, b) = Slot(i, x)
    BY <1>7 DEF Slot
  <2>3. CASE Slot(i, x) \in DOMAIN table
    BY <2>3 DEF Loaded
  <2>4. CASE Slot(i, x) \notin DOMAIN table
    <3>1. <<i, p>> \in Missing(a, n)
      BY <1>2, <1>4, <2>1, <2>2, <2>4 DEF Missing
    <3>2. Slot(<<i, p>>[1], <<i, p>>[2].addr) = Slot(i, x)
      BY <1>4, <2>2
    <3>3. Slot(i, x) \in {Slot(y[1], y[2].addr) : y \in Missing(a, n)}
      BY <3>1, <3>2
    <3>. QED
      BY <3>3 DEF Loaded
  <2>. QED
    BY <2>3, <2>4
<1>10. x \in a .. a + n - 1
  BY <1>1, <1>4, <1>6
<1>. QED
  BY <1>6, <1>8, <1>9, <1>10

--------------------------------------------------------------------------------
(* The operations keep the memory flat. *)

\* What the operations keep.
MemoryInv == MemoryShape /\ MemoryIsFlat

LEMMA InitialMemory ==
  ASSUME MemoryInit
  PROVE  MemoryInv
<1>1. memories = <<>> /\ DOMAIN table = {} /\ DOMAIN flat = {} /\ lost = {}
  BY DEF MemoryInit
<1>2. memories \in Seq(PagedMemory) /\ DOMAIN memories = {}
  BY <1>1
<1>3. \A a \in Nat : MemoryFor(a) = {}
  BY <1>2 DEF MemoryFor
<1>4. MemoryShape
  BY <1>1, <1>2, <1>3 DEF MemoryShape
<1>5. MemoryIsFlat
  BY <1>1 DEF MemoryIsFlat
<1>. QED
  BY <1>4, <1>5 DEF MemoryInv

LEMMA FlatIs == MemoryIsFlat <=> (~exited => Flat)
BY DEF MemoryIsFlat, Flat

\* The shape is kept when only pages of the memories are loaded.
LEMMA LoadedKeepsShape ==
  ASSUME MemoryShape, NEW a \in Nat, NEW n \in Nat, DOMAIN table' = DOMAIN Loaded(a, n),
         UNCHANGED memories, DOMAIN flat' = DOMAIN flat, lost' \subseteq DOMAIN flat
  PROVE  MemoryShape'
<1>1. \A x : MemoryFor(x)' = MemoryFor(x)
  BY DEF MemoryFor
<1>2. ASSUME NEW s \in DOMAIN Loaded(a, n)
      PROVE  s[1] \in DOMAIN memories
  <2>1. CASE s \in DOMAIN table
    BY <2>1 DEF MemoryShape
  <2>2. CASE s \notin DOMAIN table
    <3>1. PICK y \in Missing(a, n) : Slot(y[1], y[2].addr) = s
      BY <2>2, LoadedHas
    <3>2. y[1] \in DOMAIN memories
      BY MissingIs
    <3>. QED
      BY <3>1, <3>2 DEF Slot
  <2>. QED
    BY <2>1, <2>2
<1>. QED
  BY <1>1, <1>2 DEF MemoryShape

LEMMA ReadKeeps ==
  ASSUME MemoryInv, NEW a \in Nat, NEW n \in Nat, Read(a, n)
  PROVE  MemoryInv'
<1>1. MemoryShape /\ (~exited => Flat) /\ UNCHANGED <<memories, flat, lost>>
  BY FlatIs DEF MemoryInv, Read
<1>2. CASE UNCHANGED table
  <2>1. MemoryShape' /\ (Flat' <=> Flat)
    BY <1>1, <1>2 DEF MemoryShape, Flat, MemoryFor, ByteAt
  <2>2. exited => exited'
    BY DEF Read
  <2>3. MemoryIsFlat'
    BY <1>1, <2>1, <2>2 DEF MemoryIsFlat, Flat
  <2>. QED
    BY <2>1, <2>3 DEF MemoryInv
<1>3. CASE table' = Loaded(a, n) /\ UNCHANGED exited
  <2>1. MemoryShape'
    BY <1>1, <1>3, LoadedKeepsShape DEF MemoryShape
  <2>2. \A x : MemoryFor(x)' = MemoryFor(x)
    BY <1>1 DEF MemoryFor
  <2>3. ASSUME NEW x \in Nat, NEW i \in MemoryFor(x)
        PROVE  ByteAt(i, x)' = ByteAt(i, x)
    <3>1. CASE Slot(i, x) \in DOMAIN Loaded(a, n)
      <4>1. ByteAt(i, x)' = Loaded(a, n)[Slot(i, x)][x % PageSize]
        BY <1>3, <3>1 DEF ByteAt
      <4>. QED
        BY <1>1, <3>1, <4>1, LoadedByte
    <3>2. CASE Slot(i, x) \notin DOMAIN Loaded(a, n)
      <4>1. Slot(i, x) \notin DOMAIN table
        BY <3>2 DEF Loaded
      <4>. QED
        BY <1>1, <1>3, <3>2, <4>1 DEF ByteAt
    <3>. QED
      BY <3>1, <3>2
  <2>4. DOMAIN flat \subseteq Nat
    BY <1>1 DEF MemoryShape
  <2>5. Flat => \A x \in DOMAIN flat' \ lost' : \A i \in MemoryFor(x)' : ByteAt(i, x)' = flat'[x]
    BY <1>1, <2>2, <2>3, <2>4 DEF Flat
  <2>6. MemoryIsFlat'
    BY <1>1, <1>3, <2>5 DEF MemoryIsFlat
  <2>. QED
    BY <2>1, <2>6 DEF MemoryInv
<1>. QED
  BY <1>2, <1>3 DEF Read

LEMMA WriteKeeps ==
  ASSUME MemoryInv, NEW a, NEW n, Sized(a, n), NEW v, Write(a, n, v)
  PROVE  MemoryInv'
<1>1. MemoryShape /\ (~exited => Flat) /\ UNCHANGED memories /\ a \in Nat /\ n \in Nat
  BY FlatIs DEF MemoryInv, Write, Sized
<1>2. /\ DOMAIN flat' = DOMAIN flat
      /\ \A b \in DOMAIN flat : flat'[b] = IF b \in a .. a + n - 1 THEN FromStore(v, b) ELSE flat[b]
  BY DEF Write
<1>3. lost' = (lost \cup ((a .. a + n - 1) \cap DOMAIN flat)) \ Written(a, n)
  BY DEF Write
<1>4. lost' \subseteq DOMAIN flat /\ DOMAIN flat \subseteq Nat
  BY <1>1, <1>3 DEF MemoryShape
<1>5. \A x : MemoryFor(x)' = MemoryFor(x)
  BY <1>1 DEF MemoryFor
<1>6. CASE exited' = TRUE /\ UNCHANGED table
  <2>1. MemoryShape'
    BY <1>1, <1>2, <1>4, <1>5, <1>6 DEF MemoryShape
  <2>2. MemoryIsFlat'
    BY <1>6 DEF MemoryIsFlat
  <2>. QED
    BY <2>1, <2>2 DEF MemoryInv
<1>7. CASE table' = Stored(a, n, v) /\ UNCHANGED exited
  <2>1. DOMAIN table' = DOMAIN Loaded(a, n)
    BY <1>7 DEF Stored
  <2>2. MemoryShape'
    BY <1>1, <1>2, <1>4, <2>1, LoadedKeepsShape
  <2>3. ASSUME NEW x \in Nat, NEW i \in MemoryFor(x), Slot(i, x) \in DOMAIN Loaded(a, n)
        PROVE  ByteAt(i, x)' = IF x \in Written(a, n) THEN FromStore(v, a + (((x % PageSize) - a) % PageSize))
                               ELSE ByteAt(i, x)
    <3>1. x % PageSize \in 0 .. PageSize - 1
      BY PageAndPlace
    <3>2. ByteAt(i, x)' = Stored(a, n, v)[Slot(i, x)][x % PageSize]
      BY <1>7, <2>1, <2>3 DEF ByteAt
    <3>3. Stored(a, n, v)[Slot(i, x)][x % PageSize]
            = IF Covers(a, n, Slot(i, x), x % PageSize)
              THEN FromStore(v, a + (((x % PageSize) - a) % PageSize))
              ELSE Loaded(a, n)[Slot(i, x)][x % PageSize]
      BY <2>3, <3>1 DEF Stored
    <3>4. Loaded(a, n)[Slot(i, x)][x % PageSize] = ByteAt(i, x)
      BY <1>1, <2>3, LoadedByte
    <3>5. Covers(a, n, Slot(i, x), x % PageSize) <=> x \in Written(a, n)
      BY <1>1, CoversIs
    <3>. QED
      BY <3>2, <3>3, <3>4, <3>5
  <2>4. ASSUME NEW x \in Nat, NEW i \in MemoryFor(x), Slot(i, x) \notin DOMAIN Loaded(a, n)
        PROVE  ByteAt(i, x)' = ByteAt(i, x)
    <3>1. Slot(i, x) \notin DOMAIN table
      BY <2>4 DEF Loaded
    <3>. QED
      BY <1>1, <2>1, <2>4, <3>1 DEF ByteAt
  <2>5. ASSUME Flat, NEW x \in DOMAIN flat \ lost', NEW i \in MemoryFor(x)
        PROVE  ByteAt(i, x)' = flat'[x]
    <3>1. x \in Nat
      BY <1>4
    <3>2. CASE x \in Written(a, n)
      <4>1. /\ x \in a .. a + n - 1 /\ a + (((x % PageSize) - a) % PageSize) = x
            /\ Slot(i, x) \in DOMAIN Loaded(a, n)
        BY <1>1, <3>2, StoredPlace
      <4>2. flat'[x] = FromStore(v, x)
        BY <1>2, <4>1
      <4>3. ByteAt(i, x)' = FromStore(v, a + (((x % PageSize) - a) % PageSize))
        BY <2>3, <3>1, <3>2, <4>1
      <4>. QED
        BY <4>1, <4>2, <4>3
    <3>3. CASE x \notin Written(a, n)
      <4>1. x \notin lost /\ x \notin a .. a + n - 1
        BY <1>3, <3>3
      <4>2. flat'[x] = flat[x]
        BY <1>2, <4>1
      <4>3. ByteAt(i, x)' = ByteAt(i, x)
        BY <2>3, <2>4, <3>1, <3>3
      <4>4. ByteAt(i, x) = flat[x]
        BY <2>5, <4>1 DEF Flat
      <4>. QED
        BY <4>2, <4>3, <4>4
    <3>. QED
      BY <3>2, <3>3
  <2>6. MemoryIsFlat'
    BY <1>1, <1>2, <1>5, <1>7, <2>5 DEF MemoryIsFlat
  <2>. QED
    BY <2>2, <2>6 DEF MemoryInv
<1>. QED
  BY <1>6, <1>7 DEF Write

\* A set of natural numbers has a least one.
LEMMA LeastOf ==
  ASSUME NEW S \in SUBSET Nat, S # {}
  PROVE  \E x \in S : \A y \in S : x <= y
<1>1. PICK x \in S : \A y \in S : ~(<<y, x>> \in OpToRel(<, Nat))
  BY NatLessThanWellFounded, WFMin
<1>2. \A y \in S : ~(y < x)
  BY <1>1 DEF OpToRel
<1>. QED
  BY <1>2

LEMMA InitMemoryKeeps ==
  ASSUME MemoryInv, NEW m \in PagedMemory, InitMemory(m), ~exited
  PROVE  MemoryInv'
<1>1. MemoryShape /\ (~exited => Flat) /\ UNCHANGED <<table, lost>>
  BY FlatIs DEF MemoryInv, InitMemory
<1>2. PICK l \in Nat : l = Len(memories) + 1 /\ DOMAIN memories = 1 .. l - 1
  BY <1>1 DEF MemoryShape
<1>3. /\ memories' \in Seq(PagedMemory) /\ DOMAIN memories' = 1 .. l /\ memories'[l] = m
      /\ \A i \in DOMAIN memories : memories'[i] = memories[i]
  BY <1>1, <1>2 DEF InitMemory, MemoryShape
<1>4. m.start \in Nat /\ m.end \in Nat
  BY DEF PagedMemory
<1>5. /\ DOMAIN flat' = DOMAIN flat \cup (m.start .. m.end - 1)
      /\ \A b \in DOMAIN flat' :
           flat'[b] = IF b \in DOMAIN flat THEN flat[b] ELSE FromDump(m, b - m.start)
  BY DEF InitMemory
<1>6. ASSUME NEW x \in Nat, MemoryFor(x) # {}
      PROVE  MemoryFor(x)' = MemoryFor(x)
  <2>1. PICK i \in DOMAIN memories : i \in MemoryFor(x) /\ InRange(memories[i], x)
    BY <1>6 DEF MemoryFor
  <2>2. l \notin MemoryFor(x)'
    BY <1>2, <1>3, <2>1 DEF MemoryFor
  <2>3. \A j \in DOMAIN memories : j \in MemoryFor(x)' <=> j \in MemoryFor(x)
    BY <1>2, <1>3 DEF MemoryFor
  <2>4. MemoryFor(x)' \subseteq 1 .. l /\ MemoryFor(x) \subseteq DOMAIN memories
    BY <1>3 DEF MemoryFor
  <2>5. \A j \in 1 .. l : j # l => j \in DOMAIN memories
    BY <1>2
  <2>6. MemoryFor(x)' \subseteq DOMAIN memories
    BY <2>2, <2>4, <2>5
  <2>. QED
    BY <2>3, <2>4, <2>6
<1>7. ASSUME NEW x \in Nat, MemoryFor(x) = {}
      PROVE  MemoryFor(x)' = IF InRange(m, x) THEN {l} ELSE {}
  <2>1. ASSUME NEW j \in DOMAIN memories
        PROVE  ~InRange(memories[j], x)
    <3>1. DEFINE In == {k \in Nat : k \in DOMAIN memories /\ InRange(memories[k], x)}
    <3>2. SUFFICES ASSUME InRange(memories[j], x)
                   PROVE  FALSE
      OBVIOUS
    <3>3. j \in In
      BY <1>2, <2>1, <3>2
    <3>4. PICK k \in In : \A h \in In : k <= h
      <4>1. In \in SUBSET Nat /\ In # {}
        BY <3>3
      <4>. HIDE DEF In
      <4>. QED
        BY <4>1, LeastOf
    <3>5. k \in MemoryFor(x)
      BY <1>2, <3>4 DEF MemoryFor
    <3>. QED
      BY <1>7, <3>5
  <2>2. \A j \in DOMAIN memories : j \notin MemoryFor(x)'
    BY <1>2, <1>3, <2>1 DEF MemoryFor
  <2>3. l \in MemoryFor(x)' <=> InRange(m, x)
    BY <1>2, <1>3, <2>1 DEF MemoryFor
  <2>4. MemoryFor(x)' \subseteq 1 .. l
    BY <1>3 DEF MemoryFor
  <2>. QED
    BY <1>2, <2>2, <2>3, <2>4
<1>8. \A x \in Nat : x \in DOMAIN flat <=> MemoryFor(x) # {}
  BY <1>1 DEF MemoryShape
<1>9. MemoryShape'
  <2>1. DOMAIN flat \subseteq Nat /\ lost \subseteq DOMAIN flat
        /\ \A s \in DOMAIN table : s[1] \in DOMAIN memories
    BY <1>1 DEF MemoryShape
  <2>2. DOMAIN flat' \subseteq Nat
    BY <1>4, <1>5, <2>1
  <2>3. ASSUME NEW x \in Nat
        PROVE  x \in DOMAIN flat' <=> MemoryFor(x)' # {}
    BY <1>4, <1>5, <1>6, <1>7, <1>8 DEF InRange
  <2>4. lost' \subseteq DOMAIN flat' /\ \A s \in DOMAIN table' : s[1] \in DOMAIN memories'
    BY <1>1, <1>2, <1>3, <1>5, <2>1
  <2>. QED
    BY <1>3, <2>2, <2>3, <2>4 DEF MemoryShape
<1>10. ASSUME Flat, NEW x \in DOMAIN flat' \ lost, NEW i \in MemoryFor(x)'
       PROVE  ByteAt(i, x)' = flat'[x]
  <2>1. x \in Nat
    BY <1>9 DEF MemoryShape
  <2>2. CASE x \in DOMAIN flat
    <3>1. MemoryFor(x)' = MemoryFor(x)
      BY <1>6, <1>8, <2>1, <2>2
    <3>2. i \in DOMAIN memories
      BY <1>10, <3>1 DEF MemoryFor
    <3>3. ByteAt(i, x)' = ByteAt(i, x)
      BY <1>1, <1>3, <3>2 DEF ByteAt
    <3>4. ByteAt(i, x) = flat[x]
      BY <1>10, <2>2, <3>1 DEF Flat
    <3>. QED
      BY <1>5, <2>2, <3>3, <3>4
  <2>3. CASE x \notin DOMAIN flat
    <3>1. MemoryFor(x)' = {l} /\ InRange(m, x)
      BY <1>7, <1>8, <1>10, <2>1, <2>3
    <3>2. i = l
      BY <1>10, <3>1
    <3>3. Slot(i, x) \notin DOMAIN table
      <4>1. \A s \in DOMAIN table : s[1] \in DOMAIN memories
        BY <1>1 DEF MemoryShape
      <4>2. i \notin DOMAIN memories
        BY <1>2, <3>2
      <4>. QED
        BY <4>1, <4>2 DEF Slot
    <3>4. ByteAt(i, x)' = PageOf(m, x)[x % PageSize]
      BY <1>1, <1>3, <3>2, <3>3 DEF ByteAt
    <3>5. PageOf(m, x)[x % PageSize] = FromDump(m, x - m.start)
      BY <2>1, <3>1, PlaceInDump
    <3>6. flat'[x] = FromDump(m, x - m.start)
      BY <1>5, <1>10, <2>3
    <3>. QED
      BY <3>4, <3>5, <3>6
  <2>. QED
    BY <2>2, <2>3
<1>11. MemoryIsFlat'
  <2>1. lost' = lost
    BY <1>1
  <2>2. Flat => \A x \in DOMAIN flat' \ lost' : \A i \in MemoryFor(x)' : ByteAt(i, x)' = flat'[x]
    BY <1>10, <2>1
  <2>3. ~exited' => ~exited
    OBVIOUS
  <2>. QED
    BY <1>1, <2>2, <2>3 DEF MemoryIsFlat
<1>. QED
  BY <1>9, <1>11 DEF MemoryInv
--------------------------------------------------------------------------------
(* What is in the files. *)

LEMMA ContentIs ==
  /\ Content["ranges"] = ReadRanges(files.ranges) /\ Content["mapping"] = ReadMapping(files.mapping)
  /\ Content["registers"] = ReadRegisters(files.registers) /\ Content["trace"] = "bytes"
  /\ Content.ranges = Content["ranges"] /\ Content.mapping = Content["mapping"]
  /\ Content.registers = Content["registers"]
BY DEF Content

LEMMA ContentTypes ==
  ASSUME files \in Inputs
  PROVE  /\ Content.ranges \in Seq(MemoryRange) /\ Len(Content.ranges) = Len(files.ranges)
         /\ \A i \in DOMAIN Content.ranges :
              /\ Content.ranges[i] = files.ranges[Len(files.ranges) + 1 - i]
              /\ WholePages(Content.ranges[i])
         /\ DOMAIN Content.mapping = Names
         /\ DOMAIN Content.registers = 0 .. Processors * Registers - 1
<1>1. files.ranges \in Seq(MemoryRange) /\ \A i \in DOMAIN files.ranges : WholePages(files.ranges[i])
  BY InputsAssumption
<1>2. PICK n \in Nat : n = Len(files.ranges) /\ DOMAIN files.ranges = 1 .. n
  BY <1>1
<1>3. Content.ranges = [i \in 1 .. n |-> files.ranges[n + 1 - i]]
  BY <1>2, ContentIs DEF ReadRanges
<1>4. \A i \in 1 .. n : n + 1 - i \in 1 .. n
  BY <1>2
<1>5. \A i \in 1 .. n : files.ranges[n + 1 - i] \in MemoryRange /\ WholePages(files.ranges[n + 1 - i])
  BY <1>1, <1>2, <1>4
<1>6. Content.ranges \in [1 .. n -> MemoryRange]
  BY <1>3, <1>5
<1>7. Content.ranges \in Seq(MemoryRange) /\ Len(Content.ranges) = n
  BY <1>2, <1>6
<1>8. DOMAIN Content.mapping = Names
  BY ContentIs DEF ReadMapping
<1>9. DOMAIN Content.registers = 0 .. Processors * Registers - 1
  BY ContentIs DEF ReadRegisters
<1>. QED
  BY <1>2, <1>3, <1>5, <1>7, <1>8, <1>9

--------------------------------------------------------------------------------
(* Functions that are defined by recursion over 0 .. n. *)

LEMMA UpTo ==
  ASSUME NEW n \in Nat, NEW T, 0 \in T, \A k \in 0 .. n - 1 : k \in T => k + 1 \in T
  PROVE  \A k \in 0 .. n : k \in T
<1> DEFINE Out == {k \in Nat : k \in 0 .. n /\ k \notin T}
<1>1. SUFFICES ASSUME Out # {}
               PROVE  FALSE
  OBVIOUS
<1>2. PICK m \in Out : \A k \in Out : m <= k
  <2>1. Out \in SUBSET Nat
    OBVIOUS
  <2>. HIDE DEF Out
  <2>. QED
    BY <1>1, <2>1, LeastOf
<1>3. m \in 1 .. n
  BY <1>2
<1>4. m - 1 \in 0 .. n - 1 /\ m - 1 \notin Out
  BY <1>2, <1>3
<1>5. m - 1 \in T
  BY <1>4
<1>. QED
  BY <1>2, <1>4, <1>5

\* What is computed from the number of a step and the value so far.
Steps(S) == [(Nat \ {0}) \X S -> S]
Computes(f, n, base, G) == f[0] = base /\ \A k \in 1 .. n : f[k] = G[<<k, f[k - 1]>>]

LEMMA RecursionExists ==
  ASSUME NEW S, NEW base \in S, NEW G \in Steps(S), NEW n \in Nat
  PROVE  \E f \in [0 .. n -> S] : Computes(f, n, base, G)
<1> DEFINE T == {m \in Nat : \E f \in [0 .. m -> S] : Computes(f, m, base, G)}
<1>1. 0 \in T
  <2>1. [k \in 0 .. 0 |-> base] \in [0 .. 0 -> S]
    OBVIOUS
  <2>2. Computes([k \in 0 .. 0 |-> base], 0, base, G)
    BY DEF Computes
  <2>. QED
    BY <2>1, <2>2
<1>2. ASSUME NEW m \in 0 .. n - 1, m \in T
      PROVE  m + 1 \in T
  <2>1. PICK f \in [0 .. m -> S] : Computes(f, m, base, G)
    BY <1>2
  <2>2. G[<<m + 1, f[m]>>] \in S
    BY DEF Steps
  <2>3. PICK g : g = [k \in 0 .. m + 1 |-> IF k <= m THEN f[k] ELSE G[<<m + 1, f[m]>>]]
    OBVIOUS
  <2>4. g \in [0 .. m + 1 -> S]
    BY <2>2, <2>3
  <2>5. Computes(g, m + 1, base, G)
    <3>1. g[0] = base
      BY <2>1, <2>3 DEF Computes
    <3>2. ASSUME NEW k \in 1 .. m
          PROVE  g[k] = G[<<k, g[k - 1]>>]
      <4>1. g[k] = f[k] /\ g[k - 1] = f[k - 1]
        BY <2>3
      <4>. QED
        BY <2>1, <4>1 DEF Computes
    <3>3. g[m + 1] = G[<<m + 1, g[m]>>] /\ (m + 1) - 1 = m
      <4>1. m + 1 \in 0 .. m + 1 /\ m \in 0 .. m + 1 /\ ~(m + 1 <= m) /\ (m + 1) - 1 = m
        OBVIOUS
      <4>2. g[m + 1] = G[<<m + 1, f[m]>>] /\ g[m] = f[m]
        BY <2>3, <4>1
      <4>. QED
        BY <4>1, <4>2
    <3>4. \A k \in 1 .. m + 1 : k \in 1 .. m \/ k = m + 1
      OBVIOUS
    <3>. QED
      BY <3>1, <3>2, <3>3, <3>4 DEF Computes
  <2>. QED
    BY <2>4, <2>5
<1>. HIDE DEF T
<1>3. n \in T
  BY <1>1, <1>2, UpTo
<1>. QED
  BY <1>3 DEF T

LEMMA RecursionUnique ==
  ASSUME NEW S, NEW base \in S, NEW G \in Steps(S), NEW n \in Nat, NEW f, NEW g,
         Computes(f, n, base, G), Computes(g, n, base, G)
  PROVE  \A k \in 0 .. n : f[k] = g[k] /\ f[k] \in S
<1> DEFINE T == {k \in Nat : f[k] = g[k] /\ f[k] \in S}
<1>1. 0 \in T
  BY DEF Computes
<1>2. ASSUME NEW k \in 0 .. n - 1, k \in T
      PROVE  k + 1 \in T
  <2>1. k + 1 \in 1 .. n /\ (k + 1) - 1 = k
    OBVIOUS
  <2>2. f[k + 1] = G[<<k + 1, f[k]>>] /\ g[k + 1] = G[<<k + 1, g[k]>>]
    BY <2>1 DEF Computes
  <2>3. f[k] = g[k] /\ f[k] \in S
    BY <1>2
  <2>4. G[<<k + 1, f[k]>>] \in S
    BY <2>1, <2>3 DEF Steps
  <2>. QED
    BY <2>2, <2>3, <2>4
<1>. HIDE DEF T
<1>3. \A k \in 0 .. n : k \in T
  BY <1>1, <1>2, UpTo
<1>. QED
  BY <1>3 DEF T

\* A function that takes the same steps as long as its values are sound.
LEMMA ComputesToo ==
  ASSUME NEW S, NEW base \in S, NEW G \in Steps(S), NEW n \in Nat, NEW q, q[0] = base,
         \A k \in 1 .. n : q[k - 1] \in S => q[k] = G[<<k, q[k - 1]>>]
  PROVE  Computes(q, n, base, G)
<1> DEFINE T == {k \in Nat : q[k] \in S}
<1>1. 0 \in T
  OBVIOUS
<1>2. ASSUME NEW k \in 0 .. n - 1, k \in T
      PROVE  k + 1 \in T
  <2>1. k + 1 \in 1 .. n /\ (k + 1) - 1 = k /\ q[k] \in S
    BY <1>2
  <2>2. q[k + 1] = G[<<k + 1, q[k]>>]
    BY <2>1
  <2>3. G[<<k + 1, q[k]>>] \in S
    BY <2>1 DEF Steps
  <2>. QED
    BY <2>2, <2>3
<1>. HIDE DEF T
<1>3. \A k \in 0 .. n : k \in T
  BY <1>1, <1>2, UpTo
<1>4. \A k \in 1 .. n : q[k - 1] \in S
  <2>1. \A k \in 0 .. n : q[k] \in S
    BY <1>3 DEF T
  <2>2. \A k \in 1 .. n : k - 1 \in 0 .. n
    OBVIOUS
  <2>. QED
    BY <2>1, <2>2
<1>. QED
  BY <1>4 DEF Computes

\* Powers.
IsPower(p, b, n) == p = [k \in 0 .. n |-> IF k = 0 THEN 1 ELSE b * p[k - 1]]
PowerSteps(b) == [y \in (Nat \ {0}) \X Nat |-> b * y[2]]

LEMMA PowerComputes ==
  ASSUME NEW b \in Nat, NEW n \in Nat
  PROVE  /\ PowerSteps(b) \in Steps(Nat)
         /\ \E p : Computes(p, n, 1, PowerSteps(b)) /\ Power(b, n) = p[n]
<1>1. PowerSteps(b) \in Steps(Nat)
  BY DEF PowerSteps, Steps
<1>2. PICK f \in [0 .. n -> Nat] : Computes(f, n, 1, PowerSteps(b))
  BY <1>1, RecursionExists
<1>3. \A k \in 1 .. n : f[k] = b * f[k - 1]
  <2>1. ASSUME NEW k \in 1 .. n
        PROVE  f[k] = b * f[k - 1]
    <3>1. k - 1 \in 0 .. n /\ f[k - 1] \in Nat /\ k \in Nat \ {0}
      OBVIOUS
    <3>2. f[k] = PowerSteps(b)[<<k, f[k - 1]>>]
      BY <1>2 DEF Computes
    <3>. QED
      BY <3>1, <3>2 DEF PowerSteps
  <2>. QED
    BY <2>1
<1>4. IsPower(f, b, n)
  BY <1>2, <1>3 DEF IsPower, Computes
<1>5. PICK p : p = CHOOSE q : q = [k \in 0 .. n |-> IF k = 0 THEN 1 ELSE b * q[k - 1]]
  OBVIOUS
<1>6. IsPower(p, b, n)
  BY <1>4, <1>5 DEF IsPower
<1>7. Power(b, n) = p[n]
  BY <1>5 DEF Power
<1>8. Computes(p, n, 1, PowerSteps(b))
  <2>1. p[0] = 1 /\ \A k \in 1 .. n : p[k] = b * p[k - 1]
    BY <1>6 DEF IsPower
  <2>2. ASSUME NEW k \in 1 .. n, p[k - 1] \in Nat
        PROVE  p[k] = PowerSteps(b)[<<k, p[k - 1]>>]
    BY <2>1, <2>2 DEF PowerSteps
  <2>. QED
    BY <1>1, <2>1, <2>2, ComputesToo
<1>. QED
  BY <1>1, <1>7, <1>8

LEMMA PowerStep ==
  ASSUME NEW b \in Nat, NEW n \in Nat
  PROVE  Power(b, 0) = 1 /\ Power(b, n) \in Nat /\ Power(b, n + 1) = b * Power(b, n)
<1>1. PowerSteps(b) \in Steps(Nat)
  BY PowerComputes
<1>2. PICK p : Computes(p, n, 1, PowerSteps(b)) /\ Power(b, n) = p[n]
  BY PowerComputes
<1>3. PICK q : Computes(q, n + 1, 1, PowerSteps(b)) /\ Power(b, n + 1) = q[n + 1]
  BY PowerComputes
<1>4. PICK z : Computes(z, 0, 1, PowerSteps(b)) /\ Power(b, 0) = z[0]
  BY PowerComputes
<1>5. Power(b, 0) = 1
  BY <1>4 DEF Computes
<1>6. Computes(q, n, 1, PowerSteps(b))
  BY <1>3 DEF Computes
<1>7. p[n] = q[n] /\ p[n] \in Nat
  BY <1>1, <1>2, <1>6, RecursionUnique
<1>8. q[n + 1] = PowerSteps(b)[<<n + 1, q[n]>>]
  BY <1>3 DEF Computes
<1>. QED
  BY <1>2, <1>3, <1>5, <1>7, <1>8 DEF PowerSteps

LEMMA PowersAre ==
  ASSUME NEW b \in Nat \ {0}, NEW n \in Nat
  PROVE  Power(b, n) \in Nat \ {0}
<1> DEFINE T == {k \in Nat : Power(b, k) \in Nat \ {0}}
<1>1. 0 \in T
  BY PowerStep
<1>2. ASSUME NEW k \in 0 .. n - 1, k \in T
      PROVE  k + 1 \in T
  <2>1. PICK x \in Nat \ {0} : x = Power(b, k)
    BY <1>2
  <2>2. Power(b, k + 1) = b * x
    BY <2>1, PowerStep
  <2>3. b * x \in Nat \ {0}
    OBVIOUS
  <2>. QED
    BY <2>2, <2>3
<1>. HIDE DEF T
<1>3. n \in T
  BY <1>1, <1>2, UpTo
<1>. QED
  BY <1>3 DEF T

LEMMA BaseIs == Base \in Nat /\ Base >= 2 /\ Half \in Nat /\ Half > 0 /\ Base = 2 * Half
<1>1. Base \in Nat /\ Half > 1 /\ Base = 2 * Half
  BY LoopAssumption
<1>2. Half \in Int
  BY <1>1 DEF Half
<1>. QED
  BY <1>1, <1>2

LEMMA ModulusIs == Modulus \in Nat \ {0}
BY PowersAre, BaseIs, LoopAssumption DEF Modulus

--------------------------------------------------------------------------------
(* The value of some bytes. *)

IsLittle(v, s, from, n) ==
  v = [i \in 0 .. n |-> IF i = 0 THEN 0 ELSE v[i - 1] + s[from + i] * Power(Base, i - 1)]
LittleSteps(s, from, n) ==
  [y \in (Nat \ {0}) \X Nat |-> IF y[1] <= n THEN y[2] + s[from + y[1]] * Power(Base, y[1] - 1) ELSE 0]

LEMMA LittleComputes ==
  ASSUME NEW n \in Nat, NEW m \in 0 .. n, NEW s, NEW from, \A i \in 1 .. n : s[from + i] \in Nat
  PROVE  /\ LittleSteps(s, from, n) \in Steps(Nat)
         /\ \E v : Computes(v, m, 0, LittleSteps(s, from, n)) /\ LittleEndian(s, from, m) = v[m]
<1>1. PICK G : G = LittleSteps(s, from, n)
  OBVIOUS
<1>2. ASSUME NEW k \in 1 .. n, NEW x \in Nat
      PROVE  x + s[from + k] * Power(Base, k - 1) \in Nat
  <2>1. PICK w \in Nat, c \in Nat : w = Power(Base, k - 1) /\ c = s[from + k]
    <3>1. k - 1 \in Nat
      OBVIOUS
    <3>. QED
      BY <3>1, PowerStep, BaseIs
  <2>2. c * w \in Nat
    BY <2>1
  <2>. QED
    BY <2>1, <2>2
<1>3. G \in Steps(Nat)
  <2>1. ASSUME NEW k \in Nat \ {0}, NEW x \in Nat
        PROVE  (IF k <= n THEN x + s[from + k] * Power(Base, k - 1) ELSE 0) \in Nat
    BY <1>2
  <2>. QED
    BY <1>1, <2>1 DEF Steps, LittleSteps
<1>4. ASSUME NEW k \in 1 .. m, NEW x \in Nat
      PROVE  G[<<k, x>>] = x + s[from + k] * Power(Base, k - 1)
  BY <1>1 DEF LittleSteps
<1>5. m \in Nat
  OBVIOUS
<1>6. PICK f \in [0 .. m -> Nat] : Computes(f, m, 0, G)
  BY <1>3, <1>5, RecursionExists
<1>7. IsLittle(f, s, from, m)
  <2>1. ASSUME NEW k \in 1 .. m
        PROVE  f[k] = f[k - 1] + s[from + k] * Power(Base, k - 1)
    <3>1. f[k - 1] \in Nat /\ f[k] = G[<<k, f[k - 1]>>]
      BY <1>6 DEF Computes
    <3>. QED
      BY <1>4, <3>1
  <2>. QED
    BY <1>6, <2>1 DEF IsLittle, Computes
<1>8. PICK v : v = CHOOSE u : u = [i \in 0 .. m |-> IF i = 0 THEN 0 ELSE u[i - 1] + s[from + i] * Power(Base, i - 1)]
  OBVIOUS
<1>9. IsLittle(v, s, from, m)
  BY <1>7, <1>8 DEF IsLittle
<1>10. LittleEndian(s, from, m) = v[m]
  BY <1>8 DEF LittleEndian
<1>11. Computes(v, m, 0, G)
  <2>1. v[0] = 0 /\ \A k \in 1 .. m : v[k] = v[k - 1] + s[from + k] * Power(Base, k - 1)
    BY <1>9 DEF IsLittle
  <2>2. \A k \in 1 .. m : v[k - 1] \in Nat => v[k] = G[<<k, v[k - 1]>>]
    BY <1>4, <2>1
  <2>. QED
    BY <1>3, <1>5, <2>1, <2>2, ComputesToo
<1>. QED
  BY <1>1, <1>3, <1>10, <1>11

LEMMA LittleStep ==
  ASSUME NEW n \in Nat, NEW s, NEW from, \A i \in 1 .. n + 1 : s[from + i] \in Nat
  PROVE  /\ LittleEndian(s, from, 0) = 0 /\ LittleEndian(s, from, n) \in Nat
         /\ LittleEndian(s, from, n + 1) = LittleEndian(s, from, n) + s[from + (n + 1)] * Power(Base, n)
<1>1. PICK G : G = LittleSteps(s, from, n + 1)
  OBVIOUS
<1>2. n + 1 \in Nat /\ 0 \in 0 .. n + 1 /\ n \in 0 .. n + 1 /\ n + 1 \in 0 .. n + 1
  OBVIOUS
<1>3. G \in Steps(Nat)
  BY <1>1, <1>2, LittleComputes
<1>4. PICK z : Computes(z, 0, 0, G) /\ LittleEndian(s, from, 0) = z[0]
  BY <1>1, <1>2, LittleComputes
<1>5. PICK v : Computes(v, n, 0, G) /\ LittleEndian(s, from, n) = v[n]
  BY <1>1, <1>2, LittleComputes
<1>6. PICK w : Computes(w, n + 1, 0, G) /\ LittleEndian(s, from, n + 1) = w[n + 1]
  BY <1>1, <1>2, LittleComputes
<1>7. Computes(w, n, 0, G)
  BY <1>6 DEF Computes
<1>8. v[n] = w[n] /\ v[n] \in Nat
  <2>1. \A k \in 0 .. n : v[k] = w[k] /\ v[k] \in Nat
    BY <1>3, <1>5, <1>7, RecursionUnique
  <2>. QED
    BY <2>1
<1>9. w[n + 1] = G[<<n + 1, w[n]>>]
  BY <1>6 DEF Computes
<1>10. w[n + 1] = w[n] + s[from + (n + 1)] * Power(Base, n)
  BY <1>1, <1>8, <1>9 DEF LittleSteps
<1>. QED
  BY <1>4, <1>5, <1>6, <1>8, <1>10 DEF Computes

\* n bytes have a value that n bytes can have.
LEMMA LittleBound ==
  ASSUME NEW n \in Nat, NEW s, NEW from, \A i \in 1 .. n : s[from + i] \in 0 .. Base - 1
  PROVE  LittleEndian(s, from, n) \in 0 .. Power(Base, n) - 1
<1> DEFINE T == {k \in Nat : LittleEndian(s, from, k) \in 0 .. Power(Base, k) - 1}
<1>1. Base \in Nat \ {0}
  BY BaseIs
<1>2. \A i \in 1 .. n : s[from + i] \in Nat
  BY <1>1
<1>3. 0 \in T
  <2>1. LittleEndian(s, from, 0) = 0
    <3>1. PICK v : Computes(v, 0, 0, LittleSteps(s, from, 0)) /\ LittleEndian(s, from, 0) = v[0]
      BY LittleComputes
    <3>. QED
      BY <3>1 DEF Computes
  <2>2. Power(Base, 0) = 1
    BY <1>1, PowerStep
  <2>. QED
    BY <2>1, <2>2
<1>4. ASSUME NEW k \in 0 .. n - 1, k \in T
      PROVE  k + 1 \in T
  <2>1. PICK x \in Nat, w \in Nat \ {0} :
          x = LittleEndian(s, from, k) /\ w = Power(Base, k) /\ x < w
    <3>1. k \in Nat /\ Power(Base, k) \in Nat \ {0}
      BY <1>1, PowersAre
    <3>. QED
      BY <1>4, <3>1
  <2>2. PICK c \in 0 .. Base - 1 : c = s[from + (k + 1)]
    <3>1. k + 1 \in 1 .. n
      OBVIOUS
    <3>. QED
      BY <3>1
  <2>3. LittleEndian(s, from, k + 1) = x + c * w
    <3>1. \A i \in 1 .. k + 1 : s[from + i] \in Nat
      BY <1>2
    <3>. QED
      BY <2>1, <2>2, <3>1, LittleStep
  <2>4. Power(Base, k + 1) = Base * w
    BY <1>1, <2>1, PowerStep
  <2>5. c * w \in Nat /\ Base * w \in Nat /\ c * w + w <= Base * w
    <3>1. c + 1 <= Base /\ c + 1 \in Nat /\ c \in Nat
      BY <1>1
    <3>2. (c + 1) * w = c * w + w /\ (c + 1) * w <= Base * w
      BY <1>1, <2>1, <3>1
    <3>. QED
      BY <1>1, <2>1, <3>1, <3>2
  <2>6. x + c * w \in 0 .. Base * w - 1
    BY <2>1, <2>5
  <2>. QED
    BY <2>3, <2>4, <2>6
<1>. HIDE DEF T
<1>5. \A k \in 0 .. n : k \in T
  BY <1>3, <1>4, UpTo
<1>6. n \in T
  BY <1>5
<1>. QED
  BY <1>6 DEF T

IsBig(v, s, from, n) ==
  v = [i \in 0 .. n |-> IF i = 0 THEN 0 ELSE v[i - 1] * Base + s[from + i]]
BigSteps(s, from, n) ==
  [y \in (Nat \ {0}) \X Nat |-> IF y[1] <= n THEN y[2] * Base + s[from + y[1]] ELSE 0]

LEMMA BigComputes ==
  ASSUME NEW n \in Nat, NEW m \in 0 .. n, NEW s, NEW from, \A i \in 1 .. n : s[from + i] \in Nat
  PROVE  /\ BigSteps(s, from, n) \in Steps(Nat)
         /\ \E v : Computes(v, m, 0, BigSteps(s, from, n)) /\ BigEndian(s, from, m) = v[m]
<1>1. PICK G : G = BigSteps(s, from, n)
  OBVIOUS
<1>2. ASSUME NEW k \in 1 .. n, NEW x \in Nat
      PROVE  x * Base + s[from + k] \in Nat
  <2>1. PICK c \in Nat : c = s[from + k]
    OBVIOUS
  <2>2. x * Base \in Nat
    BY BaseIs
  <2>. QED
    BY <2>1, <2>2
<1>3. G \in Steps(Nat)
  <2>1. ASSUME NEW k \in Nat \ {0}, NEW x \in Nat
        PROVE  (IF k <= n THEN x * Base + s[from + k] ELSE 0) \in Nat
    BY <1>2
  <2>. QED
    BY <1>1, <2>1 DEF Steps, BigSteps
<1>4. ASSUME NEW k \in 1 .. m, NEW x \in Nat
      PROVE  G[<<k, x>>] = x * Base + s[from + k]
  BY <1>1 DEF BigSteps
<1>5. m \in Nat
  OBVIOUS
<1>6. PICK f \in [0 .. m -> Nat] : Computes(f, m, 0, G)
  BY <1>3, <1>5, RecursionExists
<1>7. IsBig(f, s, from, m)
  <2>1. ASSUME NEW k \in 1 .. m
        PROVE  f[k] = f[k - 1] * Base + s[from + k]
    <3>1. f[k - 1] \in Nat /\ f[k] = G[<<k, f[k - 1]>>]
      BY <1>6 DEF Computes
    <3>. QED
      BY <1>4, <3>1
  <2>. QED
    BY <1>6, <2>1 DEF IsBig, Computes
<1>8. PICK v : v = CHOOSE u : u = [i \in 0 .. m |-> IF i = 0 THEN 0 ELSE u[i - 1] * Base + s[from + i]]
  OBVIOUS
<1>9. IsBig(v, s, from, m)
  BY <1>7, <1>8 DEF IsBig
<1>10. BigEndian(s, from, m) = v[m]
  BY <1>8 DEF BigEndian
<1>11. Computes(v, m, 0, G)
  <2>1. v[0] = 0 /\ \A k \in 1 .. m : v[k] = v[k - 1] * Base + s[from + k]
    BY <1>9 DEF IsBig
  <2>2. \A k \in 1 .. m : v[k - 1] \in Nat => v[k] = G[<<k, v[k - 1]>>]
    BY <1>4, <2>1
  <2>. QED
    BY <1>3, <1>5, <2>1, <2>2, ComputesToo
<1>. QED
  BY <1>1, <1>3, <1>10, <1>11

LEMMA BigStep ==
  ASSUME NEW n \in Nat, NEW s, NEW from, \A i \in 1 .. n + 1 : s[from + i] \in Nat
  PROVE  /\ BigEndian(s, from, 0) = 0 /\ BigEndian(s, from, n) \in Nat
         /\ BigEndian(s, from, n + 1) = BigEndian(s, from, n) * Base + s[from + (n + 1)]
<1>1. PICK G : G = BigSteps(s, from, n + 1)
  OBVIOUS
<1>2. n + 1 \in Nat /\ 0 \in 0 .. n + 1 /\ n \in 0 .. n + 1 /\ n + 1 \in 0 .. n + 1
  OBVIOUS
<1>3. G \in Steps(Nat)
  BY <1>1, <1>2, BigComputes
<1>4. PICK z : Computes(z, 0, 0, G) /\ BigEndian(s, from, 0) = z[0]
  BY <1>1, <1>2, BigComputes
<1>5. PICK v : Computes(v, n, 0, G) /\ BigEndian(s, from, n) = v[n]
  BY <1>1, <1>2, BigComputes
<1>6. PICK w : Computes(w, n + 1, 0, G) /\ BigEndian(s, from, n + 1) = w[n + 1]
  BY <1>1, <1>2, BigComputes
<1>7. Computes(w, n, 0, G)
  BY <1>6 DEF Computes
<1>8. v[n] = w[n] /\ v[n] \in Nat
  <2>1. \A k \in 0 .. n : v[k] = w[k] /\ v[k] \in Nat
    BY <1>3, <1>5, <1>7, RecursionUnique
  <2>. QED
    BY <2>1
<1>9. w[n + 1] = G[<<n + 1, w[n]>>]
  BY <1>6 DEF Computes
<1>10. w[n + 1] = w[n] * Base + s[from + (n + 1)]
  BY <1>1, <1>8, <1>9 DEF BigSteps
<1>. QED
  BY <1>4, <1>5, <1>6, <1>8, <1>10 DEF Computes

LEMMA BigValue ==
  ASSUME NEW n \in Nat, NEW s, NEW from, \A i \in 1 .. n : s[from + i] \in Nat
  PROVE  BigEndian(s, from, n) \in Nat
<1>1. BigSteps(s, from, n) \in Steps(Nat) /\ n \in 0 .. n
  BY BigComputes
<1>2. PICK v : Computes(v, n, 0, BigSteps(s, from, n)) /\ BigEndian(s, from, n) = v[n]
  BY <1>1, BigComputes
<1>3. \A k \in 0 .. n : v[k] = v[k] /\ v[k] \in Nat
  BY <1>1, <1>2, RecursionUnique
<1>. QED
  BY <1>1, <1>2, <1>3

IsSum(v, w, n) == v = [j \in 0 .. n |-> IF j = 0 THEN 0 ELSE v[j - 1] + w[j]]
SumSteps(w, n) == [y \in (Nat \ {0}) \X Nat |-> IF y[1] <= n THEN y[2] + w[y[1]] ELSE 0]

LEMMA SumComputes ==
  ASSUME NEW n \in Nat, NEW m \in 0 .. n, NEW w, \A i \in 1 .. n : w[i] \in Nat
  PROVE  /\ SumSteps(w, n) \in Steps(Nat)
         /\ \E v : Computes(v, m, 0, SumSteps(w, n)) /\ SumTo(w, m) = v[m]
<1>1. PICK G : G = SumSteps(w, n)
  OBVIOUS
<1>2. G \in Steps(Nat)
  <2>1. ASSUME NEW k \in Nat \ {0}, NEW x \in Nat
        PROVE  (IF k <= n THEN x + w[k] ELSE 0) \in Nat
    <3>1. k <= n => w[k] \in Nat
      OBVIOUS
    <3>. QED
      BY <3>1
  <2>. QED
    BY <1>1, <2>1 DEF Steps, SumSteps
<1>3. ASSUME NEW k \in 1 .. m, NEW x \in Nat
      PROVE  G[<<k, x>>] = x + w[k]
  BY <1>1 DEF SumSteps
<1>4. m \in Nat
  OBVIOUS
<1>5. PICK f \in [0 .. m -> Nat] : Computes(f, m, 0, G)
  BY <1>2, <1>4, RecursionExists
<1>6. IsSum(f, w, m)
  <2>1. ASSUME NEW k \in 1 .. m
        PROVE  f[k] = f[k - 1] + w[k]
    <3>1. f[k - 1] \in Nat /\ f[k] = G[<<k, f[k - 1]>>]
      BY <1>5 DEF Computes
    <3>. QED
      BY <1>3, <3>1
  <2>. QED
    BY <1>5, <2>1 DEF IsSum, Computes
<1>7. PICK v : v = CHOOSE u : u = [j \in 0 .. m |-> IF j = 0 THEN 0 ELSE u[j - 1] + w[j]]
  OBVIOUS
<1>8. IsSum(v, w, m)
  BY <1>6, <1>7 DEF IsSum
<1>9. SumTo(w, m) = v[m]
  BY <1>7 DEF SumTo
<1>10. Computes(v, m, 0, G)
  <2>1. v[0] = 0 /\ \A k \in 1 .. m : v[k] = v[k - 1] + w[k]
    BY <1>8 DEF IsSum
  <2>2. \A k \in 1 .. m : v[k - 1] \in Nat => v[k] = G[<<k, v[k - 1]>>]
    BY <1>3, <2>1
  <2>. QED
    BY <1>2, <1>4, <2>1, <2>2, ComputesToo
<1>. QED
  BY <1>1, <1>2, <1>9, <1>10

LEMMA SumStep ==
  ASSUME NEW n \in Nat, NEW w, \A i \in 1 .. n + 1 : w[i] \in Nat
  PROVE  SumTo(w, 0) = 0 /\ SumTo(w, n) \in Nat /\ SumTo(w, n + 1) = SumTo(w, n) + w[n + 1]
<1>1. PICK G : G = SumSteps(w, n + 1)
  OBVIOUS
<1>2. n + 1 \in Nat /\ 0 \in 0 .. n + 1 /\ n \in 0 .. n + 1 /\ n + 1 \in 0 .. n + 1
  OBVIOUS
<1>3. G \in Steps(Nat)
  BY <1>1, <1>2, SumComputes
<1>4. PICK z : Computes(z, 0, 0, G) /\ SumTo(w, 0) = z[0]
  BY <1>1, <1>2, SumComputes
<1>5. PICK v : Computes(v, n, 0, G) /\ SumTo(w, n) = v[n]
  BY <1>1, <1>2, SumComputes
<1>6. PICK u : Computes(u, n + 1, 0, G) /\ SumTo(w, n + 1) = u[n + 1]
  BY <1>1, <1>2, SumComputes
<1>7. Computes(u, n, 0, G)
  BY <1>6 DEF Computes
<1>8. v[n] = u[n] /\ v[n] \in Nat
  <2>1. \A k \in 0 .. n : v[k] = u[k] /\ v[k] \in Nat
    BY <1>3, <1>5, <1>7, RecursionUnique
  <2>. QED
    BY <2>1
<1>9. u[n + 1] = G[<<n + 1, u[n]>>]
  BY <1>6 DEF Computes
<1>10. u[n + 1] = u[n] + w[n + 1]
  BY <1>1, <1>8, <1>9 DEF SumSteps
<1>. QED
  BY <1>4, <1>5, <1>6, <1>8, <1>10 DEF Computes

LEMMA SumGrows ==
  ASSUME NEW n \in Nat, NEW w, \A i \in 1 .. n : w[i] \in Nat
  PROVE  \A k \in 0 .. n : SumTo(w, k) \in Nat /\ SumTo(w, k) <= SumTo(w, n)
<1> DEFINE T == {m \in Nat : \A k \in 0 .. m : SumTo(w, k) \in Nat /\ SumTo(w, k) <= SumTo(w, m)}
<1>1. 0 \in T
  <2>1. SumTo(w, 0) = 0
    <3>1. 0 \in 0 .. 0 /\ 0 \in Nat /\ \A i \in 1 .. 0 : w[i] \in Nat
      OBVIOUS
    <3>2. PICK v : Computes(v, 0, 0, SumSteps(w, 0)) /\ SumTo(w, 0) = v[0]
      BY <3>1, SumComputes
    <3>. QED
      BY <3>2 DEF Computes
  <2>. QED
    BY <2>1
<1>2. ASSUME NEW m \in 0 .. n - 1, m \in T
      PROVE  m + 1 \in T
  <2>1. PICK c \in Nat : c = w[m + 1]
    <3>1. m + 1 \in 1 .. n
      OBVIOUS
    <3>. QED
      BY <3>1
  <2>2. \A i \in 1 .. m + 1 : w[i] \in Nat
    OBVIOUS
  <2>3. SumTo(w, m + 1) = SumTo(w, m) + c /\ SumTo(w, m) \in Nat
    BY <2>1, <2>2, SumStep
  <2>4. \A k \in 0 .. m : SumTo(w, k) \in Nat /\ SumTo(w, k) <= SumTo(w, m)
    BY <1>2
  <2>5. \A k \in 0 .. m + 1 : k \in 0 .. m \/ k = m + 1
    OBVIOUS
  <2>6. SumTo(w, m + 1) \in Nat /\ SumTo(w, m) <= SumTo(w, m + 1)
    BY <2>3
  <2>7. ASSUME NEW k \in 0 .. m
        PROVE  SumTo(w, k) \in Nat /\ SumTo(w, k) <= SumTo(w, m + 1)
    BY <2>3, <2>4, <2>6
  <2>. QED
    BY <2>5, <2>6, <2>7
<1>. HIDE DEF T
<1>3. \A m \in 0 .. n : m \in T
  BY <1>1, <1>2, UpTo
<1>4. n \in T
  BY <1>3
<1>. QED
  BY <1>4 DEF T

--------------------------------------------------------------------------------
(* The records. *)

LEMMA ElementsOf ==
  ASSUME NEW S, NEW s \in Seq(S)
  PROVE  /\ Len(s) \in Nat /\ DOMAIN s = 1 .. Len(s)
         /\ \A i \in 1 .. Len(s) : s[i] \in S
OBVIOUS

LEMMA PartOf ==
  ASSUME NEW S, NEW s \in Seq(S), NEW m \in Nat \ {0}, NEW n \in Int, n <= Len(s)
  PROVE  SubSeq(s, m, n) \in Seq(S)
<1>1. \A i \in m .. n : i \in 1 .. Len(s)
  OBVIOUS
<1>2. \A i \in m .. n : s[i] \in S
  BY <1>1, ElementsOf, Zenon
<1>3. m \in Int
  OBVIOUS
<1>. QED
  BY <1>2, <1>3, SubSeqProperties, Zenon

Kinds == {"load", "store", "cr", "invlpg", "tb", "gem"}

LEMMA WidthsAre ==
  /\ Widths("load") = <<1, WordBytes, 1>> /\ Widths("store") = <<1, WordBytes, 1, WordBytes>>
  /\ Widths("cr") = <<1, 1, WordBytes>> /\ Widths("invlpg") = <<WordBytes, 1>>
  /\ Widths("tb") = <<1, WordBytes, 2>> /\ Widths("gem") = <<WordBytes, WordBytes, 1, 1>>
BY DEF Widths

LEMMA WidthsAreNat ==
  ASSUME NEW kind \in Kinds
  PROVE  Widths(kind) \in Seq(Nat \ {0})
<1>1. WordBytes \in Nat \ {0}
  BY LoopAssumption
<1>2. /\ <<1, WordBytes, 1>> \in Seq(Nat \ {0}) /\ <<1, WordBytes, 1, WordBytes>> \in Seq(Nat \ {0})
      /\ <<1, 1, WordBytes>> \in Seq(Nat \ {0}) /\ <<WordBytes, 1>> \in Seq(Nat \ {0})
      /\ <<1, WordBytes, 2>> \in Seq(Nat \ {0}) /\ <<WordBytes, WordBytes, 1, 1>> \in Seq(Nat \ {0})
  BY <1>1
<1>. QED
  BY <1>2, WidthsAre DEF Kinds

\* The fields of a record that is there have values for which their bytes have room.
LEMMA FieldsAre ==
  ASSUME trace \in Seq(0 .. Base - 1), NEW kind \in Kinds, NEW from \in Nat,
         Len(trace) >= from + RecordLength(kind)
  PROVE  /\ RecordLength(kind) \in Nat
         /\ DOMAIN Fields(from, kind) = 1 .. Len(Widths(kind))
         /\ \A i \in 1 .. Len(Widths(kind)) :
              Fields(from, kind)[i] \in 0 .. Power(Base, Widths(kind)[i]) - 1
<1>1. PICK w \in Seq(Nat \ {0}) : w = Widths(kind)
  BY WidthsAreNat
<1>2. PICK n \in Nat : n = Len(w) /\ DOMAIN w = 1 .. n /\ \A i \in 1 .. n : w[i] \in Nat \ {0}
  OBVIOUS
<1>3. \A k \in 0 .. n : SumTo(w, k) \in Nat /\ SumTo(w, k) <= SumTo(w, n)
  BY <1>2, SumGrows
<1>4. RecordLength(kind) = SumTo(w, n)
  BY <1>1, <1>2 DEF RecordLength
<1>5. ASSUME NEW i \in 1 .. n
      PROVE  Fields(from, kind)[i] \in 0 .. Power(Base, w[i]) - 1
  <2>1. PICK c \in Nat : c = w[i]
    BY <1>2
  <2>2. i - 1 \in 0 .. n /\ i \in 0 .. n /\ i - 1 \in Nat /\ (i - 1) + 1 = i
    OBVIOUS
  <2>3. PICK before \in Nat, all \in Nat : before = SumTo(w, i - 1) /\ all = SumTo(w, n)
    <3>1. n \in 0 .. n
      BY <1>2
    <3>2. SumTo(w, i - 1) \in Nat /\ SumTo(w, n) \in Nat
      BY <1>3, <2>2, <3>1
    <3>. QED
      BY <3>2
  <2>4. SumTo(w, i) = before + c
    <3>1. \A j \in 1 .. (i - 1) + 1 : w[j] \in Nat
      BY <1>2
    <3>2. SumTo(w, (i - 1) + 1) = SumTo(w, i - 1) + w[(i - 1) + 1]
      BY <2>2, <3>1, SumStep
    <3>. QED
      BY <2>1, <2>2, <2>3, <3>2
  <2>5. before + c <= all
    BY <1>3, <2>2, <2>3, <2>4
  <2>6. PICK start \in Nat : start = from + before
    OBVIOUS
  <2>7. \A j \in 1 .. c : trace[start + j] \in 0 .. Base - 1
    <3>1. start + c <= Len(trace) /\ Len(trace) \in Nat
      BY SMTT(30), <1>4, <2>3, <2>5, <2>6
    <3>2. \A j \in 1 .. c : start + j \in 1 .. Len(trace)
      BY <3>1
    <3>3. \A x \in 1 .. Len(trace) : trace[x] \in 0 .. Base - 1
      BY ElementsOf, Zenon
    <3>. QED
      BY <3>2, <3>3
  <2>8. LittleEndian(trace, start, c) \in 0 .. Power(Base, c) - 1
    BY <2>7, LittleBound
  <2>9. Fields(from, kind)[i] = LittleEndian(trace, start, c)
    BY <1>1, <1>2, <2>1, <2>3, <2>6 DEF Fields
  <2>. QED
    BY <2>1, <2>8, <2>9
<1>6. DOMAIN Fields(from, kind) = 1 .. n
  BY <1>1, <1>2 DEF Fields
<1>. QED
  BY <1>1, <1>2, <1>3, <1>4, <1>5, <1>6

\* The header of an event that is there.
LEMMA HeaderIs ==
  ASSUME trace \in Seq(0 .. Base - 1), HeaderThere
  PROVE  /\ HeaderLength \in Nat /\ HeaderLength >= 3 /\ HeaderLength <= Len(trace)
         /\ IdByte \in 0 .. Base - 1 /\ Delta \in Nat
<1>1. PICK n \in Nat : n = Len(trace) /\ \A i \in 1 .. n : trace[i] \in 0 .. Base - 1
  BY ElementsOf, Zenon
<1>2. Base \in Nat /\ Half \in Nat \ {0} /\ WordBytes \in Nat /\ WordBytes >= 2
  BY BaseIs, LoopAssumption
<1>3. \A i \in 1 .. n : trace[i] \in Nat
  BY <1>1, <1>2
<1>4. HeaderLength \in Nat /\ HeaderLength >= 3 /\ HeaderLength <= n
      /\ HeaderLength = IF Long THEN WordBytes + 1 ELSE 3
  BY <1>1, <1>2 DEF HeaderThere, HeaderLength
<1>5. IdByte \in 0 .. Base - 1
  BY <1>1, <1>4 DEF IdByte
<1>6. CASE Long
  <2>1. PICK s : s = <<trace[1] % Half, trace[2] % Half>> \o SubSeq(trace, 3, WordBytes)
    OBVIOUS
  <2>2. trace[1] \in Nat /\ trace[2] \in Nat /\ WordBytes <= n
    BY <1>2, <1>3, <1>4, <1>6
  <2>3. PICK x \in Nat, y \in Nat : x = trace[1] % Half /\ y = trace[2] % Half
    <3>1. PICK t \in Nat, u \in Nat : t = trace[1] /\ u = trace[2]
      BY <2>2
    <3>2. t % Half \in Nat
      BY <1>2
    <3>3. u % Half \in Nat
      BY <1>2
    <3>. QED
      BY <3>1, <3>2, <3>3
  <2>4. SubSeq(trace, 3, WordBytes) \in Seq(Nat) /\ Len(SubSeq(trace, 3, WordBytes)) = WordBytes - 2
    <3>1. 3 \in Int /\ WordBytes \in Int
      BY <1>2
    <3>2. \A i \in 3 .. WordBytes : trace[i] \in Nat
      <4>1. \A i \in 3 .. WordBytes : i \in 1 .. n
        BY <1>2, <2>2
      <4>. QED
        BY <1>3, <4>1
    <3>3. /\ SubSeq(trace, 3, WordBytes) \in Seq(Nat)
          /\ Len(SubSeq(trace, 3, WordBytes)) = IF 3 <= WordBytes THEN WordBytes - 3 + 1 ELSE 0
      BY <3>1, <3>2, SubSeqProperties
    <3>. QED
      BY <1>2, <3>3
  <2>5. <<x, y>> \in Seq(Nat) /\ Len(<<x, y>>) = 2
    OBVIOUS
  <2>6. s \in Seq(Nat) /\ Len(s) = WordBytes
    <3>1. <<x, y>> \o SubSeq(trace, 3, WordBytes) \in Seq(Nat)
      BY <2>4, <2>5
    <3>2. Len(<<x, y>> \o SubSeq(trace, 3, WordBytes)) = 2 + (WordBytes - 2)
      BY <2>4, <2>5, ConcatProperties
    <3>. QED
      BY <1>2, <2>1, <2>3, <3>1, <3>2
  <2>7. \A i \in 1 .. WordBytes : s[0 + i] \in Nat
    BY <2>6
  <2>8. BigEndian(s, 0, WordBytes) \in Nat
    BY <1>2, <2>7, BigValue
  <2>9. Delta \in Nat
    BY <1>6, <2>1, <2>8 DEF Delta
  <2>. QED
    BY <1>1, <1>4, <1>5, <2>9
<1>7. CASE ~Long
  <2>1. \A i \in 1 .. 2 : trace[0 + i] \in Nat
    BY <1>3, <1>4
  <2>2. BigEndian(trace, 0, 2) \in Nat
    BY <2>1, BigValue
  <2>3. Delta \in Nat
    BY <1>7, <2>2 DEF Delta
  <2>. QED
    BY <1>1, <1>4, <1>5, <2>3
<1>. QED
  BY <1>6, <1>7

LEMMA NewTimeIs ==
  ASSUME trace \in Seq(0 .. Base - 1), HeaderThere, time \in Int
  PROVE  NewTime \in 0 .. Modulus - 1
<1>1. PICK d \in Nat : d = Delta
  BY HeaderIs
<1>2. PICK z \in Int : z = time + IF IdByte >= Half THEN -d ELSE d
  <2>1. time + (IF IdByte >= Half THEN -d ELSE d) \in Int
    OBVIOUS
  <2>. QED
    BY <2>1
<1>3. PICK m \in Nat \ {0} : m = Modulus
  BY ModulusIs
<1>4. z % m \in 0 .. m - 1
  OBVIOUS
<1>. QED
  BY <1>1, <1>2, <1>3, <1>4 DEF NewTime

\* The branches of the loops.
LEMMA KindIs ==
  ASSUME NEW kind \in Kind
  PROVE  kind \in Kinds \ {"gem"}
<1>1. kind \in {Branches[i] : i \in DOMAIN Branches}
  BY DEF Kind, Fitting
<1>2. CASE loop = "printtrace"
  <2>1. Branches = <<"load", "store", "cr", "tb">>
    BY <1>2 DEF Branches
  <2>. QED
    BY <1>1, <2>1 DEF Kinds
<1>3. CASE loop # "printtrace"
  <2>1. Branches = <<"load", "store", "cr", "invlpg", "tb">>
    BY <1>3 DEF Branches
  <2>. QED
    BY <1>1, <2>1 DEF Kinds
<1>. QED
  BY <1>2, <1>3

LEMMA ThreeFirst ==
  ASSUME NEW a, NEW b, NEW c, NEW S, NEW t \in Seq(S)
  PROVE  /\ (<<a, b, c>> \o t)[1] = a /\ (<<a, b, c>> \o t)[2] = b
         /\ (<<a, b, c>> \o t)[3] = c
<1>1. PICK T : T = S \cup {a, b, c}
  OBVIOUS
<1>2. <<a, b, c>> \in Seq(T) /\ Len(<<a, b, c>>) = 3
  BY <1>1
<1>3. t \in Seq(T) /\ Len(t) \in Nat
  <2>1. Len(t) \in Nat /\ DOMAIN t = 1 .. Len(t) /\ \A i \in 1 .. Len(t) : t[i] \in S
    OBVIOUS
  <2>2. t = [i \in 1 .. Len(t) |-> t[i]]
    OBVIOUS
  <2>3. t \in [1 .. Len(t) -> T]
    BY <1>1, <2>1, <2>2
  <2>. QED
    BY <2>1, <2>3
<1>4. /\ \A i \in 1 .. 3 + Len(t) :
           (<<a, b, c>> \o t)[i] = IF i <= 3 THEN <<a, b, c>>[i] ELSE t[i - 3]
  BY <1>2, <1>3, ConcatProperties
<1>5. 1 \in 1 .. 3 + Len(t) /\ 2 \in 1 .. 3 + Len(t) /\ 3 \in 1 .. 3 + Len(t)
  BY <1>3
<1>. QED
  BY <1>4, <1>5

\* What an event has that a record was read into.
Described(e) ==
  /\ e.name \in Kinds \ {"gem"} /\ e.time \in 0 .. Modulus - 1
  /\ e.name = "cr" => e.cpu \in Nat /\ e.what[1] \in Nat
  /\ e.name = "tb" => e.what[1] \in Nat /\ e.what[2] \in Nat
  /\ e.name \in {"load", "store"} =>
       e.what[1] \in Nat /\ \E k \in 0 .. InfoSizes - 1 : e.what[2] = Power(2, k)

LEMMA HeardIs ==
  ASSUME trace \in Seq(0 .. Base - 1), time \in Int, HeaderThere, NEW kind \in Kind, RecordThere(kind)
  PROVE  Described(Heard(kind)) /\ Heard(kind).name = kind /\ Heard(kind).time = NewTime
<1>1. kind \in Kinds \ {"gem"}
  BY KindIs
<1>2. HeaderLength \in Nat /\ NewTime \in 0 .. Modulus - 1
  BY HeaderIs, NewTimeIs
<1>3. PICK f : f = Fields(HeaderLength, kind)
  OBVIOUS
<1>4. PICK n : n = Len(Widths(kind))
  OBVIOUS
<1>5. n \in {2, 3, 4} /\ (kind \in {"cr", "tb", "load"} => n = 3) /\ (kind = "store" => n = 4)
  <2>1. /\ Len(<<1, WordBytes, 1>>) = 3 /\ Len(<<1, WordBytes, 1, WordBytes>>) = 4
        /\ Len(<<1, 1, WordBytes>>) = 3 /\ Len(<<WordBytes, 1>>) = 2 /\ Len(<<1, WordBytes, 2>>) = 3
    OBVIOUS
  <2>. QED
    BY <1>1, <1>4, <2>1, WidthsAre DEF Kinds
<1>6. DOMAIN f = 1 .. n /\ \A i \in 1 .. n : f[i] \in Nat
  <2>1. Len(trace) >= HeaderLength + RecordLength(kind)
    BY DEF RecordThere
  <2>2. DOMAIN f = 1 .. n /\ \A i \in 1 .. n : f[i] \in 0 .. Power(Base, Widths(kind)[i]) - 1
    BY <1>1, <1>2, <1>3, <1>4, <2>1, FieldsAre
  <2>. QED
    BY <2>2
<1>7. f \in Seq(Nat) /\ Len(f) = n
  <2>1. f = [i \in 1 .. n |-> f[i]]
    BY <1>3, <1>6 DEF Fields
  <2>2. f \in [1 .. n -> Nat] /\ n \in Nat
    BY <1>5, <1>6, <2>1
  <2>. QED
    BY <2>2
<1>8. Heard(kind).name = kind /\ Heard(kind).time = NewTime
  BY DEF Heard
<1>9. kind = "cr" => Heard(kind).cpu \in Nat /\ Heard(kind).what[1] \in Nat
  <2>1. ASSUME kind = "cr"
        PROVE  Heard(kind).cpu = f[1] /\ Heard(kind).what = <<f[2], f[3]>>
    BY <1>3, <2>1 DEF Heard
  <2>. QED
    BY <1>5, <1>6, <2>1
<1>10. kind = "tb" => Heard(kind).what[1] \in Nat /\ Heard(kind).what[2] \in Nat
  <2>1. ASSUME kind = "tb"
        PROVE  Heard(kind).what = <<f[2], f[3]>>
    BY <1>3, <2>1 DEF Heard
  <2>. QED
    BY <1>5, <1>6, <2>1
<1>11. ASSUME kind \in {"load", "store"}
       PROVE  Heard(kind).what[1] \in Nat /\ \E k \in 0 .. InfoSizes - 1 : Heard(kind).what[2] = Power(2, k)
  <2>1. PICK b : b = ((f[3] \div InfoStore) % 2 = 1)
    OBVIOUS
  <2>2. Heard(kind).what = <<f[2], Power(2, f[3] % InfoSizes), b>> \o SubSeq(f, 4, Len(f))
    BY <1>3, <1>11, <2>1 DEF Heard
  <2>3. SubSeq(f, 4, Len(f)) \in Seq(Nat)
    <3>1. 4 \in Int /\ Len(f) \in Int /\ \A i \in 4 .. Len(f) : f[i] \in Nat
      BY <1>5, <1>6, <1>7
    <3>. QED
      BY <3>1, SubSeqProperties
  <2>4. Heard(kind).what[1] = f[2] /\ Heard(kind).what[2] = Power(2, f[3] % InfoSizes)
    BY <2>2, <2>3, ThreeFirst
  <2>5. PICK k : k = f[3] % InfoSizes
    OBVIOUS
  <2>6. k \in 0 .. InfoSizes - 1 /\ f[2] \in Nat
    <3>1. PICK x \in Nat, d \in Nat \ {0} : x = f[3] /\ d = InfoSizes
      <4>1. InfoSizes \in Nat \ {0}
        BY LoopAssumption
      <4>2. f[3] \in Nat
        BY <1>5, <1>6, <1>11
      <4>. QED
        BY <4>1, <4>2
    <3>2. x % d \in 0 .. d - 1
      OBVIOUS
    <3>3. f[2] \in Nat
      BY <1>5, <1>6
    <3>. QED
      BY <2>5, <3>1, <3>2, <3>3
  <2>. QED
    BY <2>4, <2>5, <2>6
<1>. QED
  BY <1>1, <1>2, <1>8, <1>9, <1>10, <1>11 DEF Described

--------------------------------------------------------------------------------
(* What the writer of the trace appends. *)

Byte == 0 .. Base - 1

LEMMA MaxIs ==
  ASSUME NEW n \in Nat, NEW S \in SUBSET (1 .. n), S # {}
  PROVE  Max(S) \in S /\ \A x \in S : x <= Max(S)
<1> DEFINE T == {n - x : x \in S}
<1>1. T \in SUBSET Nat /\ T # {}
  <2>1. \A x \in S : n - x \in Nat
    OBVIOUS
  <2>. QED
    BY <2>1
<1>. HIDE DEF T
<1>2. PICK t \in T : \A u \in T : t <= u
  BY <1>1, LeastOf
<1>3. PICK m \in S : t = n - m
  BY <1>2 DEF T
<1>4. \A x \in S : x <= m
  <2>1. ASSUME NEW x \in S
        PROVE  x <= m
    <3>1. n - x \in T
      BY DEF T
    <3>2. t <= n - x
      BY <1>2, <3>1
    <3>. QED
      BY <1>3, <3>2
  <2>. QED
    BY <2>1
<1>5. \A x \in S : m >= x
  BY <1>4
<1>6. Max(S) \in S /\ \A x \in S : Max(S) >= x
  BY <1>5 DEF Max
<1>. QED
  BY <1>6

LEMMA IdIs ==
  ASSUME files \in Inputs, NEW e \in Events
  PROVE  Id(e.name) \in 0 .. Half - 1
<1>1. PICK named : named = {i \in DOMAIN files.mapping : files.mapping[i].name = e.name}
  OBVIOUS
<1>2. files.mapping \in Seq([id : Nat, name : STRING])
  BY InputsAssumption
<1>3. \A i \in DOMAIN files.mapping : files.mapping[i].id \in Nat /\ files.mapping[i].id < Half
  <2>1. ASSUME NEW i \in DOMAIN files.mapping
        PROVE  files.mapping[i].id \in Nat /\ files.mapping[i].id < Half
    <3>1. files.mapping[i] \in [id : Nat, name : STRING]
      BY <1>2, ElementsOf, Zenon
    <3>2. files.mapping[i].id < Half
      BY EventsAssumption, Zenon
    <3>. QED
      BY <3>1, <3>2
  <2>. QED
    BY <2>1
<1>4. named # {}
  BY <1>1, EventsAssumption
<1>5. named \in SUBSET (1 .. Len(files.mapping)) /\ Len(files.mapping) \in Nat
  BY <1>1, <1>2
<1>6. Max(named) \in named
  BY <1>4, <1>5, MaxIs
<1>7. Id(e.name) = files.mapping[Max(named)].id
  BY <1>1 DEF Id
<1>8. files.mapping[Max(named)].id \in Nat /\ files.mapping[Max(named)].id < Half
  BY <1>1, <1>3, <1>6
<1>. QED
  BY <1>7, <1>8, BaseIs

LEMMA BytesAre ==
  ASSUME NEW v \in Nat, NEW n \in Nat
  PROVE  Bytes(v, n) \in Seq(Byte) /\ Len(Bytes(v, n)) = n
<1>1. ASSUME NEW i \in 1 .. n
      PROVE  (v \div Power(Base, i - 1)) % Base \in Byte
  <2>1. PICK d \in Nat \ {0} : d = Power(Base, i - 1)
    <3>1. i - 1 \in Nat /\ Base \in Nat \ {0}
      BY BaseIs
    <3>. QED
      BY <3>1, PowersAre
  <2>2. PICK q \in Nat : q = v \div d
    BY DivMod
  <2>3. Base \in Nat \ {0}
    BY BaseIs
  <2>4. q % Base \in 0 .. Base - 1
    BY <2>3
  <2>. QED
    BY <2>1, <2>2, <2>4 DEF Byte
<1>2. Bytes(v, n) \in [1 .. n -> Byte]
  BY <1>1 DEF Bytes
<1>. QED
  BY <1>2

LEMMA ReverseIs ==
  ASSUME NEW S, NEW s \in Seq(S)
  PROVE  Reverse(s) \in Seq(S) /\ Len(Reverse(s)) = Len(s)
<1>1. PICK n \in Nat : n = Len(s) /\ \A i \in 1 .. n : s[i] \in S
  OBVIOUS
<1>2. Reverse(s) = [i \in 1 .. n |-> s[(n - i) + 1]]
  BY <1>1 DEF Reverse
<1>3. \A i \in 1 .. n : (n - i) + 1 \in 1 .. n
  OBVIOUS
<1>4. Reverse(s) \in [1 .. n -> S]
  BY <1>1, <1>2, <1>3
<1>. QED
  BY <1>1, <1>4

LEMMA DeltaBytesAre ==
  ASSUME NEW d \in Nat
  PROVE  DeltaBytes(d) \in Seq(Byte)
<1>1. WordBytes \in Nat /\ WordBytes - 1 \in Nat
  BY LoopAssumption
<1>2. PICK w \in Nat : w = Power(Base, WordBytes - 1)
  BY <1>1, PowerStep, BaseIs
<1>3. PICK long \in Nat : long = d + Half * w
  <2>1. Half * w \in Nat
    BY BaseIs
  <2>. QED
    BY <2>1
<1>4. Bytes(d, 2) \in Seq(Byte) /\ Bytes(long, WordBytes) \in Seq(Byte)
  BY <1>1, BytesAre
<1>5. Reverse(Bytes(d, 2)) \in Seq(Byte) /\ Reverse(Bytes(long, WordBytes)) \in Seq(Byte)
  BY <1>4, ReverseIs
<1>. QED
  BY <1>2, <1>3, <1>5 DEF DeltaBytes

LEMMA OneByte ==
  ASSUME NEW x \in 0 .. Base - 1
  PROVE  <<x>> \in Seq(Byte)
BY DEF Byte

LEMMA Joined ==
  ASSUME NEW S, NEW s \in Seq(S), NEW t \in Seq(S)
  PROVE  s \o t \in Seq(S)
BY ConcatProperties

LEMMA PayloadIs ==
  ASSUME NEW e \in Events
  PROVE  Payload(e) \in Seq(Byte)
<1>1. /\ e.cpu \in 0 .. Base - 1 /\ e.addr \in Nat
      /\ e.name \in {"load", "store"} => e.shift \in 0 .. InfoSizes - 1
      /\ e.name = "store" => e.data \in Nat
      /\ e.name = "cr" => e.register \in 0 .. Base - 1 /\ e.value \in Nat
      /\ e.name = "tb" => e.size \in Nat
  <2>1. \A x : x \in 0 .. Modulus - 1 => x \in Nat
    BY ModulusIs
  <2>2. \A x : x \in 0 .. Base * Base - 1 => x \in Nat
    BY BaseIs
  <2>. QED
    BY <2>1, <2>2, EventsAssumption
<1>2. WordBytes \in Nat /\ 2 \in Nat
  BY LoopAssumption
<1>3. Bytes(e.addr, WordBytes) \in Seq(Byte) /\ <<e.cpu>> \in Seq(Byte)
  BY <1>1, <1>2, BytesAre, OneByte
<1>4. <<e.cpu>> \o Bytes(e.addr, WordBytes) \in Seq(Byte)
  BY <1>3, Joined
<1>5. CASE e.name = "load"
  <2>1. e.shift + 0 \in 0 .. Base - 1
    BY <1>1, <1>5, BaseIs, LoopAssumption
  <2>2. <<e.shift + 0>> \in Seq(Byte) /\ <<>> \in Seq(Byte)
    BY <2>1, OneByte
  <2>3. <<e.cpu>> \o Bytes(e.addr, WordBytes) \o <<e.shift + 0>> \o <<>> \in Seq(Byte)
    BY <1>4, <2>2, Joined
  <2>4. Payload(e) = <<e.cpu>> \o Bytes(e.addr, WordBytes) \o <<e.shift + 0>> \o <<>>
    BY <1>5 DEF Payload
  <2>. QED
    BY <2>3, <2>4
<1>6. CASE e.name = "store"
  <2>1. e.shift + InfoStore \in 0 .. Base - 1
    BY <1>1, <1>6, BaseIs, LoopAssumption
  <2>2. <<e.shift + InfoStore>> \in Seq(Byte) /\ Bytes(e.data, WordBytes) \in Seq(Byte)
    BY <1>1, <1>2, <1>6, <2>1, OneByte, BytesAre
  <2>3. <<e.cpu>> \o Bytes(e.addr, WordBytes) \o <<e.shift + InfoStore>> \o Bytes(e.data, WordBytes) \in Seq(Byte)
    BY <1>4, <2>2, Joined
  <2>4. Payload(e) = <<e.cpu>> \o Bytes(e.addr, WordBytes) \o <<e.shift + InfoStore>> \o Bytes(e.data, WordBytes)
    BY <1>6 DEF Payload
  <2>. QED
    BY <2>3, <2>4
<1>7. CASE e.name = "cr"
  <2>1. <<e.cpu, e.register>> \in Seq(Byte)
    BY <1>1, <1>7 DEF Byte
  <2>2. Bytes(e.value, WordBytes) \in Seq(Byte)
    BY <1>1, <1>2, <1>7, BytesAre
  <2>3. Payload(e) = <<e.cpu, e.register>> \o Bytes(e.value, WordBytes)
    BY <1>7 DEF Payload
  <2>. QED
    BY <2>1, <2>2, <2>3, Joined
<1>8. CASE e.name = "invlpg"
  <2>1. Payload(e) = Bytes(e.addr, WordBytes) \o <<e.cpu>>
    BY <1>8 DEF Payload
  <2>. QED
    BY <1>3, <2>1, Joined
<1>9. CASE e.name = "tb"
  <2>1. Bytes(e.size, 2) \in Seq(Byte)
    BY <1>1, <1>2, <1>9, BytesAre
  <2>2. Payload(e) = <<e.cpu>> \o Bytes(e.addr, WordBytes) \o Bytes(e.size, 2)
    BY <1>9 DEF Payload
  <2>. QED
    BY <1>4, <2>1, <2>2, Joined
<1>10. CASE e.name \notin {"load", "store", "cr", "invlpg", "tb"}
  <2>1. Payload(e) = <<>>
    BY <1>10 DEF Payload
  <2>. QED
    BY <2>1
<1>. QED
  BY <1>5, <1>6, <1>7, <1>8, <1>9, <1>10

LEMMA EncodedIs ==
  ASSUME files \in Inputs, NEW e \in IF loop = "gem" THEN GemEvents ELSE Events
  PROVE  Encoded(e) \in Seq(Byte)
<1>1. WordBytes \in Nat
  BY LoopAssumption
<1>2. CASE loop = "gem"
  <2>1. /\ e.tick \in Nat /\ e.addr \in Nat /\ e.type \in {"read", "write", "fetch"}
        /\ e.cpu \in 0 .. Base - 1
    <3>1. \A x : x \in 0 .. Modulus - 1 => x \in Nat
      BY ModulusIs
    <3>. QED
      BY <1>2, <3>1, EventsAssumption
  <2>2. GemType[e.type] \in {0, 1, 2}
    <3>1. GemType["read"] = 0 /\ GemType["write"] = 1 /\ GemType["fetch"] = 2
      BY DEF GemType
    <3>. QED
      BY <2>1, <3>1
  <2>3. GemType[e.type] \in 0 .. Base - 1
    BY <2>2, BaseIs, LoopAssumption
  <2>4. <<GemType[e.type], e.cpu>> \in Seq(Byte)
    BY <2>1, <2>3 DEF Byte
  <2>5. Bytes(e.tick, WordBytes) \in Seq(Byte) /\ Bytes(e.addr, WordBytes) \in Seq(Byte)
    BY <1>1, <2>1, BytesAre
  <2>6. Bytes(e.tick, WordBytes) \o Bytes(e.addr, WordBytes) \o <<GemType[e.type], e.cpu>> \in Seq(Byte)
    BY <2>4, <2>5, Joined
  <2>. QED
    BY <1>2, <2>6 DEF Encoded
<1>3. CASE loop # "gem"
  <2>1. e \in Events
    BY <1>3
  <2>2. e.delta \in Nat /\ e.negative \in BOOLEAN
    <3>1. e.delta \in 0 .. Half * Power(Base, WordBytes - 1) - 1 /\ e.negative \in BOOLEAN
      BY <2>1, EventsAssumption
    <3>2. \A x, m : x \in 0 .. m => x \in Nat
      OBVIOUS
    <3>. QED
      BY <3>1, <3>2, Zenon
  <2>3. Id(e.name) + (IF e.negative THEN Half ELSE 0) \in 0 .. Base - 1
    <3>1. PICK i \in 0 .. Half - 1 : i = Id(e.name)
      BY <2>1, IdIs
    <3>2. i + (IF e.negative THEN Half ELSE 0) \in 0 .. Base - 1
      BY BaseIs
    <3>. QED
      BY <3>1, <3>2
  <2>4. <<Id(e.name) + (IF e.negative THEN Half ELSE 0)>> \in Seq(Byte)
    BY <2>3, OneByte
  <2>5. DeltaBytes(e.delta) \in Seq(Byte) /\ Payload(e) \in Seq(Byte)
    BY <2>1, <2>2, DeltaBytesAre, PayloadIs
  <2>6. DeltaBytes(e.delta) \o <<Id(e.name) + (IF e.negative THEN Half ELSE 0)>> \o Payload(e) \in Seq(Byte)
    BY <2>4, <2>5, Joined
  <2>. QED
    BY <1>3, <2>6 DEF Encoded
<1>. QED
  BY <1>2, <1>3

--------------------------------------------------------------------------------
(* The lines of a block of code. *)

LEMMA LineIs ==
  ASSUME NEW d \in Nat \ {0}, NEW a \in Nat, NEW l \in Int
  PROVE  a \div d = l <=> d * l <= a /\ a < d * l + d
<1>1. PICK q \in Nat, r \in 0 .. d - 1 : q = a \div d /\ r = a % d /\ a = d * q + r
  BY DivMod
<1>2. ASSUME d * l <= a, a < d * l + d
      PROVE  l = q
  <2>1. d * l + d = d * (l + 1) /\ d * q + d = d * (q + 1)
    OBVIOUS
  <2>2. d * q < d * (l + 1) /\ d * l < d * (q + 1)
    <3>1. PICK x, y, z, w \in Int : x = d * q /\ y = d * l /\ z = d * (l + 1) /\ w = d * (q + 1)
      OBVIOUS
    <3>2. a = x + r /\ y <= a /\ a < y + d /\ z = y + d /\ w = x + d
      BY <1>1, <1>2, <2>1, <3>1
    <3>3. x < z /\ y < w
      BY <3>1, <3>2
    <3>. QED
      BY <3>1, <3>3
  <2>3. q < l + 1 /\ l < q + 1
    BY <2>2, Multiples
  <2>. QED
    BY <2>3
<1>3. d * q <= a /\ a < d * q + d
  BY <1>1
<1>. QED
  BY <1>1, <1>2, <1>3

LEMMA LineFrom ==
  ASSUME NEW d \in Nat \ {0}, NEW start \in Nat, NEW i \in Nat
  PROVE  /\ (start \div d) + i \in Nat /\ start + i * d \in Nat
         /\ (start + i * d) \div d = (start \div d) + i
<1>1. PICK q \in Nat, r \in 0 .. d - 1 : q = start \div d /\ r = start % d /\ start = d * q + r
  BY DivMod
<1>2. start + i * d = d * (q + i) + r
  BY <1>1
<1>3. q + i \in Int /\ start + i * d \in Int
  OBVIOUS
<1>4. (start + i * d) \div d = q + i
  BY <1>2, <1>3, DivUnique
<1>5. start + i * d \in Nat
  <2>1. i * d \in Nat
    OBVIOUS
  <2>. QED
    BY <2>1
<1>. QED
  BY <1>1, <1>4, <1>5

\* A line of the block, seen from its first.
LineAfter(d, start, a, i) ==
  /\ a \div d = (start \div d) + i /\ i <= (a - start) + 1
  /\ i * d < (a - start) + d /\ a < start + i * d + d - (start % d)
  /\ start + i * d - (start % d) <= a

LEMMA LineOfBlock ==
  ASSUME NEW d \in Nat \ {0}, NEW start \in Nat, NEW a \in Nat, start <= a
  PROVE  \E i \in Nat : LineAfter(d, start, a, i)
<1>1. PICK q \in Nat, r \in 0 .. d - 1 : q = start \div d /\ r = start % d /\ start = d * q + r
  BY DivMod
<1>2. PICK p \in Nat, s \in 0 .. d - 1 : p = a \div d /\ a = d * p + s
  BY DivMod
<1>3. p >= q
  <2>1. PICK x, y \in Int : x = d * q /\ y = d * (p + 1) /\ y = d * p + d
    OBVIOUS
  <2>2. x < y
    BY <1>1, <1>2, <2>1
  <2>3. q < p + 1
    BY <2>1, <2>2, Multiples
  <2>. QED
    BY <2>3
<1>4. PICK i \in Nat : i = p - q
  BY <1>3
<1>5. PICK x, y, z \in Nat : x = d * q /\ y = d * p /\ z = i * d /\ z = y - x
  BY <1>4
<1>6. start = x + r /\ a = y + s
  BY <1>1, <1>2, <1>5
<1>7. z < (a - start) + d /\ a < start + z + d - r /\ start + z - r <= a
  BY <1>5, <1>6
<1>8. i <= (a - start) + 1
  <2>1. CASE i = 0
    BY <2>1
  <2>2. CASE i > 0
    <3>1. PICK j \in Nat : j = i - 1
      BY <2>2
    <3>2. j * d = z - d
      BY <1>5, <3>1
    <3>3. j * d >= j
      OBVIOUS
    <3>. QED
      BY <1>7, <3>1, <3>2, <3>3
  <2>. QED
    BY <2>1, <2>2
<1>9. a \div d = (start \div d) + i
  <2>1. start \div d = q /\ a \div d = p
    BY <1>1, <1>2
  <2>2. p = q + i
    BY <1>4
  <2>. QED
    BY <2>1, <2>2
<1>10. i * d < (a - start) + d /\ a < start + i * d + d - (start % d) /\ start + i * d - (start % d) <= a
  <2>1. start % d = r /\ i * d = z
    BY <1>1, <1>5
  <2>. QED
    BY <1>7, <2>1
<1>11. LineAfter(d, start, a, i)
  BY <1>8, <1>9, <1>10 DEF LineAfter
<1>. QED
  BY <1>11

BlockOf(d, start, size) == {a \div d : a \in start .. start + size - 1}
LinesUpTo(d, start, size) ==
  {(start + i * d) \div d : i \in {j \in 0 .. size + 1 : size - j * d > -d}}

\* The coordinator fetches the lines of a block, and at most one behind it.
AllAndOne(block, lines) == block \subseteq lines /\ Cardinality(lines \ block) <= 1

LEMMA CoordinatorFetches ==
  ASSUME NEW d \in Nat \ {0}, NEW start \in Nat, NEW size \in Nat
  PROVE  AllAndOne(BlockOf(d, start, size), LinesUpTo(d, start, size))
<1>. PICK block, lines : block = BlockOf(d, start, size) /\ lines = LinesUpTo(d, start, size)
  OBVIOUS
<1>1. ASSUME NEW a \in start .. start + size - 1
      PROVE  a \div d \in lines
  <2>1. a \in Nat /\ start <= a
    OBVIOUS
  <2>2. PICK i \in Nat : a \div d = (start \div d) + i /\ i <= a - start + 1 /\ i * d < (a - start) + d
    BY <2>1, LineOfBlock DEF LineAfter
  <2>3. (start + i * d) \div d = (start \div d) + i
    BY LineFrom
  <2>4. i \in 0 .. size + 1 /\ size - i * d > -d
    <3>1. PICK z \in Nat : z = i * d
      OBVIOUS
    <3>. QED
      BY <2>2, <3>1
  <2>. QED
    BY <2>2, <2>3, <2>4 DEF LinesUpTo
<1>2. PICK q \in Nat, r \in 0 .. d - 1 : q = start \div d /\ r = start % d /\ start = d * q + r
  BY DivMod
<1>3. ASSUME NEW i \in 0 .. size + 1, size - i * d > -d, (start \div d) + i \notin block
      PROVE  i * d < size + d /\ (i * d >= size + r \/ (size = 0 /\ i = 0))
  <2>1. PICK z \in Nat : z = i * d
    OBVIOUS
  <2>2. z < size + d
    BY <1>3, <2>1
  <2>3. CASE z < size + r /\ (z >= r \/ size > 0)
    <3>1. PICK a \in Nat : a = IF z >= r THEN start + z - r ELSE start
      <4>1. CASE z >= r
        <5>1. start + z - r \in Nat
          BY <4>1
        <5>. QED
          BY <4>1, <5>1
      <4>2. CASE ~(z >= r)
        BY <4>2
      <4>. QED
        BY <4>1, <4>2
    <3>2. a \in start .. start + size - 1
      BY <2>3, <3>1
    <3>3. a \div d = (start \div d) + i
      <4>1. CASE z >= r
        <5>1. d * (q + i) = d * q + z
          BY <2>1
        <5>2. q + i \in Int /\ d * (q + i) <= a /\ a < d * (q + i) + d
          BY <1>2, <3>1, <4>1, <5>1
        <5>3. a \div d = q + i
          BY <5>2, LineIs
        <5>. QED
          BY <1>2, <5>3
      <4>2. CASE z < r
        <5>1. i = 0
          <6>1. z < d
            BY <4>2
          <6>2. i >= 1 => i * d >= d
            OBVIOUS
          <6>. QED
            BY <2>1, <6>1, <6>2
        <5>. QED
          BY <3>1, <4>2, <5>1
      <4>. QED
        BY <4>1, <4>2
    <3>. QED
      BY <1>3, <3>2, <3>3 DEF BlockOf
  <2>4. CASE ~(z < size + r /\ (z >= r \/ size > 0))
    <3>1. z >= size + r \/ (size = 0 /\ z < r)
      BY <2>4
    <3>2. i >= 1 => z >= d
      BY <2>1
    <3>3. z < r => i = 0
      BY <3>2
    <3>4. i * d < size + d
      BY <2>1, <2>2
    <3>5. i * d >= size + r \/ (size = 0 /\ i = 0)
      <4>1. CASE z >= size + r
        BY <2>1, <4>1
      <4>2. CASE size = 0 /\ z < r
        BY <3>3, <4>2
      <4>. QED
        BY <3>1, <4>1, <4>2
    <3>. QED
      BY <3>4, <3>5
  <2>. QED
    BY <2>3, <2>4
<1>4. ASSUME NEW x \in lines \ block, NEW y \in lines \ block
      PROVE  x = y
  <2>1. PICK i \in 0 .. size + 1 : size - i * d > -d /\ x = (start + i * d) \div d
    BY <1>4 DEF LinesUpTo
  <2>2. PICK j \in 0 .. size + 1 : size - j * d > -d /\ y = (start + j * d) \div d
    BY <1>4 DEF LinesUpTo
  <2>3. x = (start \div d) + i /\ y = (start \div d) + j
    <3>1. i \in Nat /\ j \in Nat
      OBVIOUS
    <3>2. (start + i * d) \div d = (start \div d) + i
      BY <3>1, LineFrom
    <3>3. (start + j * d) \div d = (start \div d) + j
      BY <3>1, LineFrom
    <3>. QED
      BY <2>1, <2>2, <3>2, <3>3
  <2>4. i * d < size + d /\ (i * d >= size + r \/ (size = 0 /\ i = 0))
    BY <1>3, <1>4, <2>1, <2>3
  <2>5. j * d < size + d /\ (j * d >= size + r \/ (size = 0 /\ j = 0))
    BY <1>3, <1>4, <2>2, <2>3
  <2>6. i = j
    <3>1. PICK u, v \in Nat : u = d * i /\ v = d * j /\ u = i * d /\ v = j * d
      OBVIOUS
    <3>2. u < v + d /\ v < u + d
      BY <2>4, <2>5, <3>1
    <3>3. d * (i + 1) = u + d /\ d * (j + 1) = v + d
      BY <3>1
    <3>4. i < j + 1 /\ j < i + 1
      <4>1. d * i < d * (j + 1) /\ d * j < d * (i + 1)
        BY <3>1, <3>2, <3>3
      <4>. QED
        BY <4>1, Multiples
    <3>. QED
      BY <3>4
  <2>. QED
    BY <2>3, <2>6
<1>5. ASSUME NEW R, R = lines \ block
      PROVE  Cardinality(R) <= 1
  <2>1. CASE R = {}
    BY <2>1, FS_EmptySet
  <2>2. CASE R # {}
    <3>1. PICK x \in R : TRUE
      BY <2>2
    <3>2. R = {x}
      BY <1>4, <1>5, <3>1
    <3>. QED
      BY <3>2, FS_Singleton
  <2>. QED
    BY <2>1, <2>2
<1>6. block \subseteq lines
  BY <1>1 DEF BlockOf
<1>. QED
  BY <1>5, <1>6 DEF AllAndOne


\* What simple accesses of a block, and the lines it should at least.
Good(a) == ~PageIn(a, Unmapped \cup Uncached)
SimpleLines(d, start, size) ==
  {(start + i * d) \div d :
     i \in {j \in 0 .. size + 1 : /\ size - j * d > 0 /\ Good(start + j * d)
                                  /\ \A k \in 0 .. j - 1 : ~PageIn(start + k * d, Unmapped)}}
PlainOf(d, start, size) ==
  {l \in BlockOf(d, start, size) : \A a \in start .. start + size - 1 : a \div d <= l => Good(a)}

\* Simple fetches lines of the block only, and all of those, or all but the last.
AllButLast(d, start, size, lines) ==
  /\ lines \subseteq BlockOf(d, start, size)
  /\ PlainOf(d, start, size) \ lines \subseteq
       IF start % d = 0 THEN {} ELSE {(start + size - 1) \div d}

LEMMA SimpleFetches ==
  ASSUME NEW d \in Nat \ {0}, NEW start \in Nat, NEW size \in Nat
  PROVE  AllButLast(d, start, size, SimpleLines(d, start, size))
<1>. PICK lines, plain : lines = SimpleLines(d, start, size) /\ plain = PlainOf(d, start, size)
  OBVIOUS
<1>1. lines \subseteq BlockOf(d, start, size)
  <2>1. ASSUME NEW i \in 0 .. size + 1, size - i * d > 0
        PROVE  (start + i * d) \div d \in BlockOf(d, start, size)
    <3>1. PICK z \in Nat : z = i * d
      OBVIOUS
    <3>2. start + z \in start .. start + size - 1
      BY <2>1, <3>1
    <3>. QED
      BY <3>1, <3>2 DEF BlockOf
  <2>. QED
    BY <2>1 DEF SimpleLines
<1>2. ASSUME NEW l \in plain, l \notin lines
      PROVE  start % d # 0 /\ l = (start + size - 1) \div d
  <2>1. PICK b \in start .. start + size - 1 : l = b \div d
    BY <1>2 DEF PlainOf, BlockOf
  <2>2. b \in Nat /\ start <= b
    OBVIOUS
  <2>3. PICK i \in Nat : LineAfter(d, start, b, i)
    BY <2>2, LineOfBlock
  <2>4. i \in 0 .. size + 1 /\ l = (start \div d) + i
    BY <2>1, <2>3 DEF LineAfter
  <2>5. PICK z \in Nat : z = i * d
    OBVIOUS
  <2>6. (start + z) \div d = l
    BY <2>4, <2>5, LineFrom
  <2>7. z >= size
    <3>. SUFFICES ASSUME z < size
                  PROVE  FALSE
      OBVIOUS
    <3>1. ASSUME NEW k \in 0 .. i
          PROVE  Good(start + k * d)
      <4>1. k \in Nat /\ k <= i
        OBVIOUS
      <4>2. (start + k * d) \div d = (start \div d) + k
        BY <4>1, LineFrom
      <4>3. d * k <= d * i
        BY <4>1, Multiples
      <4>4. PICK y \in Nat : y = k * d /\ y <= z
        BY <2>5, <4>3
      <4>5. start + y \in start .. start + size - 1
        BY <4>4
      <4>6. (start + y) \div d <= l
        <5>1. PICK q \in Nat : q = start \div d
          BY DivMod
        <5>. QED
          BY <2>4, <4>1, <4>2, <4>4, <5>1
      <4>7. \A a \in start .. start + size - 1 : a \div d <= l => Good(a)
        BY <1>2 DEF PlainOf
      <4>. QED
        BY <4>4, <4>5, <4>6, <4>7
    <3>2. \A k \in 0 .. i - 1 : ~PageIn(start + k * d, Unmapped)
      BY <3>1 DEF Good, PageIn
    <3>3. Good(start + i * d) /\ size - i * d > 0
      BY <2>5, <3>1
    <3>4. (start + i * d) \div d \in lines
      BY <2>4, <3>2, <3>3 DEF SimpleLines
    <3>. QED
      BY <1>2, <2>5, <2>6, <3>4
  <2>8. PICK r \in 0 .. d - 1 : r = start % d
    BY DivMod
  <2>9. b < start + z + d - r /\ start + z - r <= b
    BY <2>3, <2>5, <2>8 DEF LineAfter
  <2>10. r # 0
    BY <2>1, <2>7, <2>9
  <2>11. l = (start + size - 1) \div d
    <3>1. PICK last \in Nat : last = start + size - 1 /\ b <= last
      BY <2>1, <2>2
    <3>2. l \in Int /\ d * l = start + z - r
      <4>1. PICK q \in Nat, s \in 0 .. d - 1 : q = start \div d /\ s = start % d /\ start = d * q + s
        BY DivMod
      <4>2. d * (q + i) = d * q + z
        BY <2>5
      <4>3. l = q + i /\ s = r
        BY <2>4, <2>8, <4>1
      <4>4. d * l = d * (q + i)
        BY <4>3
      <4>5. PICK x, y \in Int : x = d * q /\ y = d * (q + i)
        OBVIOUS
      <4>6. y = start + z - r
        <5>1. y = x + z /\ start = x + s
          BY <4>1, <4>2, <4>5
        <5>. QED
          BY <4>3, <5>1
      <4>. QED
        BY <4>3, <4>4, <4>5, <4>6
    <3>3. PICK w \in Int : w = d * l
      BY <3>2
    <3>4. w <= last /\ last < w + d
      BY <2>7, <2>9, <3>1, <3>2, <3>3
    <3>5. last \div d = l
      BY <3>2, <3>3, <3>4, LineIs
    <3>. QED
      BY <3>1, <3>5
  <2>. QED
    BY <2>8, <2>10, <2>11
<1>3. plain \ lines \subseteq IF start % d = 0 THEN {} ELSE {(start + size - 1) \div d}
  BY <1>2
<1>. QED
  BY <1>1, <1>3 DEF AllButLast


--------------------------------------------------------------------------------
(* Numbers and their bytes. *)

\* The bytes of trace after the first `from' are those of c, as far as there are any.
Begins(from, c) == \A j \in 1 .. Len(c) : from + j <= Len(trace) => trace[from + j] = c[j]

LEMMA BaseAboveZero == Base \in Nat \ {0} /\ Half \in Nat \ {0}
BY BaseIs

\* A number is divided by powers of the base one at a time.
LEMMA DivTwice ==
  ASSUME NEW v \in Nat, NEW d \in Nat \ {0}, NEW b \in Nat \ {0}
  PROVE  /\ v \div (b * d) = (v \div d) \div b
         /\ v % (b * d) = (v % d) + ((v \div d) % b) * d
<1>1. PICK x \in Nat, y \in 0 .. d - 1 : x = v \div d /\ y = v % d /\ v = d * x + y
  BY DivMod
<1>2. PICK z \in Nat, w \in 0 .. b - 1 : z = x \div b /\ w = x % b /\ x = b * z + w
  BY DivMod
<1>3. PICK bd \in Nat \ {0} : bd = b * d
  <2>1. b * d \in Nat \ {0}
    OBVIOUS
  <2>. QED
    BY <2>1
<1>4. PICK r \in Nat : r = d * w + y
  <2>1. d * w + y \in Nat
    OBVIOUS
  <2>. QED
    BY <2>1
<1>5. r < bd
  <2>1. d * w <= d * (b - 1)
    BY Multiples
  <2>2. d * (b - 1) = bd - d
    BY <1>3
  <2>. QED
    BY <1>4, <2>1, <2>2
<1>6. v = bd * z + r
  <2>1. d * (b * z + w) = bd * z + d * w
    BY <1>3
  <2>2. PICK u \in Int, t \in Int : u = d * w /\ t = bd * z
    <3>1. d * w \in Int /\ bd * z \in Int
      OBVIOUS
    <3>. QED
      BY <3>1
  <2>3. d * x = t + u
    BY <1>2, <2>1, <2>2
  <2>4. v = (t + u) + y /\ r = u + y
    BY <1>1, <1>4, <2>2, <2>3
  <2>5. v = t + r
    BY <2>4
  <2>. QED
    BY <2>2, <2>5
<1>7. v \div bd = z /\ v % bd = r
  <2>1. r \in 0 .. bd - 1
    BY <1>5
  <2>. QED
    BY <1>6, <2>1, DivUnique
<1>8. r = y + w * d
  BY <1>4
<1>. QED
  BY <1>1, <1>2, <1>3, <1>7, <1>8

\* A number below the divisor is its own remainder.
LEMMA SmallMod ==
  ASSUME NEW d \in Nat \ {0}, NEW a \in 0 .. d - 1
  PROVE  a % d = a /\ a \div d = 0
<1>1. a = d * 0 + a /\ a \in Int
  OBVIOUS
<1>. QED
  BY <1>1, DivUnique

\* Digit number k of v, the least significant first.
Digit(v, k) == (v \div Power(Base, k)) % Base

LEMMA DigitIs ==
  ASSUME NEW v \in Nat, NEW k \in Nat
  PROVE  Digit(v, k) \in 0 .. Base - 1
<1>1. PICK d \in Nat \ {0} : d = Power(Base, k)
  BY PowersAre, BaseAboveZero
<1>2. PICK q \in Nat : q = v \div d
  BY DivMod
<1>. QED
  BY <1>1, <1>2, BaseAboveZero, DivMod DEF Digit

\* What the readers put together from the bytes of a number is the number.
LEMMA LittleOfBytes ==
  ASSUME NEW v \in Nat, NEW n \in Nat, NEW s, NEW from,
         \A i \in 1 .. n : s[from + i] = Digit(v, i - 1)
  PROVE  LittleEndian(s, from, n) = v % Power(Base, n)
<1>1. \A i \in 1 .. n : s[from + i] \in Nat
  <2>1. ASSUME NEW i \in 1 .. n
        PROVE  s[from + i] \in Nat
    <3>1. i - 1 \in Nat
      OBVIOUS
    <3>2. Digit(v, i - 1) \in Nat
      BY <3>1, DigitIs, BaseAboveZero
    <3>. QED
      BY <3>2
  <2>. QED
    BY <2>1
<1> DEFINE T == {k \in 0 .. n : LittleEndian(s, from, k) = v % Power(Base, k)}
<1>2. 0 \in T
  <2>1. LittleEndian(s, from, 0) = 0
    <3>1. 0 \in Nat
      OBVIOUS
    <3>2. 0 \in 0 .. n
      OBVIOUS
    <3>3. PICK f : Computes(f, 0, 0, LittleSteps(s, from, n)) /\ LittleEndian(s, from, 0) = f[0]
      BY <1>1, <3>2, LittleComputes, Zenon
    <3>. QED
      BY <3>3 DEF Computes
  <2>2. Power(Base, 0) = 1 /\ v % 1 = 0
    BY PowerStep, BaseAboveZero
  <2>. QED
    BY <2>1, <2>2
<1>3. ASSUME NEW k \in 0 .. n - 1, k \in T
      PROVE  k + 1 \in T
  <2>1. k \in Nat /\ \A i \in 1 .. k + 1 : s[from + i] \in Nat
    BY <1>1
  <2>2. LittleEndian(s, from, k + 1) = LittleEndian(s, from, k) + s[from + (k + 1)] * Power(Base, k)
    BY <2>1, LittleStep
  <2>3. PICK d \in Nat \ {0} : d = Power(Base, k)
    BY <2>1, PowersAre, BaseAboveZero
  <2>4. Power(Base, k + 1) = Base * d
    BY <2>1, <2>3, PowerStep, BaseAboveZero
  <2>5. v % (Base * d) = (v % d) + ((v \div d) % Base) * d
    BY DivTwice, BaseAboveZero
  <2>6. s[from + (k + 1)] = (v \div d) % Base
    <3>1. k + 1 \in 1 .. n /\ (k + 1) - 1 = k
      OBVIOUS
    <3>2. s[from + (k + 1)] = Digit(v, (k + 1) - 1)
      BY <3>1
    <3>. QED
      BY <2>3, <3>1, <3>2 DEF Digit
  <2>7. LittleEndian(s, from, k) = v % d
    BY <1>3, <2>3
  <2>8. k + 1 \in 0 .. n
    OBVIOUS
  <2>. QED
    BY <2>2, <2>3, <2>4, <2>5, <2>6, <2>7, <2>8
<1>. HIDE DEF T
<1>4. n \in T
  <2>1. \A k \in 0 .. n : k \in T
    BY <1>2, <1>3, UpTo
  <2>. QED
    BY <2>1
<1>. QED
  BY <1>4 DEF T

\* The same with the most significant first.
LEMMA BigOfBytes ==
  ASSUME NEW n \in Nat, NEW v \in 0 .. Power(Base, n) - 1, NEW s, NEW from,
         \A i \in 1 .. n : s[from + i] = Digit(v, n - i)
  PROVE  BigEndian(s, from, n) = v
<1>1. v \in Nat
  <2>1. \A m : v \in 0 .. m => v \in Nat
    OBVIOUS
  <2>. QED
    BY <2>1, Zenon
<1>2. \A i \in 1 .. n : s[from + i] \in Nat
  <2>1. ASSUME NEW i \in 1 .. n
        PROVE  s[from + i] \in Nat
    <3>1. PICK m \in Nat : m = n - i
      OBVIOUS
    <3>2. Digit(v, m) \in 0 .. Base - 1
      BY <1>1, DigitIs
    <3>. QED
      BY <3>1, <3>2, BaseAboveZero
  <2>. QED
    BY <2>1
<1> DEFINE T == {k \in 0 .. n : BigEndian(s, from, k) = v \div Power(Base, n - k)}
<1>3. 0 \in T
  <2>1. 0 \in 0 .. n
    OBVIOUS
  <2>2. PICK f : Computes(f, 0, 0, BigSteps(s, from, n)) /\ BigEndian(s, from, 0) = f[0]
    BY <1>2, <2>1, BigComputes, Zenon
  <2>3. BigEndian(s, from, 0) = 0
    BY <2>2 DEF Computes
  <2>4. PICK d \in Nat \ {0} : d = Power(Base, n)
    BY PowersAre, BaseAboveZero
  <2>5. v \div d = 0
    BY <2>4, SmallMod
  <2>. QED
    BY <2>1, <2>3, <2>4, <2>5
<1>4. ASSUME NEW k \in 0 .. n - 1, k \in T
      PROVE  k + 1 \in T
  <2>1. k \in Nat /\ \A i \in 1 .. k + 1 : s[from + i] \in Nat
    BY <1>2
  <2>2. BigEndian(s, from, k + 1) = BigEndian(s, from, k) * Base + s[from + (k + 1)]
    BY <2>1, BigStep
  <2>3. PICK m \in Nat : m = n - (k + 1)
    OBVIOUS
  <2>4. PICK d \in Nat \ {0} : d = Power(Base, m)
    BY <2>3, PowersAre, BaseAboveZero
  <2>5. Power(Base, n - k) = Base * d
    <3>1. n - k = m + 1
      BY <2>3
    <3>. QED
      BY <2>3, <2>4, <3>1, PowerStep, BaseAboveZero
  <2>6. v \div (Base * d) = (v \div d) \div Base
    BY <1>1, DivTwice, BaseAboveZero
  <2>7. s[from + (k + 1)] = (v \div d) % Base
    <3>1. k + 1 \in 1 .. n
      OBVIOUS
    <3>2. s[from + (k + 1)] = Digit(v, n - (k + 1))
      BY <3>1
    <3>. QED
      BY <2>3, <2>4, <3>2 DEF Digit
  <2>8. PICK x \in Nat : x = v \div d
    BY <1>1, DivMod
  <2>9. x = Base * (x \div Base) + (x % Base) /\ x \div Base \in Nat /\ x % Base \in 0 .. Base - 1
    BY DivMod, BaseAboveZero
  <2>10. BigEndian(s, from, k) = x \div Base
    BY <1>4, <2>5, <2>6, <2>8
  <2>11. BigEndian(s, from, k + 1) = x
    BY <2>2, <2>7, <2>8, <2>9, <2>10, BaseAboveZero
  <2>12. k + 1 \in 0 .. n
    OBVIOUS
  <2>. QED
    BY <2>3, <2>4, <2>8, <2>11, <2>12
<1>. HIDE DEF T
<1>5. n \in T
  <2>1. \A k \in 0 .. n : k \in T
    BY <1>3, <1>4, UpTo
  <2>. QED
    BY <2>1
<1>6. BigEndian(s, from, n) = v \div Power(Base, n - n)
  BY <1>5 DEF T
<1>7. n - n = 0 /\ Power(Base, 0) = 1 /\ v \div 1 = v
  BY <1>1, PowerStep, BaseAboveZero
<1>. QED
  BY <1>6, <1>7

\* Powers of the base are multiplied by adding the exponents.
LEMMA PowerSum ==
  ASSUME NEW m \in Nat, NEW k \in Nat
  PROVE  Power(Base, m + k) = Power(Base, m) * Power(Base, k)
<1> DEFINE T == {i \in 0 .. m : Power(Base, i + k) = Power(Base, i) * Power(Base, k)}
<1>1. PICK d \in Nat \ {0} : d = Power(Base, k)
  BY PowersAre, BaseAboveZero
<1>2. 0 \in T
  <2>1. Power(Base, 0) = 1 /\ 0 + k = k /\ 1 * d = d
    BY PowerStep, BaseAboveZero
  <2>. QED
    BY <1>1, <2>1
<1>3. ASSUME NEW i \in 0 .. m - 1, i \in T
      PROVE  i + 1 \in T
  <2>1. PICK x \in Nat \ {0} : x = Power(Base, i)
    BY PowersAre, BaseAboveZero
  <2>2. Power(Base, i + 1) = Base * x
    BY <2>1, PowerStep, BaseAboveZero
  <2>3. PICK n \in Nat : n = i + k
    OBVIOUS
  <2>4. Power(Base, n + 1) = Base * Power(Base, n)
    BY PowerStep, BaseAboveZero
  <2>5. Power(Base, n) = x * d
    BY <1>1, <1>3, <2>1, <2>3
  <2>6. (i + 1) + k = n + 1 /\ i + 1 \in 0 .. m
    BY <2>3
  <2>7. Base * (x * d) = (Base * x) * d
    BY BaseAboveZero
  <2>8. Power(Base, (i + 1) + k) = Power(Base, i + 1) * Power(Base, k)
    BY <1>1, <2>2, <2>4, <2>5, <2>6, <2>7
  <2>. QED
    BY <2>6, <2>8
<1>. HIDE DEF T
<1>4. m \in T
  <2>1. \A i \in 0 .. m : i \in T
    BY <1>2, <1>3, UpTo
  <2>. QED
    BY <2>1
<1>. QED
  BY <1>4 DEF T

\* A bit is set above the digits of a number.
LEMMA BitAbove ==
  ASSUME NEW n \in Nat, NEW k \in Nat, k < n, NEW d \in Nat, NEW x \in Nat
  PROVE  Digit(d + x * Power(Base, n), k) = Digit(d, k)
<1>1. PICK m \in Nat : n = (m + 1) + k
  <2>1. n - (k + 1) \in Nat /\ n = ((n - (k + 1)) + 1) + k
    OBVIOUS
  <2>. QED
    BY <2>1
<1>2. PICK p \in Nat \ {0}, w \in Nat \ {0} : p = Power(Base, k) /\ w = Power(Base, m)
  <2>1. Power(Base, k) \in Nat \ {0} /\ Power(Base, m) \in Nat \ {0}
    BY PowersAre, BaseAboveZero
  <2>. QED
    BY <2>1
<1>3. Power(Base, m + 1) = Base * w
  BY <1>2, PowerStep, BaseAboveZero
<1>4. Power(Base, n) = (Base * w) * p
  <2>1. m + 1 \in Nat
    OBVIOUS
  <2>. QED
    BY <1>1, <1>2, <1>3, <2>1, PowerSum
<1>5. PICK t \in Nat : t = x * w
  <2>1. x * w \in Nat
    OBVIOUS
  <2>. QED
    BY <2>1
<1>6. PICK u \in Nat : u = Base * t
  <2>1. Base * t \in Nat
    BY BaseAboveZero
  <2>. QED
    BY <2>1
<1>7. x * ((Base * w) * p) = p * u
  <2>1. x * ((Base * w) * p) = p * (Base * (x * w))
    BY BaseAboveZero
  <2>. QED
    BY <1>5, <1>6, <2>1
<1>8. PICK q \in Nat, r \in 0 .. p - 1 : q = d \div p /\ r = d % p /\ d = p * q + r
  BY DivMod
<1>9. PICK y \in Nat : y = d + x * Power(Base, n)
  <2>1. d + p * u \in Nat
    OBVIOUS
  <2>. QED
    BY <1>4, <1>7, <2>1
<1>10. y \div p = q + u
  <2>1. y = p * (q + u) + r
    <3>1. p * (q + u) = p * q + p * u
      OBVIOUS
    <3>. QED
      BY <1>4, <1>7, <1>8, <1>9, <3>1
  <2>2. q + u \in Int
    OBVIOUS
  <2>. QED
    BY <2>1, <2>2, DivUnique
<1>11. (q + u) % Base = q % Base
  <2>1. PICK a \in Nat, b \in 0 .. Base - 1 : a = q \div Base /\ b = q % Base /\ q = Base * a + b
    BY DivMod, BaseAboveZero
  <2>2. q + u = Base * (a + t) + b
    <3>1. Base * (a + t) = Base * a + Base * t /\ Base * a \in Nat
      BY BaseAboveZero
    <3>2. PICK c \in Nat : c = Base * a
      BY <3>1
    <3>3. q = c + b /\ Base * (a + t) = c + u
      BY <1>6, <2>1, <3>1, <3>2
    <3>. QED
      BY <3>3
  <2>3. a + t \in Int /\ q + u \in Int
    OBVIOUS
  <2>4. (q + u) % Base = b
    BY ZenonT(30), <2>2, <2>3, BaseAboveZero, DivUnique
  <2>. QED
    BY <2>1, <2>4
<1>12. Digit(y, k) = (q + u) % Base /\ Digit(d, k) = q % Base
  BY <1>2, <1>8, <1>10 DEF Digit
<1>. QED
  BY <1>9, <1>11, <1>12

\* The bytes of a number in both orders.
LEMMA BytesAt ==
  ASSUME NEW v \in Nat, NEW n \in Nat
  PROVE  /\ Len(Bytes(v, n)) = n /\ Len(Reverse(Bytes(v, n))) = n
         /\ \A i \in 1 .. n : Bytes(v, n)[i] = Digit(v, i - 1)
         /\ \A i \in 1 .. n : Reverse(Bytes(v, n))[i] = Digit(v, n - i)
<1>1. Bytes(v, n) \in Seq(Byte) /\ Len(Bytes(v, n)) = n
  BY BytesAre
<1>2. Len(Reverse(Bytes(v, n))) = n
  BY <1>1, ReverseIs
<1>3. \A i \in 1 .. n : Bytes(v, n)[i] = Digit(v, i - 1)
  BY DEF Bytes, Digit
<1>4. ASSUME NEW i \in 1 .. n
      PROVE  Reverse(Bytes(v, n))[i] = Digit(v, n - i)
  <2>1. Reverse(Bytes(v, n))[i] = Bytes(v, n)[(n - i) + 1]
    BY <1>1 DEF Reverse
  <2>2. (n - i) + 1 \in 1 .. n /\ ((n - i) + 1) - 1 = n - i
    OBVIOUS
  <2>3. Bytes(v, n)[(n - i) + 1] = Digit(v, ((n - i) + 1) - 1)
    BY <1>3, <2>2
  <2>. QED
    BY <2>1, <2>2, <2>3
<1>. QED
  BY <1>1, <1>2, <1>3, <1>4

--------------------------------------------------------------------------------
(* The header of a record. *)

\* A short difference in time.
LEMMA ShortDelta ==
  ASSUME NEW d \in Nat, d < Base * Half
  PROVE  /\ Len(DeltaBytes(d)) = 2 /\ DeltaBytes(d)[1] \in 0 .. Half - 1
         /\ \A s : s[1] = DeltaBytes(d)[1] /\ s[2] = DeltaBytes(d)[2] => BigEndian(s, 0, 2) = d
<1>1. DeltaBytes(d) = Reverse(Bytes(d, 2))
  BY DEF DeltaBytes
<1>2. /\ Len(DeltaBytes(d)) = 2
      /\ \A i \in 1 .. 2 : DeltaBytes(d)[i] = Digit(d, 2 - i)
  <2>1. PICK n \in Nat : n = 2
    OBVIOUS
  <2>2. /\ Len(Reverse(Bytes(d, n))) = n
        /\ \A i \in 1 .. n : Reverse(Bytes(d, n))[i] = Digit(d, n - i)
    BY BytesAt, Zenon
  <2>. QED
    BY <1>1, <2>1, <2>2
<1>3. Power(Base, 1) = Base /\ Power(Base, 2) = Base * Base
  <2>1. Power(Base, 0) = 1 /\ Power(Base, 0 + 1) = Base * Power(Base, 0)
    BY PowerStep, BaseAboveZero
  <2>2. Power(Base, 1 + 1) = Base * Power(Base, 1)
    BY PowerStep, BaseAboveZero
  <2>. QED
    BY <2>1, <2>2, BaseAboveZero
<1>4. DeltaBytes(d)[1] \in 0 .. Half - 1
  <2>1. PICK q \in Nat, r \in 0 .. Base - 1 : q = d \div Base /\ d = Base * q + r
    BY DivMod, BaseAboveZero
  <2>2. q < Half
    <3>1. Base * q < Base * Half
      <4>1. PICK x \in Int, y \in Int : x = Base * q /\ y = Base * Half
        BY BaseIs
      <4>2. d = x + r /\ d < y
        BY <2>1, <4>1
      <4>. QED
        BY <4>1, <4>2
    <3>. QED
      BY <3>1, BaseAboveZero, BaseIs, Multiples
  <2>3. q % Base = q
    <3>1. q \in 0 .. Base - 1
      BY <2>2, BaseIs
    <3>. QED
      BY <3>1, SmallMod, BaseAboveZero
  <2>4. DeltaBytes(d)[1] = q
    <3>1. DeltaBytes(d)[1] = Digit(d, 1)
      BY <1>2
    <3>. QED
      BY <1>3, <2>1, <2>3, <3>1 DEF Digit
  <2>. QED
    BY <2>2, <2>4, BaseIs
<1>5. ASSUME NEW s, s[1] = DeltaBytes(d)[1], s[2] = DeltaBytes(d)[2]
      PROVE  BigEndian(s, 0, 2) = d
  <2>1. \A i \in 1 .. 2 : s[0 + i] = Digit(d, 2 - i)
    BY <1>2, <1>5
  <2>2. d \in 0 .. Power(Base, 2) - 1
    <3>1. PICK x \in Int, y \in Int : x = Base * Half /\ y = Base * Base
      BY BaseIs
    <3>2. x <= y
      BY <3>1, BaseAboveZero, BaseIs, Multiples
    <3>. QED
      BY <1>3, <3>1, <3>2
  <2>. QED
    BY <2>1, <2>2, BigOfBytes
<1>. QED
  BY <1>2, <1>4, <1>5

\* What the readers make of a long difference in time.
Cleared(s) == <<s[1] % Half, s[2] % Half>> \o SubSeq(s, 3, WordBytes)

\* A long difference in time.
LEMMA LongDelta ==
  ASSUME NEW d \in Nat, d >= Base * Half, d < Half * Power(Base, WordBytes - 1),
         (d \div Power(Base, WordBytes - 2)) % Base < Half
  PROVE  /\ Len(DeltaBytes(d)) = WordBytes /\ DeltaBytes(d)[1] \in Half .. Base - 1
         /\ \A s \in Seq(Byte) :
              /\ Len(s) >= WordBytes
              /\ \A i \in 1 .. WordBytes : s[i] = DeltaBytes(d)[i]
              => BigEndian(Cleared(s), 0, WordBytes) = d
<1>1. WordBytes \in Nat /\ WordBytes >= 2 /\ WordBytes - 1 \in Nat /\ WordBytes - 2 \in Nat
  BY LoopAssumption
<1>2. PICK w \in Nat \ {0} : w = Power(Base, WordBytes - 1)
  BY <1>1, PowersAre, BaseAboveZero
<1>3. PICK v \in Nat : v = d + Half * w
  <2>1. Half * w \in Nat
    BY BaseIs
  <2>. QED
    BY <2>1
<1>4. DeltaBytes(d) = Reverse(Bytes(v, WordBytes))
  BY <1>2, <1>3, BaseIs DEF DeltaBytes
<1>5. /\ Len(DeltaBytes(d)) = WordBytes
      /\ \A i \in 1 .. WordBytes : DeltaBytes(d)[i] = Digit(v, WordBytes - i)
  BY <1>1, <1>4, BytesAt
<1>6. PICK q \in Nat, r \in 0 .. w - 1 : q = d \div w /\ d = w * q + r
  BY DivMod
<1>7. q < Half
  <2>1. PICK x \in Int, y \in Int : x = w * q /\ y = w * Half
    BY BaseIs
  <2>2. Half * w = y
    BY <2>1, BaseIs
  <2>3. x < y
    BY <1>2, <1>6, <2>1, <2>2
  <2>. QED
    BY <2>1, <2>3, BaseIs, Multiples
<1>8. Digit(d, WordBytes - 1) = q
  <2>1. q \in 0 .. Base - 1
    BY <1>7, BaseIs
  <2>2. q % Base = q
    BY <2>1, SmallMod, BaseAboveZero
  <2>. QED
    BY <1>2, <1>6, <2>2 DEF Digit
<1>9. DeltaBytes(d)[1] = q + Half
  <2>1. v = w * (q + Half) + r
    <3>1. w * (q + Half) = w * q + Half * w /\ w * q \in Int /\ Half * w \in Int
      BY BaseIs
    <3>2. PICK x \in Int, y \in Int : x = w * q /\ y = Half * w
      BY <3>1
    <3>. QED
      BY <1>3, <1>6, <3>1, <3>2
  <2>2. q + Half \in 0 .. Base - 1
    BY <1>7, BaseIs
  <2>3. v \div w = q + Half
    <3>1. PICK x \in Int : x = q + Half
      BY BaseIs
    <3>2. v = w * x + r
      BY <2>1, <3>1
    <3>3. v \div w = x
      BY <3>2, DivUnique
    <3>. QED
      BY <3>1, <3>3
  <2>4. (q + Half) % Base = q + Half
    BY <2>2, SmallMod, BaseAboveZero
  <2>5. Digit(v, WordBytes - 1) = q + Half
    BY <1>2, <2>3, <2>4 DEF Digit
  <2>. QED
    BY <1>1, <1>5, <2>5
<1>10. \A i \in 2 .. WordBytes : DeltaBytes(d)[i] = Digit(d, WordBytes - i)
  <2>1. ASSUME NEW i \in 2 .. WordBytes
        PROVE  DeltaBytes(d)[i] = Digit(d, WordBytes - i)
    <3>1. PICK k \in Nat : k = WordBytes - i /\ k < WordBytes - 1
      BY <1>1
    <3>2. Digit(d + Half * Power(Base, WordBytes - 1), k) = Digit(d, k)
      BY <1>1, <3>1, BitAbove, BaseIs
    <3>3. i \in 1 .. WordBytes
      BY <1>1
    <3>. QED
      BY <1>2, <1>3, <1>5, <3>1, <3>2, <3>3
  <2>. QED
    BY <2>1
<1>11. ASSUME NEW s \in Seq(Byte), Len(s) >= WordBytes,
              \A i \in 1 .. WordBytes : s[i] = DeltaBytes(d)[i]
       PROVE  BigEndian(Cleared(s), 0, WordBytes) = d
  <2>1. PICK n \in Nat : n = Len(s) /\ \A i \in 1 .. n : s[i] \in Nat
    <3>1. Len(s) \in Nat /\ \A i \in 1 .. Len(s) : s[i] \in Byte
      BY ElementsOf, Zenon
    <3>2. \A x \in Byte : x \in Nat
      BY BaseIs DEF Byte
    <3>. QED
      BY <3>1, <3>2
  <2>2. s[1] % Half = q
    <3>1. s[1] = q + Half
      BY <1>1, <1>9, <1>11
    <3>2. PICK x \in Int, h \in Nat \ {0} : x = s[1] /\ h = Half
      BY <3>1, BaseAboveZero
    <3>3. x = h * 1 + q /\ q \in 0 .. h - 1 /\ 1 \in Int
      BY <1>7, <3>1, <3>2
    <3>4. x % h = q
      BY <3>3, DivUnique
    <3>. QED
      BY <3>2, <3>4
  <2>3. s[2] % Half = Digit(d, WordBytes - 2)
    <3>1. s[2] = Digit(d, WordBytes - 2)
      BY <1>1, <1>10, <1>11
    <3>2. Digit(d, WordBytes - 2) < Half
      BY DEF Digit
    <3>3. PICK x \in 0 .. Base - 1 : x = Digit(d, WordBytes - 2)
      BY <1>1, DigitIs
    <3>4. PICK h \in Nat \ {0} : h = Half
      BY BaseAboveZero
    <3>5. x \in 0 .. h - 1
      BY <3>2, <3>3, <3>4
    <3>6. x % h = x
      BY <3>5, SmallMod
    <3>. QED
      BY <3>1, <3>3, <3>4, <3>6
  <2>4. PICK t : t = SubSeq(s, 3, WordBytes)
    OBVIOUS
  <2>5. /\ t \in Seq(Nat) /\ Len(t) = WordBytes - 2
        /\ \A i \in 1 .. WordBytes - 2 : t[i] = s[i + 2]
    <3>1. 3 \in Int /\ WordBytes \in Int /\ \A i \in 3 .. WordBytes : s[i] \in Nat
      BY <1>1, <1>11, <2>1
    <3>2. /\ t \in Seq(Nat) /\ Len(t) = (IF 3 <= WordBytes THEN WordBytes - 3 + 1 ELSE 0)
          /\ \A i \in 1 .. WordBytes - 3 + 1 : t[i] = s[3 + i - 1]
      BY <2>4, <3>1, SubSeqProperties
    <3>. QED
      BY <1>1, <3>2
  <2>6. \A i \in 1 .. WordBytes : Cleared(s)[0 + i] = Digit(d, WordBytes - i)
    <3>1. ASSUME NEW i \in 1 .. WordBytes
          PROVE  Cleared(s)[0 + i] = Digit(d, WordBytes - i)
      <4>1. PICK x, y : x = s[1] % Half /\ y = s[2] % Half
        OBVIOUS
      <4>2. Cleared(s) = <<x, y>> \o t
        BY <2>4, <4>1 DEF Cleared
      <4>3. CASE i = 1
        BY <1>8, <2>2, <2>5, <4>1, <4>2, <4>3
      <4>4. CASE i = 2
        BY <2>3, <2>5, <4>1, <4>2, <4>4
      <4>5. CASE i > 2
        <5>1. i - 2 \in 1 .. WordBytes - 2 /\ (i - 2) + 2 = i /\ i \in 2 .. WordBytes
          BY <1>1, <4>5
        <5>2. PICK j \in Int : j = i - 2 /\ i = 2 + j /\ j \in 1 .. Len(t)
          BY <1>1, <2>5, <5>1
        <5>3. Len(<<x, y>>) = 2
          OBVIOUS
        <5>4. (<<x, y>> \o t)[i] = t[i - 2]
          BY <2>5, <5>2, <5>3
        <5>. QED
          BY <1>10, <1>11, <2>5, <4>2, <5>1, <5>4
      <4>. QED
        BY <4>3, <4>4, <4>5
    <3>. QED
      BY <3>1
  <2>7. d \in 0 .. Power(Base, WordBytes) - 1
    <3>1. Power(Base, (WordBytes - 1) + 1) = Base * w
      BY <1>1, <1>2, PowerStep, BaseAboveZero
    <3>2. (WordBytes - 1) + 1 = WordBytes
      BY <1>1
    <3>3. PICK x \in Int, y \in Int : x = Half * w /\ y = Base * w
      BY BaseIs
    <3>4. x <= y
      <4>1. x = w * Half /\ y = w * Base
        BY <3>3, BaseIs
      <4>. QED
        BY <3>3, <4>1, BaseIs, Multiples
    <3>. QED
      BY <1>2, <3>1, <3>2, <3>3, <3>4
  <2>. QED
    BY <1>1, <2>6, <2>7, BigOfBytes
<1>12. DeltaBytes(d)[1] \in Half .. Base - 1
  BY <1>7, <1>9, BaseIs
<1>. QED
  BY <1>5, <1>11, <1>12

\* What begins with the bytes of two parts begins with the first, and goes on with the second.
LEMMA BeginsSplit ==
  ASSUME NEW from \in Int, NEW a \in Seq(Byte), NEW b \in Seq(Byte), Begins(from, a \o b)
  PROVE  Begins(from, a) /\ Begins(from + Len(a), b)
<1>1. PICK n \in Nat, m \in Nat : n = Len(a) /\ m = Len(b)
  OBVIOUS
<1>2. /\ Len(a \o b) = n + m
      /\ \A i \in 1 .. n : (a \o b)[i] = a[i]
      /\ \A i \in 1 .. m : (a \o b)[n + i] = b[i]
  <2>1. Len(a \o b) = n + m
    BY <1>1
  <2>2. \A i \in 1 .. n : (a \o b)[i] = a[i]
    BY <1>1
  <2>3. \A i \in 1 .. m : (a \o b)[n + i] = b[i]
    BY <1>1
  <2>. QED
    BY <2>1, <2>2, <2>3
<1>3. \A i \in 1 .. n + m : from + i <= Len(trace) => trace[from + i] = (a \o b)[i]
  BY <1>2 DEF Begins
<1>4. ASSUME NEW i \in 1 .. n, from + i <= Len(trace)
      PROVE  trace[from + i] = a[i]
  <2>1. i \in 1 .. n + m
    OBVIOUS
  <2>. QED
    BY <1>2, <1>3, <1>4, <2>1
<1>5. ASSUME NEW i \in 1 .. m, (from + n) + i <= Len(trace)
      PROVE  trace[(from + n) + i] = b[i]
  <2>1. n + i \in 1 .. n + m /\ from + (n + i) = (from + n) + i
    OBVIOUS
  <2>. QED
    BY <1>2, <1>3, <1>5, <2>1
<1>. QED
  BY <1>1, <1>4, <1>5 DEF Begins

\* The header of a record at the head of the trace.
LEMMA HeaderDecodes ==
  ASSUME trace \in Seq(Byte), trace # <<>>,
         NEW d \in Nat, d < Half * Power(Base, WordBytes - 1),
         (d \div Power(Base, WordBytes - 2)) % Base < Half,
         NEW x \in Byte, Begins(0, DeltaBytes(d)), Begins(Len(DeltaBytes(d)), <<x>>)
  PROVE  /\ HeaderLength = Len(DeltaBytes(d)) + 1 /\ HeaderLength \in Nat
         /\ HeaderLength <= Len(trace) => Delta = d /\ IdByte = x
<1>1. PICK n \in Nat : n = Len(trace) /\ n > 0
  OBVIOUS
<1>2. PICK m \in Nat : m = Len(DeltaBytes(d)) /\ m >= 2
  <2>1. Base * Half \in Nat /\ WordBytes \in Nat /\ WordBytes >= 2
    BY BaseIs, LoopAssumption
  <2>2. CASE d < Base * Half
    BY <2>2, ShortDelta
  <2>3. CASE d >= Base * Half
    BY <2>1, <2>3, LongDelta
  <2>. QED
    BY <2>1, <2>2, <2>3
<1>3. \A i \in 1 .. m : i <= n => trace[i] = DeltaBytes(d)[i]
  <2>1. \A i \in 1 .. m : 0 + i = i
    OBVIOUS
  <2>. QED
    BY <1>1, <1>2, <2>1 DEF Begins
<1>4. trace[1] = DeltaBytes(d)[1]
  BY <1>1, <1>2, <1>3
<1>5. m + 1 <= n => trace[m + 1] = x
  <2>1. Len(<<x>>) = 1 /\ <<x>>[1] = x
    OBVIOUS
  <2>. QED
    BY <1>1, <1>2, <2>1 DEF Begins
<1>6. CASE d < Base * Half
  <2>1. m = 2 /\ DeltaBytes(d)[1] \in 0 .. Half - 1
    BY <1>2, <1>6, ShortDelta
  <2>2. ~Long
    BY <1>4, <2>1, BaseIs DEF Long
  <2>3. HeaderLength = m + 1
    BY <2>1, <2>2 DEF HeaderLength
  <2>4. ASSUME m + 1 <= n
        PROVE  Delta = d
    <3>1. trace[1] = DeltaBytes(d)[1] /\ trace[2] = DeltaBytes(d)[2]
      BY <1>3, <2>1, <2>4
    <3>2. BigEndian(trace, 0, 2) = d
      BY <1>6, <3>1, ShortDelta
    <3>. QED
      BY <2>2, <3>2 DEF Delta
  <2>. QED
    BY <1>1, <1>2, <1>5, <2>3, <2>4 DEF IdByte
<1>7. CASE ~(d < Base * Half)
  <2>1. d >= Base * Half
    <3>1. Base * Half \in Nat
      BY BaseIs
    <3>. QED
      BY <1>7, <3>1
  <2>2. m = WordBytes /\ DeltaBytes(d)[1] \in Half .. Base - 1
    BY <1>2, <2>1, LongDelta
  <2>3. Long
    BY <1>4, <2>2, BaseIs DEF Long
  <2>4. HeaderLength = m + 1
    BY <2>2, <2>3 DEF HeaderLength
  <2>5. ASSUME m + 1 <= n
        PROVE  Delta = d
    <3>1. \A i \in 1 .. WordBytes : trace[i] = DeltaBytes(d)[i]
      BY <1>3, <2>2, <2>5
    <3>2. Len(trace) >= WordBytes
      BY <1>1, <2>2, <2>5
    <3>3. BigEndian(Cleared(trace), 0, WordBytes) = d
      BY <2>1, <3>1, <3>2, LongDelta
    <3>. QED
      BY <2>3, <3>3 DEF Delta, Cleared
  <2>. QED
    BY <1>1, <1>2, <1>5, <2>4, <2>5 DEF IdByte
<1>. QED
  BY <1>6, <1>7

\* What is known of an event of the trace.
EventIs(e) ==
  /\ e.delta \in Nat /\ e.delta < Half * Power(Base, WordBytes - 1)
  /\ (e.delta \div Power(Base, WordBytes - 2)) % Base < Half
  /\ e.negative \in BOOLEAN /\ e.cpu \in Byte /\ e.addr \in 0 .. Modulus - 1
  /\ e.name \in {"load", "store"} => e.shift \in 0 .. InfoSizes - 1
  /\ e.name = "store" => e.data \in 0 .. Modulus - 1
  /\ e.name = "cr" => e.register \in Byte /\ e.value \in 0 .. Modulus - 1
  /\ e.name = "tb" => e.size \in 0 .. Base * Base - 1

LEMMA EventsAre ==
  ASSUME NEW e \in Events
  PROVE  EventIs(e)
<1>1. PICK w \in Nat : w = Half * Power(Base, WordBytes - 1)
  <2>1. WordBytes - 1 \in Nat
    BY LoopAssumption
  <2>2. PICK p \in Nat : p = Power(Base, WordBytes - 1)
    BY <2>1, PowersAre, BaseAboveZero
  <2>3. Half * p \in Nat
    BY BaseAboveZero
  <2>. QED
    BY <2>2, <2>3
<1>2. e.delta \in 0 .. w - 1
  BY <1>1, EventsAssumption
<1>3. e.delta \in Nat /\ e.delta < w
  BY <1>2
<1>4. (e.delta \div Power(Base, WordBytes - 2)) % Base < Half
  BY DecodingAssumption
<1>. QED
  BY <1>1, <1>3, <1>4, EventsAssumption DEF EventIs, Byte

\* The loop knows the ids as the writer has them.
LEMMA IdCounts ==
  ASSUME files \in Inputs, NEW name \in Names
  PROVE  \E i \in DOMAIN files.mapping :
           /\ files.mapping[i].name = name /\ Id(name) = files.mapping[i].id
           /\ Id(name) \in 0 .. Half - 1 /\ Content.mapping[name] = Id(name)
<1>1. PICK entries : entries = files.mapping
  OBVIOUS
<1>2. entries \in Seq([id : Nat, name : STRING])
  BY <1>1, InputsAssumption
<1>3. PICK n \in Nat : n = Len(entries) /\ DOMAIN entries = 1 .. n
  BY <1>2
<1>4. PICK named : named = {j \in DOMAIN entries : entries[j].name = name}
  OBVIOUS
<1>5. named \in SUBSET (1 .. n) /\ named # {}
  BY <1>1, <1>3, <1>4, DecodingAssumption
<1>6. PICK m \in named : m = Max(named) /\ \A j \in named : j <= m
  BY <1>5, MaxIs
<1>7. PICK c \in named : c = (CHOOSE k \in named : \A j \in named : j <= k) /\ \A j \in named : j <= c
  BY <1>6
<1>8. c = m
  <2>1. c \in 1 .. n /\ m \in 1 .. n
    BY <1>5
  <2>2. c <= m /\ m <= c
    BY <1>6, <1>7
  <2>. QED
    BY <2>1, <2>2
<1>9. entries[m] \in [id : Nat, name : STRING] /\ m \in DOMAIN entries /\ entries[m].name = name
  <2>1. m \in DOMAIN entries /\ entries[m].name = name
    BY <1>4
  <2>2. entries[m] \in [id : Nat, name : STRING]
    BY <1>2, <2>1, ElementsOf, Zenon
  <2>. QED
    BY <2>1, <2>2
<1>10. Id(name) = entries[m].id
  BY <1>1, <1>4, <1>6 DEF Id
<1>11. PICK x \in Nat : x = entries[m].id
  BY <1>9
<1>12. x < IdMask /\ x < Half
  BY <1>1, <1>9, <1>11, DecodingAssumption, EventsAssumption
<1>13. x % IdMask = x
  <2>1. IdMask \in Nat \ {0} /\ x \in 0 .. IdMask - 1
    BY <1>12, StartupAssumption
  <2>. QED
    BY <2>1, SmallMod
<1>14. Content.mapping[name] = x
  <2>1. Content.mapping = ReadMapping(entries)
    BY <1>1, ContentIs
  <2>2. ReadMapping(entries)[name] = IF named = {} THEN None ELSE entries[c].id % IdMask
    BY <1>4, <1>7 DEF ReadMapping
  <2>. QED
    BY <1>5, <1>8, <1>11, <1>13, <2>1, <2>2
<1>15. x \in 0 .. Half - 1
  BY <1>12, BaseIs
<1>. QED
  BY <1>1, <1>9, <1>10, <1>11, <1>14, <1>15

\* The byte of the id: the loop takes the branch of the event, or none, and has the sign.
LEMMA IdDecodes ==
  ASSUME files \in Inputs, mapping = Content.mapping, NEW e \in Events,
         IdByte = Id(e.name) + IF e.negative THEN Half ELSE 0
  PROVE  /\ Kind \subseteq {e.name}
         /\ IdByte >= Half <=> e.negative
<1>1. PICK id \in 0 .. Half - 1 : id = Id(e.name)
  BY IdIs
<1>2. e.negative \in BOOLEAN
  BY EventsAssumption
<1>3. IdByte = IF e.negative THEN id + Half ELSE id
  BY <1>1
<1>4. IdByte >= Half <=> e.negative
  BY <1>2, <1>3, BaseIs
<1>5. IdByte % Half = id
  <2>1. PICK h \in Nat \ {0} : h = Half
    BY BaseAboveZero
  <2>2. id \in 0 .. h - 1
    BY <2>1
  <2>3. (id + h) % h = id
    <3>1. id + h = h * 1 + id /\ 1 \in Int /\ id + h \in Int
      OBVIOUS
    <3>. QED
      BY <2>2, <3>1, DivUnique
  <2>4. id % h = id
    BY <2>2, SmallMod
  <2>. QED
    BY <1>3, <2>1, <2>3, <2>4
<1>6. ASSUME NEW kind \in Kind
      PROVE  kind = e.name
  <2>1. kind \in Names
    BY KindIs, DecodingAssumption DEF Kinds
  <2>2. mapping[kind] = id
    <3>1. PICK i \in Fitting : kind = Branches[i]
      BY DEF Kind
    <3>. QED
      BY <1>5, <3>1 DEF Fitting
  <2>3. PICK i \in DOMAIN files.mapping : files.mapping[i].name = kind /\ files.mapping[i].id = id
    BY <2>1, <2>2, IdCounts
  <2>4. PICK j \in DOMAIN files.mapping : files.mapping[j].name = e.name /\ files.mapping[j].id = id
    <3>1. PICK entries : entries = files.mapping
      OBVIOUS
    <3>2. PICK named : named = {j \in DOMAIN entries : entries[j].name = e.name}
      OBVIOUS
    <3>3. PICK n \in Nat : DOMAIN entries = 1 .. n
      BY <3>1, InputsAssumption
    <3>4. named \in SUBSET (1 .. n) /\ named # {}
      BY <3>1, <3>2, <3>3, EventsAssumption
    <3>5. Max(named) \in named
      BY <3>4, MaxIs
    <3>6. Id(e.name) = entries[Max(named)].id
      BY <3>1, <3>2 DEF Id
    <3>. QED
      BY <1>1, <3>1, <3>2, <3>5, <3>6
  <2>. QED
    BY <2>3, <2>4, DecodingAssumption
<1>. QED
  BY <1>4, <1>6

\* The header of an event at the head of the trace.
LEMMA EventHeader ==
  ASSUME trace \in Seq(Byte), trace # <<>>, files \in Inputs, loop # "gem", NEW e \in Events,
         Begins(0, Encoded(e))
  PROVE  /\ HeaderLength \in Nat /\ HeaderLength >= 3
         /\ Len(Encoded(e)) = HeaderLength + Len(Payload(e))
         /\ Begins(HeaderLength, Payload(e))
         /\ HeaderThere /\ mapping = Content.mapping /\ time \in Int =>
              Kind \subseteq {e.name} /\ NewTime = Meaning(time, e).time
<1>1. PICK id \in 0 .. Half - 1 : id = Id(e.name)
  BY IdIs
<1>2. PICK x \in Byte : x = id + IF e.negative THEN Half ELSE 0
  <2>1. id + (IF e.negative THEN Half ELSE 0) \in Byte
    BY BaseIs DEF Byte
  <2>. QED
    BY <2>1
<1>3. PICK d \in Nat : d = e.delta /\ d < Half * Power(Base, WordBytes - 1)
                       /\ (d \div Power(Base, WordBytes - 2)) % Base < Half
  BY EventsAre DEF EventIs
<1>4. PICK a \in Seq(Byte), p \in Seq(Byte) : a = DeltaBytes(d) /\ p = Payload(e)
  BY DeltaBytesAre, PayloadIs
<1>5. <<x>> \in Seq(Byte) /\ Len(<<x>>) = 1
  OBVIOUS
<1>6. a \o <<x>> \in Seq(Byte) /\ Len(a \o <<x>>) = Len(a) + 1 /\ Len(a) \in Nat
  <2>1. a \o <<x>> \in Seq(Byte)
    BY <1>5, Joined
  <2>. QED
    BY <1>5, <2>1
<1>7. Encoded(e) = (a \o <<x>>) \o p
  BY <1>1, <1>2, <1>3, <1>4 DEF Encoded
<1>8. Len(Encoded(e)) = (Len(a) + 1) + Len(p) /\ Len(p) \in Nat
  BY <1>6, <1>7
<1>9. Begins(0, a \o <<x>>) /\ Begins(0 + (Len(a) + 1), p)
  <2>0. PICK z \in Int : z = 0
    OBVIOUS
  <2>1. PICK b \in Seq(Byte) : b = a \o <<x>>
    BY <1>6, Zenon
  <2>2. Begins(z, b \o p)
    BY <1>7, <2>0, <2>1
  <2>3. Begins(z, b) /\ Begins(z + Len(b), p)
    BY <2>2, BeginsSplit
  <2>. QED
    BY <1>6, <2>0, <2>1, <2>3
<1>10. Begins(0, a) /\ Begins(0 + Len(a), <<x>>)
  <2>0. PICK z \in Int : z = 0
    OBVIOUS
  <2>1. PICK b \in Seq(Byte) : b = <<x>>
    BY <1>5, Zenon
  <2>2. Begins(z, a \o b)
    BY <1>9, <2>0, <2>1
  <2>3. Begins(z, a) /\ Begins(z + Len(a), b)
    BY <2>2, BeginsSplit
  <2>. QED
    BY <2>0, <2>1, <2>3
<1>11. 0 + Len(a) = Len(a) /\ 0 + (Len(a) + 1) = Len(a) + 1
  BY <1>6
<1>12. /\ HeaderLength = Len(a) + 1
       /\ HeaderLength <= Len(trace) => Delta = d /\ IdByte = x
  BY <1>3, <1>4, <1>10, <1>11, HeaderDecodes
<1>13. HeaderLength >= 3
  BY LoopAssumption DEF HeaderLength
<1>14. ASSUME HeaderThere, mapping = Content.mapping, time \in Int
       PROVE  Kind \subseteq {e.name} /\ NewTime = Meaning(time, e).time
  <2>1. Delta = d /\ IdByte = x
    <3>1. HeaderLength <= Len(trace)
      BY <1>14 DEF HeaderThere
    <3>. QED
      BY <1>12, <3>1
  <2>2. Kind \subseteq {e.name} /\ (IdByte >= Half <=> e.negative)
    BY <1>1, <1>2, <1>14, <2>1, IdDecodes
  <2>3. NewTime = (time + IF e.negative THEN -d ELSE d) % Modulus
    BY <2>1, <2>2 DEF NewTime
  <2>4. Meaning(time, e).time = (time + IF e.negative THEN -d ELSE d) % Modulus
    BY <1>3 DEF Meaning
  <2>. QED
    BY <2>2, <2>3, <2>4
<1>. QED
  BY <1>4, <1>6, <1>8, <1>9, <1>11, <1>12, <1>13, <1>14

--------------------------------------------------------------------------------
(* The fields of a record. *)

\* The sums of the first widths.
LEMMA FirstSums ==
  ASSUME NEW w, NEW n \in 1 .. 4, \A i \in 1 .. n : w[i] \in Nat
  PROVE  /\ SumTo(w, 0) = 0
         /\ SumTo(w, 1) = w[1]
         /\ n >= 2 => SumTo(w, 2) = w[1] + w[2]
         /\ n >= 3 => SumTo(w, 3) = (w[1] + w[2]) + w[3]
         /\ n >= 4 => SumTo(w, 4) = ((w[1] + w[2]) + w[3]) + w[4]
<1>1. ASSUME NEW k \in Nat, k < n
      PROVE  SumTo(w, 0) = 0 /\ SumTo(w, k + 1) = SumTo(w, k) + w[k + 1]
  <2>1. \A i \in 1 .. k + 1 : w[i] \in Nat
    BY <1>1
  <2>. QED
    BY <2>1, SumStep
<1>2. SumTo(w, 0) = 0
  BY <1>1
<1>3. SumTo(w, 1) = w[1] /\ w[1] \in Nat
  <2>1. SumTo(w, 0 + 1) = SumTo(w, 0) + w[0 + 1] /\ w[1] \in Nat
    BY <1>1
  <2>. QED
    BY <1>2, <2>1
<1>4. n >= 2 => SumTo(w, 2) = w[1] + w[2]
  <2>1. n >= 2 => SumTo(w, 1 + 1) = SumTo(w, 1) + w[1 + 1]
    BY <1>1
  <2>. QED
    BY <1>3, <2>1
<1>5. n >= 3 => SumTo(w, 3) = (w[1] + w[2]) + w[3]
  <2>1. n >= 3 => SumTo(w, 2 + 1) = SumTo(w, 2) + w[2 + 1]
    BY <1>1
  <2>. QED
    BY <1>4, <2>1
<1>6. n >= 4 => SumTo(w, 4) = ((w[1] + w[2]) + w[3]) + w[4]
  <2>1. n >= 4 => SumTo(w, 3 + 1) = SumTo(w, 3) + w[3 + 1]
    BY <1>1
  <2>. QED
    BY <1>5, <2>1
<1>. QED
  BY <1>2, <1>3, <1>4, <1>5, <1>6

\* A field that is a number in n bytes, and one of one byte.
LEMMA NumberField ==
  ASSUME NEW from \in Int, NEW n \in Nat, NEW v \in 0 .. Power(Base, n) - 1,
         Begins(from, Bytes(v, n)), from + n <= Len(trace), trace \in Seq(Byte)
  PROVE  LittleEndian(trace, from, n) = v
<1>1. v \in Nat
  <2>1. \A m : v \in 0 .. m => v \in Nat
    OBVIOUS
  <2>. QED
    BY <2>1, Zenon
<1>2. Len(Bytes(v, n)) = n /\ \A i \in 1 .. n : Bytes(v, n)[i] = Digit(v, i - 1)
  BY <1>1, BytesAt
<1>3. \A i \in 1 .. n : trace[from + i] = Digit(v, i - 1)
  <2>1. PICK m \in Nat : m = Len(trace)
    OBVIOUS
  <2>2. \A i \in 1 .. n : from + i <= m
    BY <2>1
  <2>. QED
    BY <1>2, <2>1, <2>2 DEF Begins
<1>4. LittleEndian(trace, from, n) = v % Power(Base, n)
  BY <1>1, <1>3, LittleOfBytes
<1>5. PICK d \in Nat \ {0} : d = Power(Base, n)
  BY PowersAre, BaseAboveZero
<1>. QED
  BY <1>4, <1>5, SmallMod

LEMMA ByteField ==
  ASSUME NEW from \in Int, NEW x \in Byte, Begins(from, <<x>>), from + 1 <= Len(trace),
         trace \in Seq(Byte)
  PROVE  LittleEndian(trace, from, 1) = x
<1>1. trace[from + 1] = x
  <2>1. Len(<<x>>) = 1 /\ <<x>>[1] = x
    OBVIOUS
  <2>. QED
    BY <2>1 DEF Begins
<1>2. Power(Base, 0) = 1 /\ x \in Nat
  BY PowerStep, BaseAboveZero DEF Byte
<1>3. \A i \in 1 .. 0 + 1 : trace[from + i] \in Nat
  BY <1>1, <1>2
<1>4. PICK z \in Nat : z = 0
  OBVIOUS
<1>5. /\ LittleEndian(trace, from, z) = 0
      /\ LittleEndian(trace, from, z + 1) = LittleEndian(trace, from, z) + trace[from + (z + 1)] * Power(Base, z)
  BY <1>3, <1>4, LittleStep
<1>6. z + 1 = 1 /\ x * 1 = x /\ 0 + x = x
  BY <1>2, <1>4
<1>. QED
  BY <1>1, <1>2, <1>4, <1>5, <1>6

\* The widths of a kind, where its fields are and how long its records.
LaidOut(kind, w) ==
  /\ Len(w) \in 1 .. 4
  /\ RecordLength(kind) = SumTo(w, Len(w)) /\ SumTo(w, 1) = w[1]
  /\ Len(w) >= 2 => SumTo(w, 2) = w[1] + w[2]
  /\ Len(w) >= 3 => SumTo(w, 3) = (w[1] + w[2]) + w[3]
  /\ Len(w) >= 4 => SumTo(w, 4) = ((w[1] + w[2]) + w[3]) + w[4]
  /\ \A from \in Int :
       /\ Fields(from, kind) \in [1 .. Len(w) -> Range(Fields(from, kind))]
       /\ Fields(from, kind)[1] = LittleEndian(trace, from, w[1])
       /\ Len(w) >= 2 => Fields(from, kind)[2] = LittleEndian(trace, from + w[1], w[2])
       /\ Len(w) >= 3 =>
            Fields(from, kind)[3] = LittleEndian(trace, from + (w[1] + w[2]), w[3])
       /\ Len(w) >= 4 =>
            Fields(from, kind)[4] = LittleEndian(trace, from + ((w[1] + w[2]) + w[3]), w[4])

LEMMA FieldPlaces ==
  ASSUME NEW kind \in Kinds
  PROVE  LaidOut(kind, Widths(kind))
<1>0. PICK w : w = Widths(kind)
  OBVIOUS
<1>1. w \in Seq(Nat \ {0})
  BY <1>0, WidthsAreNat
<1>2. PICK n \in Nat : n = Len(w) /\ DOMAIN w = 1 .. n
  BY <1>1
<1>3. n \in 1 .. 4
  <2>1. \A a, b, c, d : Len(<<a, b>>) = 2 /\ Len(<<a, b, c>>) = 3 /\ Len(<<a, b, c, d>>) = 4
    OBVIOUS
  <2>2. \E a, b, c, d : w \in {<<a, b>>, <<a, b, c>>, <<a, b, c, d>>}
    BY <1>0, WidthsAre DEF Kinds
  <2>. QED
    BY <1>2, <2>1, <2>2
<1>4. \A i \in 1 .. n : w[i] \in Nat
  BY <1>1, <1>2
<1>5. /\ SumTo(w, 0) = 0 /\ SumTo(w, 1) = w[1]
      /\ n >= 2 => SumTo(w, 2) = w[1] + w[2]
      /\ n >= 3 => SumTo(w, 3) = (w[1] + w[2]) + w[3]
      /\ n >= 4 => SumTo(w, 4) = ((w[1] + w[2]) + w[3]) + w[4]
  BY <1>3, <1>4, FirstSums
<1>6. RecordLength(kind) = SumTo(w, n)
  BY <1>0, <1>2 DEF RecordLength
<1>7. ASSUME NEW from \in Int, NEW f, f = Fields(from, kind)
      PROVE  /\ f \in [1 .. n -> Range(f)]
             /\ f[1] = LittleEndian(trace, from, w[1])
             /\ n >= 2 => f[2] = LittleEndian(trace, from + w[1], w[2])
             /\ n >= 3 => f[3] = LittleEndian(trace, from + (w[1] + w[2]), w[3])
             /\ n >= 4 => f[4] = LittleEndian(trace, from + ((w[1] + w[2]) + w[3]), w[4])
  <2>1. f = [i \in 1 .. n |-> LittleEndian(trace, from + SumTo(w, i - 1), w[i])]
    BY <1>0, <1>2, <1>7 DEF Fields
  <2>2. f \in [1 .. n -> Range(f)]
    BY <2>1 DEF Range
  <2>3. f[1] = LittleEndian(trace, from + SumTo(w, 1 - 1), w[1])
    BY <1>3, <2>1
  <2>4. n >= 2 => f[2] = LittleEndian(trace, from + SumTo(w, 2 - 1), w[2])
    BY <2>1
  <2>5. n >= 3 => f[3] = LittleEndian(trace, from + SumTo(w, 3 - 1), w[3])
    BY <2>1
  <2>6. n >= 4 => f[4] = LittleEndian(trace, from + SumTo(w, 4 - 1), w[4])
    BY <2>1
  <2>7. from + 0 = from /\ 1 - 1 = 0 /\ 2 - 1 = 1 /\ 3 - 1 = 2 /\ 4 - 1 = 3
    OBVIOUS
  <2>8. n >= 3 => n >= 2
    BY <1>3
  <2>9. n >= 4 => n >= 3
    BY <1>3
  <2>. QED
    BY <1>5, <2>2, <2>3, <2>4, <2>5, <2>6, <2>7, <2>8, <2>9, Zenon
<1>. QED
  BY <1>0, <1>2, <1>3, <1>5, <1>6, <1>7 DEF LaidOut

\* What begins with the bytes of three or four parts.
LEMMA BeginsThree ==
  ASSUME NEW from \in Int, NEW a \in Seq(Byte), NEW b \in Seq(Byte), NEW c \in Seq(Byte),
         Begins(from, (a \o b) \o c)
  PROVE  /\ Len((a \o b) \o c) = (Len(a) + Len(b)) + Len(c)
         /\ Begins(from, a) /\ Begins(from + Len(a), b) /\ Begins(from + (Len(a) + Len(b)), c)
<1>1. PICK h \in Seq(Byte) : h = a \o b
  BY Joined
<1>2. Len(h) = Len(a) + Len(b) /\ Len(h \o c) = Len(h) + Len(c)
  BY <1>1
<1>3. Begins(from, h) /\ Begins(from + Len(h), c)
  BY <1>1, BeginsSplit
<1>4. Begins(from, a) /\ Begins(from + Len(a), b)
  BY <1>1, <1>3, BeginsSplit
<1>. QED
  BY <1>1, <1>2, <1>3, <1>4

LEMMA BeginsFour ==
  ASSUME NEW from \in Int, NEW a \in Seq(Byte), NEW b \in Seq(Byte), NEW c \in Seq(Byte),
         NEW d \in Seq(Byte), Begins(from, ((a \o b) \o c) \o d)
  PROVE  /\ Len(((a \o b) \o c) \o d) = ((Len(a) + Len(b)) + Len(c)) + Len(d)
         /\ Begins(from, a) /\ Begins(from + Len(a), b) /\ Begins(from + (Len(a) + Len(b)), c)
         /\ Begins(from + ((Len(a) + Len(b)) + Len(c)), d)
<1>1. PICK k \in Seq(Byte) : k = (a \o b) \o c
  <2>1. a \o b \in Seq(Byte)
    BY Joined
  <2>2. (a \o b) \o c \in Seq(Byte)
    BY <2>1, Joined
  <2>. QED
    BY <2>2
<1>2. Begins(from, k) /\ Begins(from + Len(k), d)
  BY <1>1, BeginsSplit
<1>3. Begins(from, (a \o b) \o c)
  BY <1>1, <1>2
<1>4. /\ Len((a \o b) \o c) = (Len(a) + Len(b)) + Len(c)
      /\ Begins(from, a) /\ Begins(from + Len(a), b) /\ Begins(from + (Len(a) + Len(b)), c)
  BY <1>3, BeginsThree
<1>5. Len(k \o d) = Len(k) + Len(d)
  OBVIOUS
<1>. QED
  BY <1>1, <1>2, <1>4, <1>5

LEMMA TuplesAre ==
  ASSUME NEW R, NEW n, NEW f \in [1 .. n -> R]
  PROVE  /\ n = 2 => f = <<f[1], f[2]>>
         /\ n = 3 => f = <<f[1], f[2], f[3]>>
         /\ n = 4 => f = <<f[1], f[2], f[3], f[4]>>
<1>1. CASE n = 2
  BY <1>1
<1>2. CASE n = 3
  BY <1>2
<1>3. CASE n = 4
  BY <1>3
<1>. QED
  BY <1>1, <1>2, <1>3

LEMMA TwoOfOne ==
  ASSUME NEW x, NEW y
  PROVE  <<x>> \o <<y>> = <<x, y>>
<1>1. PICK T : T = {x, y}
  OBVIOUS
<1>2. /\ <<x>> \in Seq(T) /\ Len(<<x>>) = 1 /\ <<x>>[1] = x
      /\ <<y>> \in Seq(T) /\ Len(<<y>>) = 1 /\ <<y>>[1] = y
  BY <1>1
<1>3. PICK f : f = <<x>> \o <<y>>
  OBVIOUS
<1>4. f \in Seq(T) /\ Len(f) = 2
  BY <1>2, <1>3
<1>5. f[1] = x /\ f[2] = y
  BY <1>2, <1>3
<1>6. f \in [1 .. 2 -> T]
  <2>1. f \in [1 .. Len(f) -> T]
    BY <1>4, LenProperties
  <2>. QED
    BY <1>4, <2>1
<1>7. f = <<f[1], f[2]>>
  BY <1>6, TuplesAre
<1>. QED
  BY <1>3, <1>5, <1>7

\* The bytes of a field of n bytes that is v.
IsField(a, n, v) ==
  /\ a \in Seq(Byte) /\ n \in Nat /\ Len(a) = n
  /\ \A from \in Int : Begins(from, a) /\ from + n <= Len(trace) => LittleEndian(trace, from, n) = v

LEMMA NumberIsField ==
  ASSUME trace \in Seq(Byte), NEW n \in Nat, NEW v \in 0 .. Power(Base, n) - 1
  PROVE  IsField(Bytes(v, n), n, v)
<1>1. v \in Nat
  <2>1. \A m : v \in 0 .. m => v \in Nat
    OBVIOUS
  <2>. QED
    BY <2>1, Zenon
<1>2. Bytes(v, n) \in Seq(Byte) /\ Len(Bytes(v, n)) = n
  BY <1>1, BytesAre
<1>. QED
  BY <1>2, NumberField DEF IsField

LEMMA WordIsField ==
  ASSUME trace \in Seq(Byte), NEW v \in 0 .. Modulus - 1
  PROVE  IsField(Bytes(v, WordBytes), WordBytes, v)
<1>1. PICK n \in Nat : n = WordBytes
  BY LoopAssumption
<1>2. v \in 0 .. Power(Base, n) - 1
  BY <1>1 DEF Modulus
<1>3. IsField(Bytes(v, n), n, v)
  BY <1>2, NumberIsField
<1>. QED
  BY <1>1, <1>3

LEMMA ByteIsField ==
  ASSUME trace \in Seq(Byte), NEW x \in Byte
  PROVE  IsField(<<x>>, 1, x)
<1>1. <<x>> \in Seq(Byte) /\ Len(<<x>>) = 1 /\ 1 \in Nat
  OBVIOUS
<1>. QED
  BY <1>1, ByteField DEF IsField

\* A record of a kind, if all of it is there, has these fields.
Has(from, kind, record, fields) ==
  /\ Len(record) = RecordLength(kind)
  /\ from + RecordLength(kind) <= Len(trace) => Fields(from, kind) = fields

LEMMA TwoFields ==
  ASSUME trace \in Seq(Byte), NEW from \in Nat, NEW kind, NEW w, LaidOut(kind, w), Len(w) = 2,
         NEW a, NEW u, IsField(a, w[1], u), NEW b, NEW v, IsField(b, w[2], v), Begins(from, a \o b)
  PROVE  Has(from, kind, a \o b, <<u, v>>)
<1>1. PICK k \in Nat, m \in Nat : k = w[1] /\ m = w[2]
  BY DEF IsField
<1>2. a \in Seq(Byte) /\ Len(a) = k /\ b \in Seq(Byte) /\ Len(b) = m /\ from \in Int
  BY <1>1 DEF IsField
<1>3. Begins(from, a) /\ Begins(from + k, b) /\ Len(a \o b) = k + m
  <2>1. Begins(from, a) /\ Begins(from + Len(a), b)
    BY <1>2, BeginsSplit
  <2>2. Len(a \o b) = Len(a) + Len(b)
    BY SMTT(30), <1>2
  <2>. QED
    BY <1>2, <2>1, <2>2, Zenon
<1>4. RecordLength(kind) = k + m
  BY <1>1 DEF LaidOut
<1>5. ASSUME from + (k + m) <= Len(trace), NEW f, f = Fields(from, kind)
      PROVE  f = <<u, v>>
  <2>1. f \in [1 .. 2 -> Range(f)]
    BY <1>2, <1>5, Zenon DEF LaidOut
  <2>2. f[1] = LittleEndian(trace, from, k) /\ f[2] = LittleEndian(trace, from + k, m)
    <3>1. 2 >= 2
      OBVIOUS
    <3>. QED
      BY <1>1, <1>2, <1>5, <3>1, Zenon DEF LaidOut
  <2>3. PICK n \in Nat : n = Len(trace)
    OBVIOUS
  <2>4. from + k <= n /\ (from + k) + m <= n /\ from + k \in Int
    BY <1>5, <2>3
  <2>5. f[1] = u /\ f[2] = v
    BY <1>1, <1>2, <1>3, <2>2, <2>3, <2>4, Zenon DEF IsField
  <2>. QED
    BY <2>1, <2>5, TuplesAre
<1>. QED
  BY <1>3, <1>4, <1>5 DEF Has

LEMMA ThreeFields ==
  ASSUME trace \in Seq(Byte), NEW from \in Nat, NEW kind, NEW w, LaidOut(kind, w), Len(w) = 3,
         NEW a, NEW u, IsField(a, w[1], u), NEW b, NEW v, IsField(b, w[2], v),
         NEW c, NEW x, IsField(c, w[3], x), Begins(from, (a \o b) \o c)
  PROVE  Has(from, kind, (a \o b) \o c, <<u, v, x>>)
<1>1. PICK k \in Nat, l \in Nat, m \in Nat : k = w[1] /\ l = w[2] /\ m = w[3]
  BY DEF IsField
<1>2. /\ a \in Seq(Byte) /\ Len(a) = k /\ b \in Seq(Byte) /\ Len(b) = l /\ from \in Int
      /\ c \in Seq(Byte) /\ Len(c) = m
  BY <1>1 DEF IsField
<1>3. /\ Begins(from, a) /\ Begins(from + k, b) /\ Begins(from + (k + l), c)
      /\ Len((a \o b) \o c) = (k + l) + m
  <2>1. /\ Len((a \o b) \o c) = (Len(a) + Len(b)) + Len(c)
        /\ Begins(from, a) /\ Begins(from + Len(a), b) /\ Begins(from + (Len(a) + Len(b)), c)
    BY <1>2, BeginsThree
  <2>. QED
    BY <1>2, <2>1, Zenon
<1>4. RecordLength(kind) = (k + l) + m
  BY <1>1 DEF LaidOut
<1>5. ASSUME from + ((k + l) + m) <= Len(trace), NEW f, f = Fields(from, kind)
      PROVE  f = <<u, v, x>>
  <2>1. f \in [1 .. 3 -> Range(f)]
    BY <1>2, <1>5, Zenon DEF LaidOut
  <2>2. /\ f[1] = LittleEndian(trace, from, k) /\ f[2] = LittleEndian(trace, from + k, l)
        /\ f[3] = LittleEndian(trace, from + (k + l), m)
    <3>1. 3 >= 2 /\ 3 >= 3
      OBVIOUS
    <3>. QED
      BY <1>1, <1>2, <1>5, <3>1, Zenon DEF LaidOut
  <2>3. PICK n \in Nat : n = Len(trace)
    OBVIOUS
  <2>4. /\ from + k <= n /\ (from + k) + l <= n /\ (from + (k + l)) + m <= n
        /\ from + k \in Int /\ from + (k + l) \in Int
    BY <1>5, <2>3
  <2>5. f[1] = u /\ f[2] = v /\ f[3] = x
    BY <1>1, <1>2, <1>3, <2>2, <2>3, <2>4, Zenon DEF IsField
  <2>. QED
    BY <2>1, <2>5, TuplesAre
<1>. QED
  BY <1>3, <1>4, <1>5 DEF Has

LEMMA FourFields ==
  ASSUME trace \in Seq(Byte), NEW from \in Nat, NEW kind, NEW w, LaidOut(kind, w), Len(w) = 4,
         NEW a, NEW u, IsField(a, w[1], u), NEW b, NEW v, IsField(b, w[2], v),
         NEW c, NEW x, IsField(c, w[3], x), NEW d, NEW y, IsField(d, w[4], y),
         Begins(from, ((a \o b) \o c) \o d)
  PROVE  Has(from, kind, ((a \o b) \o c) \o d, <<u, v, x, y>>)
<1>1. PICK k \in Nat, l \in Nat, m \in Nat, o \in Nat :
        k = w[1] /\ l = w[2] /\ m = w[3] /\ o = w[4]
  BY DEF IsField
<1>2. /\ a \in Seq(Byte) /\ Len(a) = k /\ b \in Seq(Byte) /\ Len(b) = l /\ from \in Int
      /\ c \in Seq(Byte) /\ Len(c) = m /\ d \in Seq(Byte) /\ Len(d) = o
  BY <1>1 DEF IsField
<1>3. /\ Begins(from, a) /\ Begins(from + k, b) /\ Begins(from + (k + l), c)
      /\ Begins(from + ((k + l) + m), d)
      /\ Len(((a \o b) \o c) \o d) = ((k + l) + m) + o
  <2>1. /\ Len(((a \o b) \o c) \o d) = ((Len(a) + Len(b)) + Len(c)) + Len(d)
        /\ Begins(from, a) /\ Begins(from + Len(a), b) /\ Begins(from + (Len(a) + Len(b)), c)
        /\ Begins(from + ((Len(a) + Len(b)) + Len(c)), d)
    BY ZenonT(30), <1>2, BeginsFour
  <2>. QED
    BY <1>2, <2>1, Zenon
<1>4. RecordLength(kind) = ((k + l) + m) + o
  BY <1>1 DEF LaidOut
<1>5. ASSUME from + (((k + l) + m) + o) <= Len(trace), NEW f, f = Fields(from, kind)
      PROVE  f = <<u, v, x, y>>
  <2>1. f \in [1 .. 4 -> Range(f)]
    BY <1>2, <1>5, Zenon DEF LaidOut
  <2>2. /\ f[1] = LittleEndian(trace, from, k) /\ f[2] = LittleEndian(trace, from + k, l)
        /\ f[3] = LittleEndian(trace, from + (k + l), m)
        /\ f[4] = LittleEndian(trace, from + ((k + l) + m), o)
    <3>1. 4 >= 2 /\ 4 >= 3 /\ 4 >= 4
      OBVIOUS
    <3>. QED
      BY <1>1, <1>2, <1>5, <3>1, Zenon DEF LaidOut
  <2>3. PICK n \in Nat : n = Len(trace)
    OBVIOUS
  <2>4. /\ from + k <= n /\ (from + k) + l <= n /\ (from + (k + l)) + m <= n
        /\ (from + ((k + l) + m)) + o <= n
        /\ from + k \in Int /\ from + (k + l) \in Int /\ from + ((k + l) + m) \in Int
    BY <1>5, <2>3
  <2>5. f[1] = u /\ f[2] = v /\ f[3] = x /\ f[4] = y
    BY <1>1, <1>2, <1>3, <2>2, <2>3, <2>4, Zenon DEF IsField
  <2>. QED
    BY <2>1, <2>5, TuplesAre
<1>. QED
  BY <1>3, <1>4, <1>5 DEF Has

\* The fields of the record of an event.
FieldsOf(e) ==
  CASE e.name = "load"   -> <<e.cpu, e.addr, e.shift>>
    [] e.name = "store"  -> <<e.cpu, e.addr, e.shift + InfoStore, e.data>>
    [] e.name = "cr"     -> <<e.cpu, e.register, e.value>>
    [] e.name = "invlpg" -> <<e.addr, e.cpu>>
    [] e.name = "tb"     -> <<e.cpu, e.addr, e.size>>

LEMMA PayloadDecodes ==
  ASSUME trace \in Seq(Byte), NEW from \in Nat, NEW e \in Events, e.name \in Kinds \ {"gem"},
         Begins(from, Payload(e))
  PROVE  Has(from, e.name, Payload(e), FieldsOf(e))
<1>1. e.cpu \in Byte /\ e.addr \in 0 .. Modulus - 1
  BY EventsAre DEF EventIs
<1>2. PICK a : a = <<e.cpu>> /\ IsField(a, 1, e.cpu) /\ a \in Seq(Byte)
  BY <1>1, ByteIsField DEF IsField
<1>3. PICK b : b = Bytes(e.addr, WordBytes) /\ IsField(b, WordBytes, e.addr) /\ b \in Seq(Byte)
  BY <1>1, WordIsField DEF IsField
<1>4. CASE e.name = "load"
  <2>1. e.shift \in Byte
    <3>1. e.shift \in 0 .. InfoSizes - 1
      BY <1>4, EventsAre DEF EventIs
    <3>. QED
      BY <3>1, BaseIs, LoopAssumption DEF Byte
  <2>2. PICK c : c = <<e.shift>> /\ IsField(c, 1, e.shift) /\ c \in Seq(Byte)
    BY <2>1, ByteIsField DEF IsField
  <2>3. Payload(e) = (a \o b) \o c
    <3>1. Payload(e) = ((a \o b) \o <<e.shift + 0>>) \o <<>>
      BY <1>2, <1>3, <1>4 DEF Payload
    <3>2. e.shift + 0 = e.shift
      BY <2>1, BaseIs DEF Byte
    <3>3. a \o b \in Seq(Byte)
      BY <1>2, <1>3, Joined
    <3>4. (a \o b) \o c \in Seq(Byte)
      BY <2>2, <3>3, Joined
    <3>5. ((a \o b) \o c) \o <<>> = (a \o b) \o c
      BY <3>4
    <3>. QED
      BY <2>2, <3>1, <3>2, <3>5
  <2>4. PICK w : w = <<1, WordBytes, 1>> /\ LaidOut("load", w)
    BY WidthsAre, FieldPlaces DEF Kinds
  <2>5. Len(w) = 3 /\ w[1] = 1 /\ w[2] = WordBytes /\ w[3] = 1
    BY <2>4
  <2>6. Has(from, "load", (a \o b) \o c, <<e.cpu, e.addr, e.shift>>)
    BY <1>2, <1>3, <2>2, <2>3, <2>4, <2>5, ThreeFields
  <2>. QED
    BY <1>4, <2>3, <2>6 DEF FieldsOf
<1>5. CASE e.name = "store"
  <2>1. e.shift + InfoStore \in Byte /\ e.data \in 0 .. Modulus - 1
    <3>1. e.shift \in 0 .. InfoSizes - 1 /\ e.data \in 0 .. Modulus - 1
      BY <1>5, EventsAre DEF EventIs
    <3>. QED
      BY <3>1, BaseIs, LoopAssumption DEF Byte
  <2>2. PICK x : x = e.shift + InfoStore /\ x \in Byte
    BY <2>1
  <2>3. PICK c : c = <<x>> /\ IsField(c, 1, x) /\ c \in Seq(Byte)
    BY <2>2, ByteIsField DEF IsField
  <2>4. PICK d : d = Bytes(e.data, WordBytes) /\ IsField(d, WordBytes, e.data) /\ d \in Seq(Byte)
    BY <2>1, WordIsField DEF IsField
  <2>5. Payload(e) = ((a \o b) \o c) \o d
    BY <1>2, <1>3, <1>5, <2>2, <2>3, <2>4 DEF Payload
  <2>6. PICK w : w = <<1, WordBytes, 1, WordBytes>> /\ LaidOut("store", w)
    BY WidthsAre, FieldPlaces DEF Kinds
  <2>7. Len(w) = 4 /\ w[1] = 1 /\ w[2] = WordBytes /\ w[3] = 1 /\ w[4] = WordBytes
    BY <2>6
  <2>8. Has(from, "store", ((a \o b) \o c) \o d, <<e.cpu, e.addr, x, e.data>>)
    BY <1>2, <1>3, <2>3, <2>4, <2>5, <2>6, <2>7, FourFields
  <2>. QED
    BY <1>5, <2>2, <2>5, <2>8 DEF FieldsOf
<1>6. CASE e.name = "cr"
  <2>1. e.register \in Byte /\ e.value \in 0 .. Modulus - 1
    BY <1>6, EventsAre DEF EventIs
  <2>2. PICK c : c = <<e.register>> /\ IsField(c, 1, e.register) /\ c \in Seq(Byte)
    BY <2>1, ByteIsField DEF IsField
  <2>3. PICK d : d = Bytes(e.value, WordBytes) /\ IsField(d, WordBytes, e.value) /\ d \in Seq(Byte)
    BY <2>1, WordIsField DEF IsField
  <2>4. Payload(e) = (a \o c) \o d
    <3>1. Payload(e) = <<e.cpu, e.register>> \o d
      BY <1>6, <2>3 DEF Payload
    <3>2. <<e.cpu>> \o <<e.register>> = <<e.cpu, e.register>>
      BY TwoOfOne
    <3>. QED
      BY <1>2, <2>2, <3>1, <3>2
  <2>5. PICK w : w = <<1, 1, WordBytes>> /\ LaidOut("cr", w)
    BY WidthsAre, FieldPlaces DEF Kinds
  <2>6. Len(w) = 3 /\ w[1] = 1 /\ w[2] = 1 /\ w[3] = WordBytes
    BY <2>5
  <2>7. Has(from, "cr", (a \o c) \o d, <<e.cpu, e.register, e.value>>)
    BY <1>2, <2>2, <2>3, <2>4, <2>5, <2>6, ThreeFields
  <2>. QED
    BY <1>6, <2>4, <2>7 DEF FieldsOf
<1>7. CASE e.name = "invlpg"
  <2>1. Payload(e) = b \o a
    BY <1>2, <1>3, <1>7 DEF Payload
  <2>2. PICK w : w = <<WordBytes, 1>> /\ LaidOut("invlpg", w)
    BY WidthsAre, FieldPlaces DEF Kinds
  <2>3. Len(w) = 2 /\ w[1] = WordBytes /\ w[2] = 1
    BY <2>2
  <2>4. Has(from, "invlpg", b \o a, <<e.addr, e.cpu>>)
    BY <1>2, <1>3, <2>1, <2>2, <2>3, TwoFields
  <2>. QED
    BY <1>7, <2>1, <2>4 DEF FieldsOf
<1>8. CASE e.name = "tb"
  <2>1. e.size \in 0 .. Power(Base, 2) - 1
    <3>1. e.size \in 0 .. Base * Base - 1
      BY <1>8, EventsAre DEF EventIs
    <3>2. Power(Base, 0) = 1 /\ Power(Base, 0 + 1) = Base * Power(Base, 0)
      BY PowerStep, BaseAboveZero
    <3>3. Power(Base, 1 + 1) = Base * Power(Base, 1)
      BY PowerStep, BaseAboveZero
    <3>4. Power(Base, 2) = Base * Base
      BY <3>2, <3>3, BaseAboveZero
    <3>. QED
      BY <3>1, <3>4
  <2>2. PICK c : c = Bytes(e.size, 2) /\ IsField(c, 2, e.size) /\ c \in Seq(Byte)
    <3>1. IsField(Bytes(e.size, 2), 2, e.size)
      BY <2>1, NumberIsField
    <3>. QED
      BY <3>1 DEF IsField
  <2>3. Payload(e) = (a \o b) \o c
    BY <1>2, <1>3, <1>8, <2>2 DEF Payload
  <2>4. PICK w : w = <<1, WordBytes, 2>> /\ LaidOut("tb", w)
    BY WidthsAre, FieldPlaces DEF Kinds
  <2>5. Len(w) = 3 /\ w[1] = 1 /\ w[2] = WordBytes /\ w[3] = 2
    BY <2>4
  <2>6. Has(from, "tb", (a \o b) \o c, <<e.cpu, e.addr, e.size>>)
    BY <1>2, <1>3, <2>2, <2>3, <2>4, <2>5, ThreeFields
  <2>. QED
    BY <1>8, <2>3, <2>6 DEF FieldsOf
<1>. QED
  BY <1>4, <1>5, <1>6, <1>7, <1>8 DEF Kinds

\* The size and the bit of a store in the info byte.
LEMMA InfoDecodes ==
  ASSUME NEW k \in 0 .. InfoSizes - 1
  PROVE  /\ k % InfoSizes = k /\ (k \div InfoStore) % 2 = 0
         /\ (k + InfoStore) % InfoSizes = k /\ ((k + InfoStore) \div InfoStore) % 2 = 1
<1>1. PICK z \in Nat \ {0}, d \in Nat \ {0} : z = InfoSizes /\ d = InfoStore /\ z <= d
  <2>1. InfoSizes \in Nat \ {0} /\ InfoStore \in Nat \ {0} /\ InfoSizes <= InfoStore
    BY LoopAssumption
  <2>. QED
    BY <2>1
<1>2. k \in 0 .. z - 1 /\ k \in 0 .. d - 1
  BY <1>1
<1>3. k % z = k /\ k \div d = 0
  BY <1>2, SmallMod
<1>4. PICK m \in Nat : d = z * m
  <2>1. d = z * (d \div z) + (d % z) /\ d \div z \in Nat
    BY DivMod
  <2>2. d % z = 0
    BY <1>1, DecodingAssumption
  <2>3. PICK m \in Nat : m = d \div z
    BY <2>1
  <2>4. d = z * m + 0
    BY <2>1, <2>2, <2>3
  <2>5. PICK y \in Int : y = z * m
    OBVIOUS
  <2>6. d = y
    BY <2>4, <2>5
  <2>. QED
    BY <2>3, <2>5, <2>6
<1>5. PICK x \in Nat : x = k + d
  BY <1>2
<1>6. x % z = k
  <2>1. x = z * m + k
    BY <1>4, <1>5
  <2>2. m \in Int /\ x \in Int
    OBVIOUS
  <2>. QED
    BY <1>2, <2>1, <2>2, DivUnique
<1>7. x \div d = 1
  <2>1. x = d * 1 + k /\ 1 \in Int /\ x \in Int
    BY <1>5
  <2>. QED
    BY <1>2, <2>1, DivUnique
<1>8. 0 % 2 = 0 /\ 1 % 2 = 1
  OBVIOUS
<1>. QED
  BY <1>1, <1>3, <1>5, <1>6, <1>7, <1>8

\* What an event says is what is read from its fields.
WhatOf(kind, f) ==
  CASE kind \in {"load", "store"} ->
         <<f[2], Power(2, f[3] % InfoSizes), (f[3] \div InfoStore) % 2 = 1>> \o SubSeq(f, 4, Len(f))
    [] kind = "invlpg" -> <<f[1]>>
    [] OTHER           -> <<f[2], f[3]>>
WhatWas(e) ==
  CASE e.name = "load"   -> <<e.addr, Power(2, e.shift), FALSE>>
    [] e.name = "store"  -> <<e.addr, Power(2, e.shift), TRUE, e.data>>
    [] e.name = "cr"     -> <<e.register, e.value>>
    [] e.name = "tb"     -> <<e.addr, e.size>>
    [] e.name = "gem"    -> <<e.addr, e.type>>
    [] OTHER             -> <<e.addr>>

LEMMA FourParts ==
  ASSUME NEW a, NEW b, NEW c, NEW d
  PROVE  <<a, b, c>> \o <<d>> = <<a, b, c, d>> /\ <<a, b, c>> \o <<>> = <<a, b, c>>
<1>1. PICK T : T = {a, b, c, d}
  OBVIOUS
<1>2. /\ <<a, b, c>> \in Seq(T) /\ Len(<<a, b, c>>) = 3
      /\ <<d>> \in Seq(T) /\ Len(<<d>>) = 1 /\ <<d>>[1] = d
  BY <1>1
<1>3. PICK f : f = <<a, b, c>> \o <<d>>
  OBVIOUS
<1>4. f \in Seq(T) /\ Len(f) = 4
  BY <1>2, <1>3
<1>5. f[1] = a /\ f[2] = b /\ f[3] = c /\ f[4] = d
  BY <1>2, <1>3
<1>6. f \in [1 .. 4 -> T]
  <2>1. f \in [1 .. Len(f) -> T]
    BY <1>4, LenProperties
  <2>. QED
    BY <1>4, <2>1
<1>7. f = <<f[1], f[2], f[3], f[4]>>
  BY <1>6, TuplesAre
<1>8. <<a, b, c>> \o <<>> = <<a, b, c>>
  BY <1>2
<1>. QED
  BY <1>3, <1>5, <1>7, <1>8

LEMMA RestOf ==
  ASSUME NEW a, NEW b, NEW c, NEW d
  PROVE  /\ SubSeq(<<a, b, c>>, 4, Len(<<a, b, c>>)) = <<>>
         /\ SubSeq(<<a, b, c, d>>, 4, Len(<<a, b, c, d>>)) = <<d>>
<1>1. Len(<<a, b, c>>) = 3 /\ Len(<<a, b, c, d>>) = 4
  OBVIOUS
<1>2. SubSeq(<<a, b, c>>, 4, 3) = <<>>
  OBVIOUS
<1>3. SubSeq(<<a, b, c, d>>, 4, 4) = <<d>>
  <2>1. PICK T : T = {a, b, c, d}
    OBVIOUS
  <2>2. PICK s : s = <<a, b, c, d>>
    OBVIOUS
  <2>3. s \in Seq(T) /\ Len(s) = 4 /\ s[4] = d
    BY <2>1, <2>2
  <2>4. PICK f : f = SubSeq(s, 4, 4)
    OBVIOUS
  <2>5. f \in Seq(T) /\ Len(f) = 1 /\ f[1] = d
    <3>1. 4 \in Nat \ {0} /\ 4 \in Int /\ 4 <= Len(s)
      BY <2>3
    <3>2. f \in Seq(T)
      BY <2>3, <2>4, <3>1, PartOf, Zenon
    <3>3. Len(f) = 1
      BY <2>3, <2>4
    <3>4. f[1] = s[4]
      BY <2>3, <2>4
    <3>. QED
      BY <2>3, <3>2, <3>3, <3>4
  <2>6. f \in [1 .. 1 -> T]
    <3>1. f \in [1 .. Len(f) -> T]
      BY <2>5, LenProperties
    <3>. QED
      BY <2>5, <3>1
  <2>7. f = <<d>>
    <3>1. DOMAIN f = 1 .. 1 /\ f = [i \in 1 .. 1 |-> f[i]]
      BY <2>6
    <3>2. DOMAIN <<d>> = 1 .. 1 /\ <<d>>[1] = d
      OBVIOUS
    <3>3. <<d>> \in Seq({d}) /\ Len(<<d>>) = 1
      OBVIOUS
    <3>4. f \in Seq(T) /\ <<d>> \in Seq(T)
      BY <2>1, <2>5
    <3>5. \A i \in 1 .. 1 : f[i] = <<d>>[i]
      BY <2>5
    <3>. QED
      BY <2>5, <3>3, <3>4, <3>5, SeqEqual
  <2>. QED
    BY <2>2, <2>4, <2>7
<1>. QED
  BY <1>1, <1>2, <1>3

LEMMA WhatDecodes ==
  ASSUME NEW e \in Events, e.name \in Kinds \ {"gem"}
  PROVE  WhatOf(e.name, FieldsOf(e)) = WhatWas(e)
<1>1. CASE e.name = "load"
  <2>1. PICK k \in 0 .. InfoSizes - 1 : k = e.shift
    BY <1>1, EventsAre DEF EventIs
  <2>2. PICK f : f = <<e.cpu, e.addr, k>> /\ f = FieldsOf(e)
    BY <1>1, <2>1 DEF FieldsOf
  <2>3. f[2] = e.addr /\ f[3] = k
    BY <2>2
  <2>4. SubSeq(f, 4, Len(f)) = <<>>
    BY <2>2, RestOf
  <2>5. PICK bit \in BOOLEAN : bit = ((k \div InfoStore) % 2 = 1)
    OBVIOUS
  <2>6. bit = FALSE
    <3>1. 0 # 1
      OBVIOUS
    <3>. QED
      BY <2>5, <3>1, InfoDecodes
  <2>7. WhatOf("load", f) = <<e.addr, Power(2, k), bit>> \o <<>>
    <3>1. WhatOf("load", f) = <<f[2], Power(2, f[3] % InfoSizes), (f[3] \div InfoStore) % 2 = 1>> \o SubSeq(f, 4, Len(f))
      BY DEF WhatOf
    <3>2. k % InfoSizes = k
      BY InfoDecodes
    <3>. QED
      BY <2>3, <2>4, <2>5, <3>1, <3>2, Zenon
  <2>8. WhatWas(e) = <<e.addr, Power(2, k), FALSE>>
    BY <1>1, <2>1 DEF WhatWas
  <2>9. <<e.addr, Power(2, k), bit>> \o <<>> = <<e.addr, Power(2, k), bit>>
    BY FourParts
  <2>. QED
    BY <1>1, <2>2, <2>6, <2>7, <2>8, <2>9, Zenon
<1>2. CASE e.name = "store"
  <2>1. PICK k \in 0 .. InfoSizes - 1 : k = e.shift
    BY <1>2, EventsAre DEF EventIs
  <2>2. PICK f : f = <<e.cpu, e.addr, k + InfoStore, e.data>> /\ f = FieldsOf(e)
    BY <1>2, <2>1 DEF FieldsOf
  <2>3. f[2] = e.addr /\ f[3] = k + InfoStore
    BY <2>2
  <2>4. SubSeq(f, 4, Len(f)) = <<e.data>>
    BY <2>2, RestOf
  <2>5. PICK bit \in BOOLEAN : bit = (((k + InfoStore) \div InfoStore) % 2 = 1)
    OBVIOUS
  <2>6. bit = TRUE
    BY <2>5, InfoDecodes
  <2>7. WhatOf("store", f) = <<e.addr, Power(2, k), bit>> \o <<e.data>>
    <3>1. WhatOf("store", f) = <<f[2], Power(2, f[3] % InfoSizes), (f[3] \div InfoStore) % 2 = 1>> \o SubSeq(f, 4, Len(f))
      BY DEF WhatOf
    <3>2. (k + InfoStore) % InfoSizes = k
      BY InfoDecodes
    <3>. QED
      BY <2>3, <2>4, <2>5, <3>1, <3>2, Zenon
  <2>8. WhatWas(e) = <<e.addr, Power(2, k), TRUE, e.data>>
    BY <1>2, <2>1 DEF WhatWas
  <2>9. <<e.addr, Power(2, k), bit>> \o <<e.data>> = <<e.addr, Power(2, k), bit, e.data>>
    BY FourParts
  <2>. QED
    BY <1>2, <2>2, <2>6, <2>7, <2>8, <2>9, Zenon
<1>3. CASE e.name = "cr"
  <2>1. FieldsOf(e) = <<e.cpu, e.register, e.value>>
    BY <1>3 DEF FieldsOf
  <2>. QED
    BY <1>3, <2>1 DEF WhatOf, WhatWas
<1>4. CASE e.name = "invlpg"
  <2>1. FieldsOf(e) = <<e.addr, e.cpu>>
    BY <1>4 DEF FieldsOf
  <2>. QED
    BY <1>4, <2>1 DEF WhatOf, WhatWas
<1>5. CASE e.name = "tb"
  <2>1. FieldsOf(e) = <<e.cpu, e.addr, e.size>>
    BY <1>5 DEF FieldsOf
  <2>. QED
    BY <1>5, <2>1 DEF WhatOf, WhatWas
<1>. QED
  BY <1>1, <1>2, <1>3, <1>4, <1>5 DEF Kinds

\* The event at the head of the trace is heard as it was meant.
LEMMA EventDecodes ==
  ASSUME trace \in Seq(Byte), files \in Inputs, loop # "gem", mapping = Content.mapping,
         time \in Int, NEW e \in Events, Begins(0, Encoded(e)), HeaderThere, NEW kind \in Kind
  PROVE  /\ kind = e.name /\ Len(Encoded(e)) = HeaderLength + RecordLength(kind)
         /\ RecordThere(kind) => Heard(kind) = Meaning(time, e)
<1>1. trace # <<>>
  BY DEF HeaderThere
<1>2. /\ HeaderLength \in Nat /\ Len(Encoded(e)) = HeaderLength + Len(Payload(e))
      /\ Begins(HeaderLength, Payload(e))
      /\ Kind \subseteq {e.name} /\ NewTime = Meaning(time, e).time
  BY <1>1, EventHeader
<1>3. kind = e.name /\ kind \in Kinds \ {"gem"}
  BY <1>2, KindIs
<1>4. PICK from \in Nat : from = HeaderLength
  BY <1>2
<1>5. Has(from, e.name, Payload(e), FieldsOf(e))
  BY <1>2, <1>3, <1>4, PayloadDecodes
<1>6. ASSUME RecordThere(kind)
      PROVE  Heard(kind) = Meaning(time, e)
  <2>1. PICK f : f = Fields(HeaderLength, kind) /\ f = FieldsOf(e)
    BY <1>3, <1>4, <1>5, <1>6 DEF RecordThere, Has
  <2>2. PICK cpu : cpu = IF kind = "invlpg" THEN f[2] ELSE f[1]
    OBVIOUS
  <2>3. cpu = e.cpu
    BY <1>3, <2>1, <2>2 DEF FieldsOf, Kinds
  <2>4. Heard(kind) = [name |-> kind, time |-> NewTime, cpu |-> cpu, what |-> WhatOf(kind, f)]
    BY <2>1, <2>2 DEF Heard, WhatOf
  <2>5. PICK t : t = Meaning(time, e).time
    OBVIOUS
  <2>6. Meaning(time, e) = [name |-> e.name, cpu |-> e.cpu, time |-> t, what |-> WhatWas(e)]
    BY <2>5 DEF Meaning, WhatWas
  <2>7. WhatOf(kind, f) = WhatWas(e)
    BY <1>3, <2>1, WhatDecodes
  <2>. QED
    BY <1>2, <1>3, <2>3, <2>4, <2>5, <2>6, <2>7
<1>. QED
  BY <1>2, <1>3, <1>5, <1>6 DEF Has

\* The type in the fields of a record of gem5.
TypeOf(f) == IF f[3] = 2 THEN "fetch" ELSE IF f[3] = 0 THEN "read" ELSE "write"

\* The same for a record of gem5.
LEMMA GemDecodes ==
  ASSUME trace \in Seq(Byte), loop = "gem", NEW e \in GemEvents, Begins(0, Encoded(e))
  PROVE  /\ Len(Encoded(e)) = RecordLength("gem")
         /\ Len(trace) >= RecordLength("gem") =>
              \A f : f = Fields(0, "gem") =>
                /\ f[1] = e.tick
                /\ [name |-> "gem", time |-> f[1], cpu |-> f[4], what |-> <<f[2], TypeOf(f)>>]
                     = Meaning(time, e)
<1>1. /\ e.name = "gem" /\ e.tick \in 0 .. Modulus - 1 /\ e.addr \in 0 .. Modulus - 1
      /\ e.type \in {"read", "write", "fetch"} /\ e.cpu \in Byte
  BY EventsAssumption DEF Byte
<1>2. PICK x \in Byte : x = GemType[e.type] /\ x \in {0, 1, 2}
  <2>1. GemType["read"] = 0 /\ GemType["write"] = 1 /\ GemType["fetch"] = 2
    BY DEF GemType
  <2>2. 0 \in Byte /\ 1 \in Byte /\ 2 \in Byte
    BY BaseIs, LoopAssumption DEF Byte
  <2>. QED
    BY <1>1, <2>1, <2>2
<1>3. PICK a : a = Bytes(e.tick, WordBytes) /\ IsField(a, WordBytes, e.tick)
  BY <1>1, WordIsField
<1>4. PICK b : b = Bytes(e.addr, WordBytes) /\ IsField(b, WordBytes, e.addr)
  BY <1>1, WordIsField
<1>5. PICK c : c = <<x>> /\ IsField(c, 1, x)
  BY ByteIsField
<1>6. PICK d : d = <<e.cpu>> /\ IsField(d, 1, e.cpu)
  BY <1>1, ByteIsField
<1>7. Encoded(e) = ((a \o b) \o c) \o d
  <2>1. Encoded(e) = (a \o b) \o <<x, e.cpu>>
    BY <1>2, <1>3, <1>4 DEF Encoded
  <2>2. <<x, e.cpu>> = c \o d
    BY <1>5, <1>6, TwoOfOne
  <2>3. (a \o b) \o (c \o d) = ((a \o b) \o c) \o d
    <3>1. a \in Seq(Byte) /\ b \in Seq(Byte) /\ c \in Seq(Byte) /\ d \in Seq(Byte)
      BY <1>3, <1>4, <1>5, <1>6 DEF IsField
    <3>2. a \o b \in Seq(Byte)
      BY <3>1, Joined
    <3>3. PICK h \in Seq(Byte) : h = a \o b
      BY <3>2, Zenon
    <3>4. (h \o c) \o d = h \o (c \o d)
      BY SMTT(30), <3>1, <3>3, ConcatAssociative
    <3>. QED
      BY <3>3, <3>4, Zenon
  <2>. QED
    BY <2>1, <2>2, <2>3
<1>8. PICK w : w = <<WordBytes, WordBytes, 1, 1>> /\ LaidOut("gem", w)
  BY WidthsAre, FieldPlaces DEF Kinds
<1>9. Len(w) = 4 /\ w[1] = WordBytes /\ w[2] = WordBytes /\ w[3] = 1 /\ w[4] = 1
  BY <1>8
<1>10. Has(0, "gem", ((a \o b) \o c) \o d, <<e.tick, e.addr, x, e.cpu>>)
  <2>1. PICK from \in Nat : from = 0
    OBVIOUS
  <2>2. Has(from, "gem", ((a \o b) \o c) \o d, <<e.tick, e.addr, x, e.cpu>>)
    BY <1>3, <1>4, <1>5, <1>6, <1>7, <1>8, <1>9, <2>1, FourFields
  <2>. QED
    BY <2>1, <2>2
<1>11. Len(Encoded(e)) = RecordLength("gem")
  BY <1>7, <1>10 DEF Has
<1>12. ASSUME Len(trace) >= RecordLength("gem"), NEW f, f = Fields(0, "gem")
       PROVE  /\ f[1] = e.tick
              /\ [name |-> "gem", time |-> f[1], cpu |-> f[4], what |-> <<f[2], TypeOf(f)>>]
                   = Meaning(time, e)
  <2>1. RecordLength("gem") \in Nat /\ 0 + RecordLength("gem") <= Len(trace)
    <3>1. Encoded(e) \in Seq(Byte) 
      BY <1>7, <1>3, <1>4, <1>5, <1>6, Joined DEF IsField
    <3>2. RecordLength("gem") \in Nat
      BY <1>11, <3>1
    <3>. QED
      BY <1>12, <3>2
  <2>2. f = <<e.tick, e.addr, x, e.cpu>>
    BY <1>10, <1>12, <2>1 DEF Has
  <2>3. f[1] = e.tick /\ f[2] = e.addr /\ f[3] = x /\ f[4] = e.cpu
    BY <2>2
  <2>4. TypeOf(f) = e.type
    BY <1>1, <1>2, <2>3 DEF TypeOf, GemType
  <2>5. Meaning(time, e) = [name |-> "gem", cpu |-> e.cpu, time |-> e.tick, what |-> <<e.addr, e.type>>]
    BY <1>1 DEF Meaning
  <2>. QED
    BY <2>3, <2>4, <2>5
<1>. QED
  BY <1>11, <1>12
================================================================================
