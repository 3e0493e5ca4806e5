-------------------------- MODULE MemoryReplicaProofs --------------------------
(***************************************************************************)
(* The copy of the guest's memory is right where it is read: the addresses *)
(* of every guest that keeps its page tables out of user pages, and its    *)
(* large pages without software bits, are translated as its own memory     *)
(* management unit translates them.  All four theorems leave out traces of *)
(* the coordinator in which paging is disabled: StoreReachesMemory fails   *)
(* in those.                                                               *)
(***************************************************************************)
EXTENDS MemoryReplica, TLAPS

\* Paging is never disabled in the trace of the coordinator.
AlwaysPaged == RealMode \subseteq {"simple"}

Memory == [RAM -> Page]

\* What TablesAgree rests on, besides itself.
IInv == TypeOK /\ TablesAgree /\ cr = registers /\ Disciplined(mem) /\ ForwardsGuestAccess

--------------------------------------------------------------------------------

LEMMA Constants ==
  /\ Fan \in Nat /\ 0 \in Index /\ Index \subseteq Int
  /\ Roots \subseteq KernelFrames /\ KernelFrames \subseteq RAM
  /\ \A v \in Virtual : /\ v[1] \in Index /\ v[2] \in Index
                        /\ v[3] \in Index /\ v[4] \in Index
  /\ Backing \in Memory /\ Frames \in Nat
BY ReplicaAssumption DEF Index, Memory

LEMMA NoEntryIsEntry == NoEntry \in Entry
BY ReplicaAssumption DEF NoEntry, Entry

LEMMA WordIsEntry ==
  ASSUME NEW m \in Memory, NEW f, NEW i \in Index
  PROVE  Word(m, f, i) \in Entry
BY NoEntryIsEntry DEF Word, Memory, Page

LEMMA PageIsLoaded == \A p \in Page : p # Unloaded
<1> SUFFICES ASSUME NEW p \in Page PROVE p # Unloaded
  OBVIOUS
<1>1. DOMAIN p = Index /\ DOMAIN Unloaded = {}
  BY DEF Page, Unloaded
<1> QED
  BY <1>1, Constants

--------------------------------------------------------------------------------
(* The pages loaded from the dump. *)

Copies == [RAM -> Page \cup {Unloaded}]

LEMMA ViewTyped ==
  ASSUME NEW r \in Copies
  PROVE  /\ View(r) \in Memory
         /\ \A f \in RAM : r[f] # Unloaded => View(r)[f] = r[f]
BY Constants DEF View, Copies, Memory

\* Loading pages changes nothing that is read.
LEMMA LoadKeepsView ==
  ASSUME NEW r \in Copies, NEW S
  PROVE  Load(r, S) \in Copies /\ View(Load(r, S)) = View(r)
<1>1. View(r) \in Memory
  BY ViewTyped
<1>2. Load(r, S) \in Copies
  BY <1>1 DEF Load, Copies, Memory
<1>3. ASSUME NEW f \in RAM PROVE View(Load(r, S))[f] = View(r)[f]
  <2>1. CASE f \in S
    <3>1. Load(r, S)[f] = View(r)[f] /\ View(r)[f] \in Page
      BY <1>1, <2>1 DEF Load, Memory
    <3> QED
      BY <3>1, PageIsLoaded DEF View
  <2>2. CASE f \notin S
    BY <2>2 DEF Load, View
  <2> QED
    BY <2>1, <2>2
<1> QED
  BY <1>2, <1>3 DEF View

\* write_sim_memory changes one word of RAM, in a page that need not be loaded.
LEMMA WriteChangesWord ==
  ASSUME NEW r \in Copies, NEW f, NEW i \in Index, NEW value \in Entry
  PROVE  /\ Write(r, f, i, value) \in Copies
         /\ View(Write(r, f, i, value)) =
              IF f \in RAM THEN [View(r) EXCEPT ![f][i] = value] ELSE View(r)
<1>1. CASE f \notin RAM
  BY <1>1 DEF Write
<1>2. CASE f \in RAM
  <2> DEFINE l == Load(r, {f})
             w == Write(r, f, i, value)
  <2>1. l \in Copies /\ View(l) = View(r) /\ View(r) \in Memory
    BY LoadKeepsView, ViewTyped
  <2>2. l[f] = View(r)[f] /\ l[f] \in Page
    BY <1>2, <2>1 DEF Load, Memory
  <2>3. w = [l EXCEPT ![f] = [l[f] EXCEPT ![i] = value]]
    BY <1>2 DEF Write
  <2>4. [l[f] EXCEPT ![i] = value] \in Page
    BY <2>2 DEF Page
  <2> HIDE DEF l, w
  <2>5. /\ w \in Copies /\ w[f] = [l[f] EXCEPT ![i] = value]
        /\ \A g \in RAM : g # f => w[g] = l[g]
    BY <1>2, <2>1, <2>3, <2>4 DEF Copies
  <2>6. ASSUME NEW g \in RAM
        PROVE  View(w)[g] = [View(r) EXCEPT ![f][i] = value][g]
    <3>1. CASE g = f
      <4>1. View(w)[g] = [l[f] EXCEPT ![i] = value]
        BY <2>4, <2>5, <3>1, PageIsLoaded DEF View
      <4> QED
        BY <1>2, <2>1, <2>2, <3>1, <4>1 DEF Memory
    <3>2. CASE g # f
      <4>1. View(w)[g] = View(l)[g]
        BY <2>5, <3>2 DEF View
      <4> QED
        BY <1>2, <2>1, <3>2, <4>1 DEF Memory
    <3> QED
      BY <3>1, <3>2
  <2>7. View(w) \in Memory
    BY <2>5, ViewTyped
  <2> QED
    BY <1>2, <2>1, <2>5, <2>6, <2>7 DEF Memory, w
<1> QED
  BY <1>1, <1>2

--------------------------------------------------------------------------------
(* The translation. *)

\* A path is mapped if its entries are present down to its leaf.
LEMMA PathCases ==
  ASSUME NEW e
  PROVE  /\ Mapped(e) <=> /\ e[1].present /\ e[2].present
                          /\ e[2].large \/ /\ e[3].present
                                           /\ e[3].large \/ e[4].present
         /\ UserMode(e) <=> /\ e[1].user /\ e[2].user
                            /\ e[2].large \/ /\ e[3].user
                                             /\ e[3].large \/ e[4].user
<1>1. CASE e[2].large
  <2>1. 1 .. Leaf(e) = {1, 2}
    BY <1>1 DEF Leaf
  <2> QED
    BY <1>1, <2>1 DEF Mapped, UserMode
<1>2. CASE ~e[2].large /\ e[3].large
  <2>1. 1 .. Leaf(e) = {1, 2, 3}
    BY <1>2 DEF Leaf
  <2> QED
    BY <1>2, <2>1 DEF Mapped, UserMode
<1>3. CASE ~e[2].large /\ ~e[3].large
  <2>1. 1 .. Leaf(e) = {1, 2, 3, 4}
    BY <1>3 DEF Leaf
  <2> QED
    BY <1>3, <2>1 DEF Mapped, UserMode
<1> QED
  BY <1>1, <1>2, <1>3

\* vaddr_to_phys on a copy that agrees with the guest's memory on its kernel frames
\* is the guest's translation.
LEMMA WalkIsGuests ==
  ASSUME NEW m \in Memory, NEW r \in Memory, Disciplined(m),
         \A f \in KernelFrames : r[f] = m[f],
         NEW root \in Roots, NEW v \in Virtual
  PROVE  LET t == VaddrToPhys(r, root, v)
             e == Entries(m, root, v)
         IN  /\ t.ok <=> Mapped(e)
             /\ t.ok => /\ t.frame = Target(e, v) /\ (t.user <=> UserMode(e))
                        /\ t.disable = e[Leaf(e)].disable
             /\ t.frame \in Int /\ t.user \in BOOLEAN
<1> DEFINE e == Entries(m, root, v)
           l2 == Word(r, root, v[1])
           l3 == Word(r, l2.frame, v[2])
           l4 == Word(r, l3.frame, v[3])
           phys == Word(r, l4.frame, v[4])
<1>1. \A f \in KernelFrames, i \in Index : Word(r, f, i) = Word(m, f, i)
  BY Constants DEF Word
<1>2. /\ e[1] = Word(m, root, v[1]) /\ e[2] = Word(m, e[1].frame, v[2])
      /\ e[3] = Word(m, e[2].frame, v[3]) /\ e[4] = Word(m, e[3].frame, v[4])
  BY DEF Entries
<1>3. e[1] \in Entry /\ e[2] \in Entry /\ e[3] \in Entry /\ e[4] \in Entry
  BY ZenonT(30), <1>2, WordIsEntry, Constants
<1>4. l2 \in Entry /\ l3 \in Entry /\ l4 \in Entry /\ phys \in Entry
  BY WordIsEntry, Constants
<1>5. /\ ~e[1].large
      /\ \A l \in 1 .. 3 :
           (l < Leaf(e) /\ \A k \in 1 .. l : e[k].present) => e[l].frame \in KernelFrames
  BY DEF Disciplined
<1>19. /\ Mapped(e) /\ Leaf(e) # 4 => e[Leaf(e)].high = 0
       /\ e[2].frame \in Nat /\ e[3].frame \in Nat /\ Frames \in Nat
  BY <1>3, Constants DEF Disciplined, Entry
<1> HIDE DEF e, l2, l3, l4, phys
<1>6. l2 = e[1]
  BY <1>1, <1>2, Constants DEF l2
<1>7. e[1].present => l3 = e[2]
  <2>1. 1 < Leaf(e) /\ 1 \in 1 .. 3 /\ \A k \in 1 .. 1 : k = 1
    BY DEF Leaf
  <2>2. e[1].present => e[1].frame \in KernelFrames
    BY <1>5, <2>1
  <2>3. v[2] \in Index
    BY Constants
  <2> QED
    BY <1>1, <1>2, <1>6, <2>2, <2>3 DEF l3
<1>8. e[1].present /\ e[2].present /\ ~e[2].large => l4 = e[3]
  <2> SUFFICES ASSUME e[1].present, e[2].present, ~e[2].large PROVE l4 = e[3]
    OBVIOUS
  <2>1. 2 < Leaf(e) /\ \A k \in 1 .. 2 : k = 1 \/ k = 2
    BY DEF Leaf
  <2>2. e[2].frame \in KernelFrames
    BY <1>5, <2>1
  <2> QED
    BY <1>1, <1>2, <1>7, <2>2, Constants DEF l4
<1>9. e[1].present /\ e[2].present /\ ~e[2].large /\ e[3].present /\ ~e[3].large
        => phys = e[4]
  <2> SUFFICES ASSUME e[1].present, e[2].present, ~e[2].large, e[3].present, ~e[3].large
               PROVE  phys = e[4]
    OBVIOUS
  <2>1. 3 < Leaf(e) /\ \A k \in 1 .. 3 : k = 1 \/ k = 2 \/ k = 3
    BY DEF Leaf
  <2>2. e[3].frame \in KernelFrames
    BY <1>5, <2>1
  <2> QED
    BY <1>1, <1>2, <1>8, <2>2, Constants DEF phys
<1>10. /\ e[1].present \in BOOLEAN /\ e[2].present \in BOOLEAN /\ e[3].present \in BOOLEAN
       /\ \A f \in Nat : \A n \in {Fan, Fan * Fan} : Base(f, n) \in Int
  <2>1. Fan * Fan \in Nat \ {0} /\ Fan \in Nat \ {0}
    BY ReplicaAssumption
  <2>2. \A f \in Nat : \A n \in Nat \ {0} : f - (f % n) \in Int
    OBVIOUS
  <2> QED
    BY <1>3, <2>1, <2>2 DEF Base, Entry
<1>11. /\ Fan \in Int /\ v[3] \in Int /\ v[4] \in Int /\ v[3] * Fan + v[4] \in Int
  <2>1. v[3] \in Index /\ v[4] \in Index
    BY Constants
  <2>2. Fan \in Int /\ v[3] \in Int /\ v[4] \in Int
    BY <2>1, ReplicaAssumption DEF Index
  <2> QED
    BY <2>2
<1> DEFINE t == VaddrToPhys(r, root, v)
<1>12. CASE ~e[1].present
  <2>1. t = NotFound({root})
    BY <1>6, <1>12 DEF VaddrToPhys, Masked, l2
  <2> QED
    BY <1>12, <2>1, PathCases DEF NotFound, e
<1>13. CASE e[1].present /\ ~e[2].present
  <2>1. t = NotFound({root, l2.frame})
    BY <1>5, <1>6, <1>7, <1>13 DEF VaddrToPhys, Masked, l2, l3
  <2> QED
    BY <1>13, <2>1, PathCases DEF NotFound, e
<1>14. CASE e[1].present /\ e[2].present /\ e[2].large
  <2>1. t = Found(Base(Unmasked(l3), Fan * Fan) + (v[3] * Fan + v[4]), l2.user /\ l3.user,
                  l3.disable, {root, l2.frame})
    BY <1>5, <1>6, <1>7, <1>14 DEF VaddrToPhys, Masked, l2, l3
  <2>2. /\ Mapped(e) /\ Leaf(e) = 2 /\ (UserMode(e) <=> e[1].user /\ e[2].user)
        /\ Target(e, v) = Base(e[2].frame, Fan * Fan) + (v[3] * Fan + v[4])
    BY <1>14, PathCases DEF Leaf, Target
  <2>3. Base(e[2].frame, Fan * Fan) + (v[3] * Fan + v[4]) \in Int
    BY <1>3, <1>10, <1>11 DEF Entry
  <2>5. Unmasked(l3) = e[2].frame
    BY <1>7, <1>14, <1>19, <2>2 DEF Unmasked
  <2>4. /\ t.ok /\ t.frame = Target(e, v) /\ t.disable = e[2].disable
        /\ t.user = (l2.user /\ l3.user)
    BY <1>6, <1>7, <1>14, <2>1, <2>2, <2>5 DEF Found
  <2> HIDE DEF t
  <2> QED
    BY <1>6, <1>7, <1>14, <2>2, <2>3, <2>4 DEF e, t
<1>15. CASE e[1].present /\ e[2].present /\ ~e[2].large /\ ~e[3].present
  <2>1. t = NotFound({root, l2.frame} \cup {l3.frame})
    BY <1>5, <1>6, <1>7, <1>8, <1>15 DEF VaddrToPhys, Masked, l2, l3, l4
  <2> QED
    BY <1>15, <2>1, PathCases DEF NotFound, e
<1>16. CASE e[1].present /\ e[2].present /\ ~e[2].large /\ e[3].present /\ e[3].large
  <2>1. t = Found(Base(Unmasked(l4), Fan) + v[4], (l2.user /\ l3.user) /\ l4.user,
                  l4.disable, {root, l2.frame} \cup {l3.frame})
    BY <1>5, <1>6, <1>7, <1>8, <1>16 DEF VaddrToPhys, Masked, l2, l3, l4
  <2>2. /\ Mapped(e) /\ Leaf(e) = 3
        /\ UserMode(e) <=> e[1].user /\ e[2].user /\ e[3].user
        /\ Target(e, v) = Base(e[3].frame, Fan) + v[4]
    BY <1>16, PathCases DEF Leaf, Target
  <2>3. Base(e[3].frame, Fan) + v[4] \in Int
    BY <1>3, <1>10, <1>11 DEF Entry
  <2>5. Unmasked(l4) = e[3].frame
    BY <1>8, <1>16, <1>19, <2>2 DEF Unmasked
  <2>4. /\ t.ok /\ t.frame = Target(e, v) /\ t.disable = e[3].disable
        /\ t.user = ((l2.user /\ l3.user) /\ l4.user)
    BY <1>8, <1>16, <2>1, <2>2, <2>5 DEF Found
  <2> HIDE DEF t
  <2> QED
    BY <1>6, <1>7, <1>8, <1>16, <2>2, <2>3, <2>4 DEF e, t
<1>17. CASE /\ e[1].present /\ e[2].present /\ ~e[2].large /\ e[3].present /\ ~e[3].large
            /\ ~e[4].present
  <2>1. t = NotFound(({root, l2.frame} \cup {l3.frame}) \cup {l4.frame})
    BY <1>5, <1>6, <1>7, <1>8, <1>9, <1>17 DEF VaddrToPhys, Masked, l2, l3, l4, phys
  <2> QED
    BY <1>17, <2>1, PathCases DEF NotFound, e
<1>18. CASE /\ e[1].present /\ e[2].present /\ ~e[2].large /\ e[3].present /\ ~e[3].large
            /\ e[4].present
  <2>1. t = Found(phys.frame, ((l2.user /\ l3.user) /\ l4.user) /\ phys.user,
                  phys.disable, ({root, l2.frame} \cup {l3.frame}) \cup {l4.frame})
    BY <1>5, <1>6, <1>7, <1>8, <1>9, <1>18 DEF VaddrToPhys, Masked, l2, l3, l4, phys
  <2>2. /\ Mapped(e) /\ Leaf(e) = 4 /\ Target(e, v) = e[4].frame
        /\ UserMode(e) <=> e[1].user /\ e[2].user /\ e[3].user /\ e[4].user
    BY <1>18, PathCases DEF Leaf, Target
  <2>3. e[4].frame \in Int
    BY <1>3 DEF Entry
  <2>4. /\ t.ok /\ t.frame = Target(e, v) /\ t.disable = e[4].disable
        /\ t.user = (((l2.user /\ l3.user) /\ l4.user) /\ phys.user)
    BY <1>9, <1>18, <2>1, <2>2 DEF Found
  <2> HIDE DEF t
  <2> QED
    BY <1>6, <1>7, <1>8, <1>9, <1>18, <2>2, <2>3, <2>4 DEF e, t
<1> QED
  BY <1>12, <1>13, <1>14, <1>15, <1>16, <1>17, <1>18

--------------------------------------------------------------------------------
(* The steps. *)

\* What an access is translated to.
LEMMA TranslateIsGuests ==
  ASSUME IInv, NEW cpu \in Cpus, NEW v \in Virtual, NEW user \in BOOLEAN
  PROVE  LET t == Translate(cpu, v, user)
         IN  /\ t.ok <=> GuestMapped(cpu, v)
             /\ t.ok => /\ t.frame = GuestFrame(cpu, v)
                        /\ t.disable <=> ~GuestCached(cpu, v)
                        /\ t.user /\ (cr[cpu].paging \/ ~user)
                             => GuestFrame(cpu, v) \notin KernelFrames
             /\ t.frame \in Int /\ t.user \in BOOLEAN
<1> DEFINE t == Translate(cpu, v, user)
           root == cr[cpu].cr3
           e == Entries(mem, root, v)
<1>1. /\ mem \in Memory /\ replica \in Copies /\ Disciplined(mem)
      /\ cr[cpu].paging \in BOOLEAN /\ root \in Roots
      /\ \A f \in KernelFrames : View(replica)[f] = mem[f]
  BY DEF IInv, TypeOK, TablesAgree, Memory, Copies, Cr
<1>0. registers[cpu] = cr[cpu]
  BY DEF IInv
<1>2. View(replica) \in Memory
  BY <1>1, ViewTyped
<1>3. CASE ~cr[cpu].paging
  <2>1. t = Found(Number(v), user, FALSE, {})
    BY <1>3 DEF Translate
  <2>2. GuestMapped(cpu, v) /\ GuestCached(cpu, v) /\ GuestFrame(cpu, v) = Number(v)
    BY <1>0, <1>3 DEF GuestMapped, GuestCached, GuestFrame
  <2>3. Number(v) \in Int
    <3>1. v[1] \in Index /\ v[2] \in Index /\ v[3] \in Index /\ v[4] \in Index
      BY Constants
    <3>2. v[1] \in Int /\ v[2] \in Int /\ v[3] \in Int /\ v[4] \in Int /\ Fan \in Int
      BY <3>1, ReplicaAssumption DEF Index
    <3> QED
      BY <3>2 DEF Number
  <2> QED
    BY <1>3, <2>1, <2>2, <2>3 DEF Found
<1>4. CASE cr[cpu].paging /\ ~cr[cpu].pae
  <2>1. t = NotFound({})
    BY <1>4 DEF Translate
  <2> QED
    BY <1>0, <1>4, <2>1 DEF NotFound, GuestMapped
<1>5. CASE cr[cpu].paging /\ cr[cpu].pae
  <2> DEFINE w == VaddrToPhys(View(replica), root, v)
  <2>1. t = w
    BY <1>5 DEF Translate
  <2>2. /\ w.ok <=> Mapped(e)
        /\ w.ok => /\ w.frame = Target(e, v) /\ (w.user <=> UserMode(e))
                   /\ w.disable = e[Leaf(e)].disable
        /\ w.frame \in Int /\ w.user \in BOOLEAN
    BY <1>1, <1>2, WalkIsGuests
  <2>3. /\ GuestMapped(cpu, v) <=> Mapped(e)
        /\ GuestCached(cpu, v) <=> ~e[Leaf(e)].disable
        /\ GuestFrame(cpu, v) = Target(e, v)
    BY <1>0, <1>5 DEF GuestMapped, GuestCached, GuestFrame
  <2>4. Mapped(e) /\ UserMode(e) => Target(e, v) \notin KernelFrames
    BY <1>1 DEF Disciplined
  <2>5. Leaf(e) \in 1 .. 4 /\ e[Leaf(e)] \in Entry
    <3>1. v[1] \in Index /\ v[2] \in Index /\ v[3] \in Index /\ v[4] \in Index
      BY Constants
    <3>2. e[1] \in Entry /\ e[2] \in Entry /\ e[3] \in Entry /\ e[4] \in Entry
      BY <1>1, <3>1, WordIsEntry DEF Entries
    <3> HIDE DEF e
    <3> QED
      BY <3>2 DEF Leaf
  <2>6. e[Leaf(e)].disable \in BOOLEAN
    BY <2>5 DEF Entry
  <2> HIDE DEF w, e, t
  <2> QED
    BY <2>1, <2>2, <2>3, <2>4, <2>6 DEF t
<1> QED
  BY <1>1, <1>3, <1>4, <1>5

LEMMA InitInv == Init => IInv
<1> SUFFICES ASSUME Init PROVE IInv
  OBVIOUS
<1>1. TypeOK
  BY ReplicaAssumption DEF Init, TypeOK, Address, Programs
<1>2. Disciplined(mem)
  BY ReplicaAssumption DEF Init
<1>3. TablesAgree
  BY Constants DEF Init, TablesAgree, View
<1>4. ForwardsGuestAccess /\ cr = registers
  BY DEF Init, ForwardsGuestAccess
<1> QED
  BY <1>1, <1>2, <1>3, <1>4 DEF IInv

\* The simulator ends.
LEMMA UntranslatedStep ==
  ASSUME IInv, NEW t, Untranslated(t)
  PROVE  IInv'
<1>1. /\ status' = "untranslated" /\ replica' = Load(replica, t.read)
      /\ UNCHANGED <<program, mem, registers, cr, userPage, event, forwarded, accessed, stores>>
  BY DEF Untranslated
<1>2. replica \in Copies
  BY DEF IInv, TypeOK, Copies
<1>3. replica' \in Copies /\ View(replica') = View(replica)
  BY <1>1, <1>2, LoadKeepsView
<1>4. TypeOK'
  BY <1>1, <1>3 DEF IInv, TypeOK, Copies
<1>5. Disciplined(mem') /\ ForwardsGuestAccess'
  BY <1>1 DEF IInv, ForwardsGuestAccess
<1>6. TablesAgree'
  BY <1>1, <1>3 DEF IInv, TablesAgree
<1> QED
  BY <1>1, <1>4, <1>5, <1>6 DEF IInv

LEMMA LoadStep ==
  ASSUME IInv, NEW cpu \in Cpus, NEW v \in Virtual, NEW i \in Index, DataLoad(cpu, v, i)
  PROVE  IInv'
<1> DEFINE t == Translate(cpu, v, Cleared)
<1>1. userPage \in BOOLEAN /\ replica \in Copies /\ Cleared \in BOOLEAN
  BY DEF IInv, TypeOK, Copies, Cleared
<1>2. CASE ~t.ok
  BY <1>2, UntranslatedStep DEF DataLoad
<1>3. CASE t.ok
  <2>1. /\ event' = "data" /\ userPage' = t.user /\ replica' = Load(replica, t.read)
        /\ forwarded' = IF t.disable THEN <<>> ELSE <<t.frame, i>>
        /\ accessed' = GuestAccess(cpu, v, i)
        /\ UNCHANGED <<program, mem, registers, cr, status, stores>>
    BY <1>3 DEF DataLoad
  <2>2. /\ GuestMapped(cpu, v) /\ t.frame = GuestFrame(cpu, v)
        /\ t.disable <=> ~GuestCached(cpu, v)
        /\ t.frame \in Int /\ t.user \in BOOLEAN
    BY <1>1, <1>3, TranslateIsGuests
  <2>3. replica' \in Copies /\ View(replica') = View(replica)
    BY <1>1, <2>1, LoadKeepsView
  <2> HIDE DEF t
  <2>4. forwarded' \in Address /\ accessed' = forwarded'
    <3>1. CASE t.disable
      BY <2>1, <2>2, <3>1 DEF Address, GuestAccess
    <3>2. CASE ~t.disable
      BY <2>1, <2>2, <3>2 DEF Address, GuestAccess
    <3> QED
      BY <3>1, <3>2
  <2>5. TypeOK'
    BY <2>1, <2>2, <2>3, <2>4 DEF IInv, TypeOK, Copies
  <2>6. TablesAgree' /\ Disciplined(mem')
    BY <2>1, <2>3 DEF IInv, TablesAgree
  <2> QED
    BY <2>1, <2>4, <2>5, <2>6 DEF IInv, ForwardsGuestAccess
<1> QED
  BY <1>2, <1>3

\* A store to a user page is in no kernel frame; any other is written to the copy.
LEMMA StoreStep ==
  ASSUME AlwaysPaged, IInv, NEW cpu \in Cpus, NEW v \in Virtual, NEW i \in Index,
         NEW value \in Values, DataStore(cpu, v, i, value)
  PROVE  IInv'
<1> DEFINE t == Translate(cpu, v, Cleared)
           f == GuestFrame(cpu, v)
           stored == IF f \in RAM THEN [mem EXCEPT ![f][i] = value] ELSE mem
           loaded == Load(replica, t.read)
<1>1. /\ userPage \in BOOLEAN /\ replica \in Copies /\ Cleared \in BOOLEAN
      /\ mem \in Memory /\ value \in Entry /\ stores \in Nat
  BY ReplicaAssumption DEF IInv, TypeOK, Copies, Cleared, Memory
<1>2. CASE ~t.ok
  BY <1>2, UntranslatedStep DEF DataStore
<1>3. CASE t.ok
  <2>1. /\ event' = "data" /\ userPage' = t.user
        /\ replica' = IF t.user THEN loaded ELSE Write(loaded, t.frame, i, value)
        /\ forwarded' = IF t.disable THEN <<>> ELSE <<t.frame, i>>
        /\ mem' = stored /\ accessed' = GuestAccess(cpu, v, i) /\ stores' = stores + 1
        /\ UNCHANGED <<program, registers, cr, status>>
        /\ GuestMapped(cpu, v) => Disciplined(stored)
    BY <1>3 DEF DataStore
  <2>2. /\ GuestMapped(cpu, v) /\ t.frame = f
        /\ t.disable <=> ~GuestCached(cpu, v)
        /\ t.user /\ (cr[cpu].paging \/ ~Cleared) => f \notin KernelFrames
        /\ t.frame \in Int /\ t.user \in BOOLEAN
    BY <1>1, <1>3, TranslateIsGuests
  <2>3. cr[cpu].paging \/ ~Cleared
    BY DEF AlwaysPaged, DataStore, Traced, Cleared, IInv
  <2>4. loaded \in Copies /\ View(loaded) = View(replica) /\ View(replica) \in Memory
    BY <1>1, LoadKeepsView, ViewTyped
  <2> HIDE DEF t, f, loaded, stored
  <2>9. Disciplined(mem')
    BY <2>1, <2>2
  <2>5. forwarded' \in Address /\ accessed' = forwarded'
    <3>1. CASE t.disable
      BY <2>1, <2>2, <3>1 DEF Address, GuestAccess
    <3>2. CASE ~t.disable
      BY <2>1, <2>2, <3>2 DEF Address, GuestAccess, f
    <3> QED
      BY <3>1, <3>2
  <2>6. mem' \in Memory
    BY <1>1, <2>1 DEF Memory, Page, stored
  <2>7. CASE t.user
    <3>1. replica' = loaded
      BY <2>1, <2>7
    <3>2. \A g \in KernelFrames : mem'[g] = mem[g]
      BY <1>1, <2>1, <2>2, <2>3, <2>7, Constants DEF Memory, stored
    <3> QED
      BY <2>1, <2>2, <2>4, <2>5, <2>6, <2>9, <3>1, <3>2, <1>1
         DEF IInv, TypeOK, Copies, Memory, TablesAgree, ForwardsGuestAccess
  <2>8. CASE ~t.user
    <3>1. /\ replica' \in Copies
          /\ View(replica') = IF f \in RAM THEN [View(replica) EXCEPT ![f][i] = value]
                              ELSE View(replica)
      <4>1. replica' = Write(loaded, f, i, value)
        BY <2>1, <2>2, <2>8
      <4>2. /\ Write(loaded, f, i, value) \in Copies
            /\ View(Write(loaded, f, i, value)) =
                 IF f \in RAM THEN [View(loaded) EXCEPT ![f][i] = value] ELSE View(loaded)
        BY <1>1, <2>4, WriteChangesWord
      <4> QED
        BY <2>4, <4>1, <4>2
    <3>2. \A g \in KernelFrames : View(replica')[g] = mem'[g]
      <4> SUFFICES ASSUME NEW g \in KernelFrames PROVE View(replica')[g] = mem'[g]
        OBVIOUS
      <4>1. g \in RAM /\ View(replica)[g] = mem[g]
        BY Constants DEF IInv, TablesAgree
      <4>2. CASE g = f
        BY <1>1, <2>1, <2>4, <3>1, <4>1, <4>2 DEF Memory, stored
      <4>3. CASE g # f
        BY <1>1, <2>1, <2>4, <3>1, <4>1, <4>3 DEF Memory, stored
      <4> QED
        BY <4>2, <4>3
    <3> QED
      BY <2>1, <2>2, <2>5, <2>6, <2>9, <3>1, <3>2, <1>1
         DEF IInv, TypeOK, Copies, Memory, TablesAgree, ForwardsGuestAccess
  <2> QED
    BY <2>2, <2>7, <2>8
<1> QED
  BY <1>2, <1>3

LEMMA FetchStep ==
  ASSUME IInv, NEW cpu \in Cpus, NEW v \in Virtual, NEW i \in Index, Fetch(cpu, v, i)
  PROVE  IInv'
<1> DEFINE t == Translate(cpu, v, userPage)
<1>1. userPage \in BOOLEAN /\ replica \in Copies
  BY DEF IInv, TypeOK, Copies
<1>2. /\ t.ok <=> GuestMapped(cpu, v)
      /\ t.ok => t.frame = GuestFrame(cpu, v) /\ (t.disable <=> ~GuestCached(cpu, v))
      /\ t.frame \in Int /\ t.user \in BOOLEAN
  BY <1>1, TranslateIsGuests
<1>3. accessed' \in Address
  <2>1. accessed' = GuestAccess(cpu, v, i)
    BY DEF Fetch
  <2>2. CASE t.ok
    BY <1>2, <2>1, <2>2 DEF GuestAccess, Address
  <2>3. CASE ~t.ok
    BY <1>2, <2>1, <2>3 DEF GuestAccess, Address
  <2> QED
    BY <2>2, <2>3
<1>4. Disciplined(mem')
  BY DEF Fetch, IInv
<1>5. CASE program = "coordinator"
  <2>1. /\ event' = "fetch" /\ forwarded' = <<Number(v), i>>
        /\ UNCHANGED <<program, mem, registers, cr, stores, userPage, replica, status>>
    BY <1>5 DEF Fetch
  <2>2. Number(v) \in Int
    <3>1. v[1] \in Index /\ v[2] \in Index /\ v[3] \in Index /\ v[4] \in Index
      BY Constants
    <3>2. v[1] \in Int /\ v[2] \in Int /\ v[3] \in Int /\ v[4] \in Int /\ Fan \in Int
      BY <3>1, ReplicaAssumption DEF Index
    <3> QED
      BY <3>2 DEF Number
  <2>3. TypeOK'
    BY <1>3, <2>1, <2>2 DEF IInv, TypeOK, Address
  <2> QED
    BY <1>4, <1>5, <2>1, <2>3 DEF IInv, TablesAgree, ForwardsGuestAccess
<1>6. CASE program # "coordinator"
  <2>1. /\ event' = "fetch" /\ accessed' = GuestAccess(cpu, v, i)
        /\ userPage' = t.user /\ replica' = Load(replica, t.read)
        /\ forwarded' = IF t.ok /\ ~t.disable THEN <<t.frame, i>> ELSE <<>>
        /\ status' \in {status, "untranslated"}
        /\ UNCHANGED <<program, mem, registers, cr, stores>>
    BY <1>6 DEF Fetch
  <2>2. replica' \in Copies /\ View(replica') = View(replica)
    BY <1>1, <2>1, LoadKeepsView
  <2> HIDE DEF t
  <2>3. forwarded' \in Address /\ accessed' = forwarded'
    <3>1. CASE t.ok /\ ~t.disable
      BY <1>2, <2>1, <3>1 DEF GuestAccess, Address
    <3>2. CASE ~(t.ok /\ ~t.disable)
      BY <1>2, <2>1, <3>2 DEF GuestAccess, Address
    <3> QED
      BY <3>1, <3>2
  <2>4. TypeOK'
    BY <1>2, <2>1, <2>2, <2>3 DEF IInv, TypeOK, Copies
  <2> QED
    BY <1>4, <2>1, <2>2, <2>3, <2>4 DEF IInv, TablesAgree, ForwardsGuestAccess
<1> QED
  BY <1>5, <1>6

LEMMA NextInv == AlwaysPaged /\ IInv /\ [Next]_vars => IInv'
<1> SUFFICES ASSUME AlwaysPaged, IInv, [Next]_vars PROVE IInv'
  OBVIOUS
<1>1. CASE UNCHANGED vars
  BY <1>1 DEF vars, IInv, TypeOK, TablesAgree, ForwardsGuestAccess
<1>2. CASE \E cpu \in Cpus : \E v \in Virtual : \E i \in Index :
             \/ DataLoad(cpu, v, i)
             \/ \E value \in Values : DataStore(cpu, v, i, value)
             \/ Fetch(cpu, v, i)
  BY <1>2, LoadStep, StoreStep, FetchStep
<1>3. CASE \E cpu \in Cpus : \E new \in CrValues : UpdateCr(cpu, new)
  <2> PICK cpu \in Cpus, new \in CrValues : UpdateCr(cpu, new)
    BY <1>3
  <2>1. /\ cr' = [cr EXCEPT ![cpu] = new] /\ registers' = [registers EXCEPT ![cpu] = new]
        /\ UNCHANGED <<program, mem, replica, userPage, status, event, forwarded,
                       accessed, stores>>
    BY DEF UpdateCr, SetCrValue
  <2>2. TypeOK'
    BY <2>1, ReplicaAssumption DEF IInv, TypeOK
  <2> QED
    BY <2>1, <2>2 DEF IInv, TablesAgree, ForwardsGuestAccess
<1>4. CASE End
  BY <1>4 DEF End, IInv, TypeOK, TablesAgree, ForwardsGuestAccess
<1> QED
  BY <1>1, <1>2, <1>3, <1>4 DEF Next

LEMMA Invariance == AlwaysPaged => (Spec => []IInv)
<1>1. ASSUME AlwaysPaged PROVE Spec => []IInv
  <2>1. Init => IInv
    BY InitInv
  <2>2. IInv /\ [Next]_vars => IInv'
    BY <1>1, NextInv
  <2> QED
    BY <2>1, <2>2, PTL DEF Spec
<1> QED
  BY <1>1

--------------------------------------------------------------------------------

\* The guest, the copy and the simulators' variables keep their types (TypeOK), if a
\* coordinator's guest has paging enabled.
THEOREM TypeCorrect == AlwaysPaged => (Spec => []TypeOK)
<1>1. IInv => TypeOK
  BY DEF IInv
<1> QED
  BY <1>1, Invariance, PTL

\* The copy of every kernel frame is what the guest has there, although stores to
\* user pages are not copied (coordinator.c 261, simulator.c 433), in every trace of the
\* simple simulator, and in those of the coordinator that have paging enabled: without
\* paging it decides on an old is_user_page_access and the copy goes wrong.
THEOREM CopyIsRight == AlwaysPaged => (Spec => []TablesAgree)
<1>1. IInv => TablesAgree
  BY DEF IInv
<1> QED
  BY <1>1, Invariance, PTL

\* vaddr_to_phys (pagetable.c 41-132) translates every page as the guest does in such a
\* trace. That it leaves bits 50 to 62 of a large page's entry in the address (lines 89
\* and 115) does no harm as long as the guest sets none of them there (Disciplined).
THEOREM TranslationIsRight == AlwaysPaged => (Spec => []TranslatesLikeGuest)
<1>1. ASSUME IInv PROVE TranslatesLikeGuest
  <2>1. /\ mem \in Memory /\ replica \in Copies /\ Disciplined(mem)
        /\ \A f \in KernelFrames : View(replica)[f] = mem[f]
    BY <1>1 DEF IInv, TypeOK, TablesAgree, Memory, Copies
  <2>2. View(replica) \in Memory
    BY <2>1, ViewTyped
  <2> QED
    BY <2>1, <2>2, WalkIsGuests DEF TranslatesLikeGuest
<1>2. IInv => TranslatesLikeGuest
  BY <1>1
<1> QED
  BY <1>2, Invariance, PTL

\* The caches are given the physical address the guest accesses (coordinator.c
\* 244-272, simulator.c 83-115), fetches of the coordinator apart, in such a trace and
\* with such a guest: each access by the registers its own CPU has at that moment.
THEOREM ForwardingIsRight == AlwaysPaged => (Spec => []ForwardsGuestAccess)
<1>1. IInv => ForwardsGuestAccess
  BY DEF IInv
<1> QED
  BY <1>1, Invariance, PTL
================================================================================
