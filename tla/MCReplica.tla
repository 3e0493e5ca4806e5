------------------------------- MODULE MCReplica -------------------------------
(***************************************************************************)
(* A guest with tables in frames 0 to 4 (roots 0 and 4) and user pages in  *)
(* frames 8 and 9.  Its virtual pages: a user page, an uncached device, a  *)
(* large user page, the tables through a huge kernel page, and one that is *)
(* not mapped. The entries of a table and of a small page have a software  *)
(* bit set, and the guest stores another. A second processor has paging    *)
(* disabled until it is started.                                           *)
(***************************************************************************)
EXTENDS MemoryReplica

MCCpus    == {0}
MCTwoCpus == {0, 1}
MCRAM     == {0, 1, 2, 3, 4, 8, 9}
MCKernel  == {0, 1, 2, 3, 4}
MCRoots   == {0, 4}

Ent(user, large, disable, frame) ==
  [present |-> TRUE, user |-> user, large |-> large, disable |-> disable, frame |-> frame,
   high |-> 0]
Marked(entry) == [entry EXCEPT !.high = 1]
Pair(a, b) == [i \in Index |-> IF i = 0 THEN a ELSE b]

MCBacking ==
  [f \in MCRAM |->
     CASE f = 0 -> Pair(Ent(TRUE, FALSE, FALSE, 1), NoEntry)
       [] f = 1 -> Pair(Ent(TRUE, FALSE, FALSE, 2), Ent(FALSE, TRUE, FALSE, 0))
       [] f = 2 -> Pair(Marked(Ent(TRUE, FALSE, FALSE, 3)), Ent(TRUE, TRUE, FALSE, 9))
       [] f = 3 -> Pair(Marked(Ent(TRUE, FALSE, FALSE, 8)), Ent(FALSE, FALSE, TRUE, 20))
       [] f = 4 -> Pair(Ent(FALSE, FALSE, FALSE, 1), NoEntry)
       [] OTHER -> Pair(NoEntry, NoEntry)]

MCVirtual == {<<0, 0, 0, 0>>, <<0, 0, 0, 1>>, <<0, 0, 1, 1>>,
              <<0, 1, 1, 0>>, <<0, 1, 1, 1>>}
MCValues  == {NoEntry, Marked(Ent(TRUE, FALSE, FALSE, 9))}

Paged(root) == [paging |-> TRUE, pae |-> TRUE, cr3 |-> root]
MCInitialCr == [cpu \in Cpus |-> IF cpu = 0 THEN Paged(0) ELSE [Paged(0) EXCEPT !.paging = FALSE]]
MCCrValues  == {Paged(4), [Paged(0) EXCEPT !.paging = FALSE], [Paged(0) EXCEPT !.pae = FALSE]}
OnlySimple  == {"simple"}
Both        == {"simple", "coordinator"}
================================================================================
