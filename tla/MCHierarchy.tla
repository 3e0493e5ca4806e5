------------------------------ MODULE MCHierarchy ------------------------------
(***************************************************************************)
(* The hierarchies of the simulators and of the tests, made small: the     *)
(* same levels, buses and links, with few lines and two processors.        *)
(***************************************************************************)
EXTENDS CacheHierarchy

\* Two processors, a data and an instruction cache each on the L1 bus, and a
\* shared last level on no bus: simulator/gem/simulator.c.
GemCaches == {"d0", "d1", "i0", "i1", "llc"}
GemData   == [p \in {0, 1} |-> IF p = 0 THEN "d0" ELSE "d1"]
GemInstr  == [p \in {0, 1} |-> IF p = 0 THEN "i0" ELSE "i1"]
GemHigher == [c \in GemCaches |-> IF c = "llc" THEN "null" ELSE "llc"]
GemLevel  == [c \in GemCaches |-> IF c = "llc" THEN 1 ELSE 0]
GemBus    == [c \in GemCaches |-> IF c = "llc" THEN "null" ELSE "bus1"]

\* Every cache has n lines.
AllSizes(S, n) == [c \in S |-> n]
GemOneLine  == AllSizes(GemCaches, 1)

\* Private L1 data and instruction caches on one bus, private L2 caches on
\* another, one shared last level: simulator/simple and simulator/distributed/worker.c.
DeepCaches == GemCaches \cup {"b0", "b1"}
DeepHigher == [c \in DeepCaches |->
                 CASE c \in {"d0", "i0"} -> "b0" [] c \in {"d1", "i1"} -> "b1"
                   [] c \in {"b0", "b1"} -> "llc" [] OTHER -> "null"]
DeepLevel  == [c \in DeepCaches |->
                 CASE c \in {"d0", "d1", "i0", "i1"} -> 0 [] c \in {"b0", "b1"} -> 1 [] OTHER -> 2]
DeepBus    == [c \in DeepCaches |->
                 CASE c \in {"d0", "d1", "i0", "i1"} -> "bus1" [] c \in {"b0", "b1"} -> "bus2"
                   [] OTHER -> "null"]
DeepOneLine == AllSizes(DeepCaches, 1)

\* Two caches on one bus and nothing above them: hierarchy_test.c 26-35.
PairCaches == {"c0", "c1"}
PairData   == [p \in {0, 1} |-> IF p = 0 THEN "c0" ELSE "c1"]
PairHigher == [c \in PairCaches |-> "null"]
PairLevel  == [c \in PairCaches |-> 0]
PairBus    == [c \in PairCaches |-> "bus1"]
PairTwo    == AllSizes(PairCaches, 2)
PairFour   == AllSizes(PairCaches, 4)
================================================================================
