------------------------------- MODULE MCPrograms -------------------------------
(***************************************************************************)
(* Small inputs for every program: two processors, two MPI processes or    *)
(* four, a memory of two ranges, and each file missing or wrong once.      *)
(***************************************************************************)
EXTENDS Programs

Geometry(size, line, assoc) == [size |-> size, line |-> line, assoc |-> assoc]
PlanLevel(hasInstr, shared, size, assoc) ==
  [hasInstr |-> hasInstr, shared |-> shared, geometry |-> Geometry(size, 64, assoc)]

\* setup_cache of simulator/distributed/worker.c, also simple's with SIMPLE_CACHE.
WorkerPlan == <<PlanLevel(TRUE, FALSE, 8 * 1024, 16), PlanLevel(FALSE, FALSE, 256 * 1024, 16),
                PlanLevel(FALSE, TRUE, 8 * 1024 * 1024, 16)>>
\* setup_cache of simulator/simple/simulator.c.
SimplePlan == [WorkerPlan EXCEPT ![1].geometry.size = 32 * 1024]
\* setup_cache of simulator/gem/simulator.c.
GemPlan    == <<PlanLevel(TRUE, FALSE, 32 * 1024, 8), PlanLevel(FALSE, TRUE, 256 * 1024, 4)>>
MCPlan     == [tests |-> <<>>, printtrace |-> <<>>, distributed |-> WorkerPlan,
               simple |-> SimplePlan, gem |-> GemPlan]

\* A cache of 4 lines of 2 bytes; one that fits below it; one of another line size; a bad
\* associativity.
MCGeometries == {Geometry(8, 2, 1), Geometry(4, 2, 1), Geometry(4, 4, 1), Geometry(4, 2, 0)}

\* Two ranges, the second without a whole dump; a range without a dump.
Low  == [start |-> 0, end |-> 16, dump |-> 16]
High == [start |-> 48, end |-> 64, dump |-> 8]
Bare == [start |-> 64, end |-> 72, dump |-> None]

Entry(id, name) == [id |-> id, name |-> name]
Ids == <<Entry(6, "tb"), Entry(1, "load"), Entry(2, "store"), Entry(3, "cr"),
         Entry(4, "invlpg"), Entry(5, "tb"), Entry(7, "other")>>

\* Initial values of both processors for the coordinator, one of them twice; of one for the
\* simple simulator, whose file ends too early. Files whose memories are odd have one for each.
Good(p) ==
  [program |-> p, missing |-> {}, ranges |-> <<Low, High>>, mapping |-> Ids,
   registers |-> IF p = "distributed" THEN <<1, 0, 1>> ELSE <<1>>]
MayMiss ==
  [tests |-> {}, gem |-> {"arguments", "input", "output"},
   printtrace |-> {"arguments", "mapping", "input"},
   simple |-> {"arguments", "input", "mapping", "output", "ranges", "registers"},
   distributed |-> {"arguments", "input", "mapping", "output", "ranges", "registers", "trace"}]
Bad(p) == {[Good(p) EXCEPT !.missing = {what}] : what \in MayMiss[p]}
Odd(p) == {[Good(p) EXCEPT !.ranges = s, !.registers = <<1, 0>>] :
             s \in {<<>>, <<Low, Bare>>, <<Low, High, High>>, <<Low, High, High, High>>}}
MCInputs ==
  {Good(p) : p \in DOMAIN MayMiss} \cup UNION {Bad(p) : p \in DOMAIN MayMiss}
  \cup Odd("simple") \cup Odd("distributed")

Event(name, delta, negative, cpu, addr) ==
  [name |-> name, delta |-> delta, negative |-> negative, cpu |-> cpu, addr |-> addr]
MCEvents ==
  {Event("load", 5, FALSE, 1, 13) @@ [shift |-> 2], Event("load", 0, FALSE, 1, 24) @@ [shift |-> 0],
   Event("store", 1500, FALSE, 1, 8) @@ [shift |-> 3, data |-> 2100],
   Event("store", 0, FALSE, 0, 6) @@ [shift |-> 2, data |-> 8],
   Event("store", 20, TRUE, 0, 13) @@ [shift |-> 2, data |-> 9],
   Event("store", 0, TRUE, 0, 16) @@ [shift |-> 1, data |-> 9],
   Event("store", 0, FALSE, 1, 57) @@ [shift |-> 0, data |-> 1],
   Event("cr", 3, FALSE, 1, 0) @@ [register |-> 3, value |-> 513],
   Event("cr", 3, FALSE, 0, 0) @@ [register |-> 2, value |-> 600],
   Event("invlpg", 1, FALSE, 1, 1000),
   Event("tb", 1, FALSE, 0, 3) @@ [size |-> 6], Event("tb", 1, FALSE, 0, 4) @@ [size |-> 24],
   Event("other", 1, FALSE, 0, 0)}
MCGemEvents ==
  {[name |-> "gem", tick |-> 300, addr |-> 1025, type |-> t, cpu |-> 2] : t \in {"read", "write", "fetch"}}
================================================================================
