-------------------------------- MODULE Programs --------------------------------
(***************************************************************************)
(* Every program of the repository, from main to its end: the caches it    *)
(* builds (HierarchySetup), the files and messages it starts from          *)
(* (Startup), the loop it then runs (EventLoops) and the simulated memory  *)
(* it fills and uses (SimMemory). The unit tests of the caches are one of  *)
(* them. A part that is not running leaves its variables alone.            *)
(***************************************************************************)
EXTENDS HierarchySetup, EventLoops

CONSTANTS
  Plan,     \* the hierarchy each program builds, <<>> if none
  Lead      \* bound on the events that are written ahead of the loop

ASSUME ProgramsAssumption ==
  /\ \A f \in Inputs :
       /\ Plan[f.program] \in Seq(PlannedLevel)
       /\ f.program = "tests" => Plan[f.program] = <<>>
  /\ Lead \in Nat

vars == <<setupVars, startupVars, memoryVars, loopVars>>

Looper  == IF program = "distributed" THEN Coordinator ELSE 0
Looping == program # "tests" /\ Looper \in Procs /\ InLoop(Looper)

Init ==
  /\ SetupInit /\ StartupInit /\ LoopInit
  /\ plan = Plan[program]

\* A unit test of the caches.
Test == program = "tests" /\ TestCall /\ UNCHANGED <<startupVars, memoryVars, loopVars>>

\* setup_cache: gem's and simple's at their places in main. A worker's has no effect on
\* another process and is taken first.
SetUpCaches ==
  /\ IF program = "distributed" THEN \A r \in Procs : pc[r] = "main" ELSE pc[0] = "caches"
  /\ PlanCall
  /\ UNCHANGED <<startupVars, memoryVars, loopVars>>

\* A process takes a step before its loop.
Start(r) ==
  /\ r \in Procs
  /\ pc[r] \in {"main", "caches"} => plan = <<>> \/ Built
  /\ StartupStep(r) \/ CachesBuilt(r)

\* The input reader returns at the end of the trace.
ReaderReturns ==
  program = "distributed" /\ closed /\ pc[Reader] = "trace" /\ Fail(Reader)

\* Main goes on behind the loop, and returns.
LoopReturns ==
  Looping /\ (~Running \/ exited) /\ Fail(Looper)

Rest == UNCHANGED <<setupVars, loopVars, program, world, files>>

\* The loop is reached, and the processes that have a part in it have settled. (What is left
\* of the others' start has no effect on it.)
Busy ==
  /\ Looping /\ \A r \in Procs : Settled(r)
  /\ program = "distributed" => firstBuffer # None /\ pc[Reader] = "trace"

Loop ==
  /\ Busy /\ LoopStep
  /\ UNCHANGED <<setupVars, program, world, files, pc, mail, ranges, mapping, firstBuffer>>

\* The trace is written while a loop reads it.
WriteTrace ==
  /\ Busy /\ Running
  /\ (Len(expected) < Len(handed) + Lead /\ AppendEvent) \/ CloseTrace
  /\ UNCHANGED <<setupVars, startupVars>>

Next ==
  \/ Test \/ SetUpCaches \/ Loop \/ WriteTrace
  \/ /\ \/ \E r \in Procs : Start(r) \/ SendReturns(r)
        \/ TraceArrives \/ EndJob \/ ReaderReturns \/ LoopReturns
     /\ Rest

\* A process takes its next step when it can; MPI delivers what was sent and then lets the
\* sender go on; mpirun ends a broken job. Nobody has to call anything in a test, or to
\* write a trace.
Fairness ==
  /\ WF_setupVars(SetUpCaches) /\ WF_loopVars(Loop)
  /\ \A r \in UNION {0 .. w - 1 : w \in Worlds \cup {1}} :
       /\ WF_<<startupVars, memoryVars>>(Start(r) /\ Rest)
       /\ WF_startupVars(r \in Procs /\ Taken(r) /\ SendReturns(r) /\ Rest)
  /\ WF_startupVars(TraceArrives /\ Rest) /\ WF_startupVars(EndJob /\ Rest)
  /\ WF_startupVars(ReaderReturns /\ Rest) /\ WF_startupVars(LoopReturns /\ Rest)

Spec == Init /\ [][Next]_vars /\ Fairness

--------------------------------------------------------------------------------

\* When the trace has ended, so do all processes of the program that read it, wherever in an
\* event it ended: loops over a file notice, and the end of the input reader, which does not
\* call MPI_Finalize, ends the coordinator, that waits for more, and the workers
\* (filereader.c 15-17, simulator.c 70-76, coordinator.c 227).
ProgramEnds == closed ~> \A r \in Procs : pc[r] = "ended"
================================================================================
