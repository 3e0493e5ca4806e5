------------------------------- MODULE Dispatch --------------------------------
(***************************************************************************)
(* The coordinator's distribution of accesses to workers:                  *)
(* process_cache_access of simulator/distributed/coordinator.c, the MPI    *)
(* transport below it and the receive loop of simulator/distributed/       *)
(* worker.c.                                                               *)
(*                                                                         *)
(* An access belongs to the shard its line number selects and is           *)
(* identified by its position among the accesses of that shard.  Each      *)
(* shard has two batches; one is filled while MPI may still be reading the *)
(* other.                                                                  *)
(***************************************************************************)
EXTENDS Integers, Sequences

CONSTANTS
  WorldSize,        \* MPI processes
  BatchSize,        \* accesses in a batch (1024)
  Lines,            \* line numbers (address / CACHE_LINE_SIZE) accessed
  MaxAccesses       \* bound on the accesses of a shard

WorkersPerCache == 8
Shard(line)     == line % WorkersPerCache
Shards          == 0 .. WorkersPerCache - 1

ASSUME DispatchAssumption ==
  /\ WorldSize \in Nat /\ WorldSize >= 3
  /\ BatchSize \in Nat \ {0} /\ Lines \subseteq Nat /\ MaxAccesses \in Nat

\* Ranks: workers first, then the output writer, coordinator and input reader.
Ranks   == 0 .. WorldSize - 1
Workers == 0 .. WorldSize - 4

VARIABLES
  made,         \* accesses processed so far, per shard
  batch,        \* accesses_buf_0 and accesses_buf_1 of each worker buffer
  writeIdx, current,    \* cur_write_idx, cur_buffer_idx
  openRequest,  \* cur_open_request: number of a message, or NULL
  pc, shard, replica,   \* the coordinator's place, and worker_idx and i there
  sends,        \* messages sent so far; the last one's number
  mail,         \* messages to each rank, in the order of their sending
  simulated,    \* accesses each worker has simulated
  received      \* the batch it took last

coordVars  == <<made, batch, writeIdx, current, openRequest, pc, shard, replica>>
workerVars == <<simulated, received>>
vars == <<coordVars, sends, mail, workerVars>>

NULL    == 0
Garbage == -1
Index   == 1 .. BatchSize
InTransit == <<>>         \* data of a message MPI has yet to take from its batch

\* Has the request with this number completed (MPI_Wait)?
Completed(request) ==
  \A r \in Ranks : \A k \in DOMAIN mail[r] :
    mail[r][k].number = request => mail[r][k].data # InTransit

Init ==
  /\ made = [s \in Shards |-> 0]
  /\ batch = [s \in Shards |-> [h \in {0, 1} |-> [i \in Index |-> Garbage]]]
  /\ writeIdx = [s \in Shards |-> 0]
  /\ current = [s \in Shards |-> 0]
  /\ openRequest = [s \in Shards |-> NULL]
  /\ pc = "run" /\ shard = 0 /\ replica = 0
  /\ sends = 0
  /\ mail = [r \in Ranks |-> <<>>]
  /\ simulated = [w \in Workers |-> 0]
  /\ received = [w \in Workers |-> <<>>]

--------------------------------------------------------------------------------

\* worker_buffers has WorldSize - 3 entries of BatchSize accesses each.
InBounds(s) == s <= WorldSize - 4 /\ writeIdx[s] < BatchSize

\* Mutated form of IsFull: a full batch is noticed at the next access.
IsFullLate(n) == n > BatchSize

IsFull(n) == n = BatchSize

\* process_cache_access up to the test for a full batch.  A store outside the
\* arrays corrupts the process.
Store(line) ==
  LET s == Shard(line)
  IN  /\ pc = "run" /\ made[s] < MaxAccesses
      /\ IF InBounds(s)
         THEN /\ batch' = [batch EXCEPT ![s][current[s]][writeIdx[s] + 1] = made[s]]
              /\ made' = [made EXCEPT ![s] = @ + 1]
              /\ writeIdx' = [writeIdx EXCEPT ![s] = @ + 1]
              /\ shard' = s /\ replica' = 0
              /\ pc' = IF IsFull(writeIdx[s] + 1) THEN "wait" ELSE "run"
         ELSE pc' = "corrupt" /\ UNCHANGED <<batch, made, writeIdx, shard, replica>>
      /\ UNCHANGED <<current, openRequest, sends, mail, workerVars>>

\* Mutated forms of Free: the batch is sent without waiting for the other one; the wait is
\* made although there is no request yet.
FreeAlways(s) == TRUE
FreeOnceSent(s) == openRequest[s] # NULL /\ Completed(openRequest[s])

\* The other batch of a shard is not being sent any more.
Free(s) == openRequest[s] = NULL \/ Completed(openRequest[s])

Wait ==
  /\ pc = "wait" /\ Free(shard)
  /\ openRequest' = [openRequest EXCEPT ![shard] = NULL]
  /\ pc' = "send"
  /\ UNCHANGED <<made, batch, writeIdx, current, shard, replica, sends, mail, workerVars>>

Message == [number |-> sends + 1, shard |-> shard, half |-> current[shard],
            data |-> InTransit]

\* Mutated forms of Swapped: the batches are not swapped; the index is counted up.
SwappedNot(half) == half
SwappedOn(half) == half + 1

Swapped(half) == 1 - half

\* One round of the loop over the replicas: MPI_Isend, swap, reset.
Send ==
  /\ pc = "send" /\ replica < WorldSize - 8
  /\ sends' = sends + 1
  /\ mail' = [mail EXCEPT ![shard + replica] = Append(@, Message)]
  /\ openRequest' = [openRequest EXCEPT ![shard] = sends + 1]
  /\ current' = [current EXCEPT ![shard] = Swapped(@)]
  /\ writeIdx' = [writeIdx EXCEPT ![shard] = 0]
  /\ replica' = replica + 8
  /\ UNCHANGED <<made, batch, pc, shard, workerVars>>

\* The loop ends and process_cache_access returns.
Sent ==
  /\ pc = "send" /\ replica >= WorldSize - 8
  /\ pc' = "run"
  /\ UNCHANGED <<made, batch, writeIdx, current, openRequest, shard, replica,
                 sends, mail, workerVars>>

\* run_coordinator returns: its event limit, or an event it cannot handle.
Stop ==
  /\ pc = "run"
  /\ pc' = "stopped"
  /\ UNCHANGED <<made, batch, writeIdx, current, openRequest, shard, replica,
                 sends, mail, workerVars>>

\* MPI takes the data of a message from the batch it was sent from, at once or
\* when the receiver asks for it.
Take(r, k) ==
  LET m == mail[r][k]
  IN  /\ m.data = InTransit
      /\ mail' = [mail EXCEPT ![r][k].data = batch[m.shard][m.half]]
      /\ UNCHANGED <<coordVars, sends, workerVars>>

\* run_worker: receive the next batch and simulate its accesses.  They are of
\* processors and kinds the hierarchy accepts: one of another kind ends the worker
\* within the batch (worker.c 101-104), which is not modelled.
Receive(w) ==
  /\ mail[w] # <<>> /\ Head(mail[w]).data # InTransit
  /\ received' = [received EXCEPT ![w] = Head(mail[w]).data]
  /\ simulated' = [simulated EXCEPT ![w] = @ + BatchSize]
  /\ mail' = [mail EXCEPT ![w] = Tail(@)]
  /\ UNCHANGED <<coordVars, sends>>

Coordinate == Wait \/ Send \/ Sent
Deliver(r) == mail[r] # <<>> /\ Take(r, 1)

Next ==
  \/ \E line \in Lines : Store(line)
  \/ Coordinate \/ Stop
  \/ \E r \in Ranks : \E k \in DOMAIN mail[r] : Take(r, k)
  \/ \E w \in Workers : Receive(w)

Spec == Init /\ [][Next]_vars

\* The coordinator runs when MPI lets it; MPI hands a message to a receiver that
\* waits for it; a worker always receives again.  Nothing is assumed of the trace.
FairSpec ==
  /\ Spec /\ WF_vars(Coordinate)
  /\ \A w \in Workers : WF_vars(Deliver(w)) /\ WF_vars(Receive(w))

--------------------------------------------------------------------------------

Messages == [number : Nat, shard : Shards, half : {0, 1},
             data : {InTransit} \cup [Index -> Nat \cup {Garbage}]]

\* Type invariant of the worker buffers, the mail and the workers.
TypeOK ==
  /\ made \in [Shards -> Nat]
  /\ batch \in [Shards -> [{0, 1} -> [Index -> Nat \cup {Garbage}]]]
  /\ writeIdx \in [Shards -> 0 .. BatchSize] /\ current \in [Shards -> {0, 1}]
  /\ openRequest \in [Shards -> Nat]
  /\ pc \in {"run", "wait", "send", "stopped", "corrupt"}
  /\ shard \in Shards /\ replica \in Nat /\ sends \in Nat
  /\ mail \in [Ranks -> Seq(Messages)]
  /\ simulated \in [Workers -> Nat]
  /\ received \in [Workers -> {<<>>} \cup [Index -> Nat \cup {Garbage}]]

\* Every store of process_cache_access falls inside the worker buffers, however
\* full they are and whatever lines are accessed (coordinator.c 62-73, 204).
StoresInBounds == pc # "corrupt"

\* A batch MPI is still reading is not the one the coordinator fills
\* (coordinator.c 77-98): swapping must come after the wait for the other batch.
NoWriteInTransit ==
  pc = "run" => \A r \in Ranks : \A k \in DOMAIN mail[r] :
    LET m == mail[r][k] IN m.data = InTransit => m.half # current[m.shard]

\* Each worker simulates the accesses of its shard once each and in trace order:
\* every step of the system is a step or a stutter of every worker's stream.
WorkerStream(position, output) ==
  INSTANCE InOrderStream WITH Sizes <- {BatchSize}
WorkersInOrder ==
  [][\A w \in Workers :
       \/ WorkerStream(simulated[w], received[w])!Next
       \/ UNCHANGED <<simulated[w], received[w]>>]_vars

\* Every full batch of a shard is simulated by its worker, the first of each
\* buffer and those that refill a buffer already sent, unless the coordinator
\* returns meanwhile.
FullBatchesSimulated ==
  \A s \in Shards : \A k \in 1 .. MaxAccesses \div BatchSize :
    made[s] >= k * BatchSize ~>
      (s \in Workers /\ simulated[s] >= k * BatchSize) \/ pc = "stopped"
================================================================================
