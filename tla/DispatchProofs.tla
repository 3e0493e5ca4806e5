---------------------------- MODULE DispatchProofs -----------------------------
(***************************************************************************)
(* The distribution of accesses is correct for every batch size and every  *)
(* workload if there are 11 to 16 MPI processes: eight workers at least,   *)
(* and a sending loop of exactly one round.                                *)
(***************************************************************************)
EXTENDS Dispatch, TLAPS, SequenceTheorems

OneReplica == WorldSize \in 11 .. 16

\* The accesses in n batches.
Times(n) == n * BatchSize

\* The accesses in a message, wherever they still are.
Contents(m) == IF m.data = InTransit THEN batch[m.shard][m.half] ELSE m.data

\* The batch of shard s is full from the store that fills it to its MPI_Isend.
Full(s) == s = shard /\ (pc = "wait" \/ (pc = "send" /\ replica = 0))

\* Messages of shard s go to worker s, and to nobody else.
Addressed ==
  /\ \A r \in Ranks : mail[r] # <<>> => r \in Shards
  /\ \A s \in Shards : \A k \in 1 .. Len(mail[s]) :
       mail[s][k].shard = s /\ mail[s][k].number \in 1 .. sends

\* Mail and batch continue what the worker has simulated, up to what was made.
MailInOrder ==
  \A s \in Shards : \A k \in 1 .. Len(mail[s]) : \A i \in Index :
    Contents(mail[s][k])[i] = simulated[s] + Times(k - 1) + (i - 1)
BatchInOrder ==
  \A s \in Shards : \A i \in 1 .. writeIdx[s] :
    batch[s][current[s]][i] = made[s] - writeIdx[s] + (i - 1)
AllCounted ==
  \A s \in Shards : made[s] = simulated[s] + Times(Len(mail[s])) + writeIdx[s]

\* Where the coordinator is.
Position ==
  /\ pc # "corrupt" /\ replica \in {0, 8}
  /\ pc = "wait" => replica = 0
  /\ \A s \in Shards : writeIdx[s] = BatchSize <=> Full(s)

\* Of the messages of a shard only the one of its open request may still be in
\* transit, it is in the batch not being filled, and there is none once the
\* coordinator has waited.
Transit ==
  \A s \in Shards : \A k \in 1 .. Len(mail[s]) :
    mail[s][k].data = InTransit =>
      /\ mail[s][k].number = openRequest[s]
      /\ mail[s][k].half = 1 - current[s]
      /\ ~(s = shard /\ pc = "send" /\ replica = 0)

IInv == /\ TypeOK /\ Addressed /\ MailInOrder /\ BatchInOrder /\ AllCounted
        /\ Position /\ Transit

--------------------------------------------------------------------------------

LEMMA TimesSteps ==
  /\ Times(0) = 0
  /\ \A n \in Nat : Times(n) \in Nat /\ Times(n + 1) = Times(n) + BatchSize
<1>1. BatchSize \in Nat
  BY DispatchAssumption
<1> QED
  BY <1>1 DEF Times

LEMMA Geometry ==
  ASSUME OneReplica
  PROVE  /\ Shards = 0 .. 7 /\ Shards \subseteq Workers /\ Shards \subseteq Ranks
         /\ Workers \subseteq Ranks /\ BatchSize \in Nat /\ BatchSize >= 1
         /\ \A line \in Lines : Shard(line) \in Shards
         /\ 0 < WorldSize - 8 /\ ~(8 < WorldSize - 8)
<1>1. \A line \in Nat : line % 8 \in 0 .. 7
  OBVIOUS
<1> QED
  BY <1>1, DispatchAssumption
     DEF OneReplica, Shards, WorkersPerCache, Workers, Ranks, Shard

\* A batch is never mistaken for the mark of a message in transit.
LEMMA BatchIsNotInTransit ==
  ASSUME OneReplica, NEW S, NEW f \in [Index -> S]
  PROVE  f # InTransit
<1>1. 1 \in Index
  BY Geometry DEF Index
<1>2. DOMAIN f = Index /\ DOMAIN << >> = {}
  OBVIOUS
<1> QED
  BY <1>1, <1>2 DEF InTransit

LEMMA Typing ==
  ASSUME OneReplica, IInv, NEW t \in Shards
  PROVE  /\ made[t] \in Nat /\ simulated[t] \in Nat /\ openRequest[t] \in Nat
         /\ writeIdx[t] \in Nat /\ writeIdx[t] <= BatchSize /\ current[t] \in {0, 1}
         /\ batch[t] \in [{0, 1} -> [Index -> Nat \cup {Garbage}]]
         /\ mail[t] \in Seq(Messages) /\ Len(mail[t]) \in Nat
         /\ \A k \in 1 .. Len(mail[t]) :
              /\ mail[t][k] \in Messages
              /\ mail[t][k].shard = t /\ mail[t][k].half \in {0, 1}
              /\ mail[t][k].number \in Nat
         /\ Times(Len(mail[t])) \in Nat
<1>1. t \in Workers /\ t \in Ranks /\ BatchSize \in Nat
  BY Geometry
<1>2. mail[t] \in Seq(Messages) /\ Len(mail[t]) \in Nat
  BY <1>1, LenProperties DEF IInv, TypeOK
<1>3. \A k \in 1 .. Len(mail[t]) : mail[t][k] \in Messages
  BY <1>2
<1>4. \A k \in 1 .. Len(mail[t]) : mail[t][k].shard = t
  BY DEF IInv, Addressed
<1>5. \A k \in 1 .. Len(mail[t]) : mail[t][k].half \in {0, 1} /\ mail[t][k].number \in Nat
  BY <1>3 DEF Messages
<1>6. Times(Len(mail[t])) \in Nat
  BY <1>2, TimesSteps
<1>7. /\ made[t] \in Nat /\ simulated[t] \in Nat /\ openRequest[t] \in Nat
      /\ writeIdx[t] \in Nat /\ writeIdx[t] <= BatchSize /\ current[t] \in {0, 1}
      /\ batch[t] \in [{0, 1} -> [Index -> Nat \cup {Garbage}]]
  BY <1>1 DEF IInv, TypeOK
<1> QED
  BY <1>2, <1>3, <1>4, <1>5, <1>6, <1>7

LEMMA InitInv == OneReplica /\ Init => IInv
<1> SUFFICES ASSUME OneReplica, Init PROVE IInv
  OBVIOUS
<1> USE Geometry DEF Init
<1>1. TypeOK
  BY DEF TypeOK, Garbage, Index, NULL
<1>2. Addressed /\ MailInOrder /\ Transit
  BY DEF Addressed, MailInOrder, Transit
<1>3. BatchInOrder
  BY DEF BatchInOrder
<1>4. AllCounted
  BY TimesSteps DEF AllCounted
<1>5. Position
  BY DEF Position, Full
<1> QED
  BY <1>1, <1>2, <1>3, <1>4, <1>5 DEF IInv

\* The store adds the next access of a shard to a batch MPI is not reading.
LEMMA StoreStep ==
  ASSUME OneReplica, IInv, NEW line \in Lines, Store(line)
  PROVE  IInv'
<1> DEFINE s == Shard(line)
<1>1. s \in Shards /\ s \in Workers /\ s <= WorldSize - 4
  BY Geometry DEF Workers, OneReplica
<1>2. writeIdx[s] \in 0 .. BatchSize /\ writeIdx[s] # BatchSize
  BY <1>1 DEF IInv, TypeOK, Position, Full, Store, IsFull
<1>3. writeIdx[s] < BatchSize
  BY <1>2, Geometry
<1>4. /\ pc = "run"
      /\ batch' = [batch EXCEPT ![s][current[s]][writeIdx[s] + 1] = made[s]]
      /\ made' = [made EXCEPT ![s] = @ + 1]
      /\ writeIdx' = [writeIdx EXCEPT ![s] = @ + 1]
      /\ shard' = s /\ replica' = 0
      /\ pc' = IF writeIdx[s] + 1 = BatchSize THEN "wait" ELSE "run"
      /\ UNCHANGED <<current, openRequest, sends, mail, simulated, received>>
  BY <1>1, <1>3 DEF Store, IsFull, InBounds, workerVars
<1>5. writeIdx[s] + 1 \in Index /\ current[s] \in {0, 1} /\ made[s] \in Nat
  BY <1>1, <1>2, <1>3, Typing, Geometry DEF Index
<1> HIDE DEF s
<1>6. /\ batch' \in [Shards -> [{0, 1} -> [Index -> Nat \cup {Garbage}]]]
      /\ \A t \in Shards : \A h \in {0, 1} : \A i \in Index :
           batch'[t][h][i] = IF t = s /\ h = current[s] /\ i = writeIdx[s] + 1
                             THEN made[s] ELSE batch[t][h][i]
  BY <1>1, <1>4, <1>5 DEF IInv, TypeOK
<1>7. TypeOK'
  <2>1. made' \in [Shards -> Nat] /\ writeIdx' \in [Shards -> 0 .. BatchSize]
    <3>1. made[s] + 1 \in Nat /\ writeIdx[s] + 1 \in 0 .. BatchSize
      BY <1>5, Geometry DEF Index
    <3>2. made \in [Shards -> Nat] /\ writeIdx \in [Shards -> 0 .. BatchSize]
      BY DEF IInv, TypeOK
    <3> QED
      BY <1>1, <1>4, <3>1, <3>2
  <2> QED
    BY <1>1, <1>4, <1>6, <2>1 DEF IInv, TypeOK
<1>8. Addressed' /\ Transit'
  BY <1>4 DEF IInv, Addressed, Transit
<1>9. MailInOrder'
  <2> SUFFICES ASSUME NEW t \in Shards, NEW k \in 1 .. Len(mail'[t]), NEW i \in Index
               PROVE  Contents(mail[t][k])'[i] = simulated'[t] + Times(k - 1) + (i - 1)
    BY DEF MailInOrder
  <2> simulated'[t] = simulated[t] /\ k \in 1 .. Len(mail[t])
    BY <1>4
  <2>1. mail[t][k].shard = t /\ mail[t][k].half \in {0, 1}
    BY Typing
  <2>2. mail[t][k].data = InTransit => mail[t][k].half # current[t]
    BY <2>1, Typing DEF IInv, Transit
  <2>3. Contents(mail[t][k])'[i] = Contents(mail[t][k])[i]
    BY <1>4, <1>6, <2>1, <2>2 DEF Contents
  <2> QED
    BY <2>3 DEF IInv, MailInOrder
<1>10. BatchInOrder'
  <2> SUFFICES ASSUME NEW t \in Shards, NEW i \in 1 .. writeIdx'[t]
               PROVE  batch'[t][current[t]][i] = made'[t] - writeIdx'[t] + (i - 1)
    BY <1>4 DEF BatchInOrder
  <2>1. i \in Index /\ current[t] \in {0, 1}
    <3>1. writeIdx'[t] \in 0 .. BatchSize
      BY <1>7 DEF TypeOK
    <3> QED
      BY <3>1, Typing, Geometry DEF Index
  <2>2. made[t] \in Nat /\ writeIdx[t] \in Nat
    BY Typing
  <2>5. /\ made'[t] = IF t = s THEN made[t] + 1 ELSE made[t]
        /\ writeIdx'[t] = IF t = s THEN writeIdx[t] + 1 ELSE writeIdx[t]
    BY <1>1, <1>4 DEF IInv, TypeOK
  <2>3. CASE t = s /\ i = writeIdx[s] + 1
    <3>1. batch'[t][current[t]][i] = made[s]
      BY <1>6, <2>1, <2>3
    <3>2. made'[t] - writeIdx'[t] + (i - 1) = made[s]
      BY <2>2, <2>3, <2>5
    <3> QED
      BY <3>1, <3>2
  <2>4. CASE ~(t = s /\ i = writeIdx[s] + 1)
    <3>1. i \in 1 .. writeIdx[t]
      BY <2>2, <2>4, <2>5
    <3>2. batch'[t][current[t]][i] = batch[t][current[t]][i]
      BY <1>6, <2>1, <2>4
    <3>3. batch[t][current[t]][i] = made[t] - writeIdx[t] + (i - 1)
      BY <3>1 DEF IInv, BatchInOrder
    <3>4. made'[t] - writeIdx'[t] = made[t] - writeIdx[t]
      BY <2>2, <2>5
    <3> QED
      BY <3>2, <3>3, <3>4
  <2> QED
    BY <2>3, <2>4
<1>11. AllCounted'
  <2> SUFFICES ASSUME NEW t \in Shards
               PROVE  made'[t] = simulated[t] + Times(Len(mail[t])) + writeIdx'[t]
    BY <1>4 DEF AllCounted
  <2>1. made[t] \in Nat /\ writeIdx[t] \in Nat /\ simulated[t] \in Nat
        /\ Times(Len(mail[t])) \in Nat
    BY Typing
  <2>2. made[t] = simulated[t] + Times(Len(mail[t])) + writeIdx[t]
    BY DEF IInv, AllCounted
  <2>3. /\ made'[t] = IF t = s THEN made[t] + 1 ELSE made[t]
        /\ writeIdx'[t] = IF t = s THEN writeIdx[t] + 1 ELSE writeIdx[t]
    BY <1>1, <1>4 DEF IInv, TypeOK
  <2> QED
    BY <2>1, <2>2, <2>3
<1>12. Position'
  <2>1. pc' \in {"run", "wait"} /\ (pc' = "wait" <=> writeIdx[s] + 1 = BatchSize)
    BY <1>4
  <2>2. \A t \in Shards : writeIdx[t] # BatchSize
    BY <1>4 DEF IInv, Position, Full
  <2>3. \A t \in Shards : writeIdx'[t] = IF t = s THEN writeIdx[s] + 1 ELSE writeIdx[t]
    BY <1>1, <1>4 DEF IInv, TypeOK
  <2> QED
    BY <1>4, <2>1, <2>2, <2>3 DEF Position, Full
<1> QED
  BY <1>7, <1>8, <1>9, <1>10, <1>11, <1>12 DEF IInv

\* The coordinator has waited: none of the shard's messages is in transit.
LEMMA WaitStep ==
  ASSUME OneReplica, IInv, Wait
  PROVE  IInv'
<1>1. /\ pc = "wait" /\ pc' = "send" /\ replica = 0
      /\ openRequest[shard] = NULL \/ Completed(openRequest[shard])
      /\ openRequest' = [openRequest EXCEPT ![shard] = NULL]
      /\ UNCHANGED <<made, batch, writeIdx, current, shard, replica, sends, mail,
                     simulated, received>>
  BY DEF Wait, Free, workerVars, IInv, Position
<1>2. shard \in Shards /\ openRequest \in [Shards -> Nat]
  BY DEF IInv, TypeOK
<1>3. TypeOK'
  BY <1>1, <1>2 DEF IInv, TypeOK, NULL
<1>4. Addressed' /\ BatchInOrder' /\ AllCounted' /\ MailInOrder'
  BY <1>1 DEF IInv, Addressed, BatchInOrder, AllCounted, MailInOrder, Contents
<1>5. Position'
  BY <1>1 DEF IInv, Position, Full
<1>6. Transit'
  <2>1. \A k \in 1 .. Len(mail[shard]) : mail[shard][k].data # InTransit
    <3> SUFFICES ASSUME NEW k \in 1 .. Len(mail[shard]),
                        mail[shard][k].data = InTransit
                 PROVE  FALSE
      OBVIOUS
    <3>1. mail[shard][k].number = openRequest[shard]
      BY <1>2 DEF IInv, Transit
    <3>2. mail[shard][k].number # NULL
      <4>1. mail[shard][k].number \in 1 .. sends /\ sends \in Nat
        BY <1>2 DEF IInv, Addressed, TypeOK
      <4> QED
        BY <4>1 DEF NULL
    <3>3. shard \in Ranks /\ k \in DOMAIN mail[shard]
      BY <1>2, Geometry, Typing
    <3> QED
      BY <1>1, <3>1, <3>2, <3>3 DEF Completed
  <2>2. \A t \in Shards : t # shard => openRequest'[t] = openRequest[t]
    BY <1>1, <1>2
  <2> QED
    BY <1>1, <2>1, <2>2 DEF IInv, Transit
<1> QED
  BY <1>3, <1>4, <1>5, <1>6 DEF IInv

\* The full batch becomes the last message to its worker.
LEMMA SendStep ==
  ASSUME OneReplica, IInv, Send
  PROVE  IInv'
<1>1. replica = 0 /\ shard \in Shards /\ sends \in Nat
  BY Geometry DEF Send, Swapped, IInv, TypeOK, Position
<1>2. /\ pc = "send" /\ sends' = sends + 1
      /\ mail' = [mail EXCEPT ![shard] = Append(@, Message)]
      /\ openRequest' = [openRequest EXCEPT ![shard] = sends + 1]
      /\ current' = [current EXCEPT ![shard] = 1 - @]
      /\ writeIdx' = [writeIdx EXCEPT ![shard] = 0]
      /\ replica' = 8
      /\ UNCHANGED <<made, batch, pc, shard, simulated, received>>
  <2>1. shard + replica = shard /\ replica + 8 = 8
    <3>1. shard \in Int
      BY <1>1, Geometry
    <3> QED
      BY <1>1, <3>1
  <2>2. /\ pc = "send" /\ sends' = sends + 1
        /\ mail' = [mail EXCEPT ![shard + replica] = Append(@, Message)]
        /\ openRequest' = [openRequest EXCEPT ![shard] = sends + 1]
        /\ current' = [current EXCEPT ![shard] = 1 - @]
        /\ writeIdx' = [writeIdx EXCEPT ![shard] = 0]
        /\ replica' = replica + 8
        /\ UNCHANGED <<made, batch, pc, shard, simulated, received>>
    BY DEF Send, Swapped, workerVars
  <2> QED
    BY <2>1, <2>2
<1>3. writeIdx[shard] = BatchSize
  BY <1>1, <1>2 DEF IInv, Position, Full
<1>4. /\ Message \in Messages /\ Message.number = sends + 1 /\ Message.shard = shard
      /\ Message.half = current[shard] /\ Message.data = InTransit
  BY <1>1, Typing DEF Message, Messages
<1> DEFINE n == Len(mail[shard])
<1>5. n \in Nat /\ mail[shard] \in Seq(Messages) /\ shard \in Ranks
  BY <1>1, Typing, Geometry
<1>6. /\ Len(mail'[shard]) = n + 1
      /\ \A k \in 1 .. n : mail'[shard][k] = mail[shard][k]
      /\ mail'[shard][n + 1] = Message
      /\ \A r \in Ranks : r # shard => mail'[r] = mail[r]
      /\ mail' \in [Ranks -> Seq(Messages)]
  <2>1. mail \in [Ranks -> Seq(Messages)]
    BY DEF IInv, TypeOK
  <2>2. /\ Append(mail[shard], Message) \in Seq(Messages)
        /\ Len(Append(mail[shard], Message)) = n + 1
        /\ \A k \in 1 .. n : Append(mail[shard], Message)[k] = mail[shard][k]
        /\ Append(mail[shard], Message)[n + 1] = Message
    BY <1>4, <1>5, AppendProperties
  <2>3. mail'[shard] = Append(mail[shard], Message)
    BY <1>2, <1>5, <2>1
  <2> QED
    BY <1>2, <1>5, <2>1, <2>2, <2>3
<1>7. \A t \in Shards :
        /\ writeIdx'[t] = IF t = shard THEN 0 ELSE writeIdx[t]
        /\ current'[t] = IF t = shard THEN 1 - current[t] ELSE current[t]
        /\ openRequest'[t] = IF t = shard THEN sends + 1 ELSE openRequest[t]
  BY <1>1, <1>2 DEF IInv, TypeOK
<1>8. \A t \in Shards : t \in Ranks
  BY Geometry
<1> HIDE DEF n
<1>9. TypeOK'
  <2>1. /\ 0 \in 0 .. BatchSize /\ sends + 1 \in Nat
        /\ current[shard] \in {0, 1} /\ 1 - current[shard] \in {0, 1}
    BY <1>1, Typing, Geometry
  <2>2. /\ writeIdx' \in [Shards -> 0 .. BatchSize] /\ current' \in [Shards -> {0, 1}]
        /\ openRequest' \in [Shards -> Nat]
    BY <1>2, <2>1 DEF IInv, TypeOK
  <2> QED
    BY <1>1, <1>2, <1>6, <2>1, <2>2 DEF IInv, TypeOK
<1>10. Addressed'
  <2>1. \A r \in Ranks : mail'[r] # <<>> => r \in Shards
    BY <1>1, <1>6 DEF IInv, Addressed
  <2>2. ASSUME NEW t \in Shards, NEW k \in 1 .. Len(mail'[t])
        PROVE  mail'[t][k].shard = t /\ mail'[t][k].number \in 1 .. sends'
    <3>1. CASE t = shard /\ k = n + 1
      BY <1>1, <1>2, <1>4, <1>6, <3>1
    <3>2. CASE ~(t = shard /\ k = n + 1)
      <4>1. k \in 1 .. Len(mail[t]) /\ mail'[t][k] = mail[t][k]
        BY <1>5, <1>6, <1>8, <3>2 DEF n
      <4> QED
        BY <1>1, <1>2, <4>1 DEF IInv, Addressed
    <3> QED
      BY <3>1, <3>2
  <2> QED
    BY <2>1, <2>2 DEF Addressed
<1>11. MailInOrder'
  <2> SUFFICES ASSUME NEW t \in Shards, NEW k \in 1 .. Len(mail'[t]), NEW i \in Index
               PROVE  Contents(mail[t][k])'[i]
                        = simulated'[t] + Times(k - 1) + (i - 1)
    BY DEF MailInOrder
  <2> simulated'[t] = simulated[t]
    BY <1>2
  <2>1. Contents(mail[t][k])' = IF mail'[t][k].data = InTransit
                                 THEN batch[mail'[t][k].shard][mail'[t][k].half]
                                 ELSE mail'[t][k].data
    BY <1>2 DEF Contents
  <2>2. CASE t = shard /\ k = n + 1
    <3>1. Contents(mail[t][k])' = batch[shard][current[shard]]
      BY <1>4, <1>6, <2>1, <2>2
    <3>2. i \in 1 .. writeIdx[shard]
      BY <1>3 DEF Index
    <3>3. batch[shard][current[shard]][i] = made[shard] - BatchSize + (i - 1)
      BY <1>1, <1>3, <3>2 DEF IInv, BatchInOrder
    <3>4. made[shard] = simulated[shard] + Times(n) + BatchSize
      BY <1>1, <1>3 DEF IInv, AllCounted, n
    <3>5. /\ simulated[shard] \in Nat /\ Times(n) \in Nat /\ BatchSize \in Nat
          /\ i \in Int /\ n = k - 1
      BY <1>1, <1>5, <2>2, Typing, Geometry DEF Index, n
    <3>6. Contents(mail[t][k])'[i] = simulated[shard] + Times(n) + (i - 1)
      BY <3>1, <3>3, <3>4, <3>5
    <3> QED
      BY <2>2, <3>5, <3>6
  <2>3. CASE ~(t = shard /\ k = n + 1)
    <3>1. k \in 1 .. Len(mail[t]) /\ mail'[t][k] = mail[t][k]
      BY <1>5, <1>6, <1>8, <2>3 DEF n
    <3> QED
      BY <2>1, <3>1 DEF IInv, MailInOrder, Contents
  <2> QED
    BY <2>2, <2>3
<1>12. BatchInOrder'
  <2> SUFFICES ASSUME NEW t \in Shards, NEW i \in 1 .. writeIdx'[t]
               PROVE  batch[t][current'[t]][i] = made[t] - writeIdx'[t] + (i - 1)
    BY <1>2 DEF BatchInOrder
  <2>1. t # shard
    BY <1>7
  <2> QED
    BY <1>7, <2>1 DEF IInv, BatchInOrder
<1>13. AllCounted'
  <2> SUFFICES ASSUME NEW t \in Shards
               PROVE  made[t] = simulated[t] + Times(Len(mail'[t])) + writeIdx'[t]
    BY <1>2 DEF AllCounted
  <2>1. made[t] = simulated[t] + Times(Len(mail[t])) + writeIdx[t]
    BY DEF IInv, AllCounted
  <2>2. CASE t = shard
    <3>1. Times(n + 1) = Times(n) + BatchSize /\ Times(n) \in Nat
      BY <1>5, TimesSteps
    <3>2. simulated[t] \in Nat /\ BatchSize \in Nat
      BY Typing, Geometry
    <3>3. made[t] = simulated[t] + Times(n) + BatchSize
      BY <1>3, <2>1, <2>2 DEF n
    <3>4. Times(Len(mail'[t])) = Times(n) + BatchSize /\ writeIdx'[t] = 0
      BY <1>6, <1>7, <2>2, <3>1
    <3> QED
      BY <3>1, <3>2, <3>3, <3>4
  <2>3. CASE t # shard
    BY <1>6, <1>7, <1>8, <2>1, <2>3
  <2> QED
    BY <2>2, <2>3
<1>14. Position'
  <2>1. \A t \in Shards : writeIdx'[t] # BatchSize
    BY <1>2, <1>7, Geometry DEF IInv, Position, Full
  <2> QED
    BY <1>2, <2>1 DEF Position, Full
<1>15. Transit'
  <2> SUFFICES ASSUME NEW t \in Shards, NEW k \in 1 .. Len(mail'[t]),
                      mail'[t][k].data = InTransit
               PROVE  mail'[t][k].number = openRequest'[t]
                      /\ mail'[t][k].half = 1 - current'[t]
    BY <1>2 DEF Transit
  <2>1. CASE t = shard /\ k = n + 1
    <3>1. current[shard] \in {0, 1}
      BY <1>1, Typing
    <3>2. 1 - (1 - current[shard]) = current[shard]
      BY <3>1
    <3> QED
      BY <1>4, <1>6, <1>7, <2>1, <3>2
  <2>2. CASE ~(t = shard /\ k = n + 1)
    <3>1. k \in 1 .. Len(mail[t]) /\ mail'[t][k] = mail[t][k]
      BY <1>5, <1>6, <1>8, <2>2 DEF n
    <3>2. t # shard
      BY <1>1, <1>2, <3>1 DEF IInv, Transit
    <3> QED
      BY <1>7, <3>1, <3>2 DEF IInv, Transit
  <2> QED
    BY <2>1, <2>2
<1> QED
  BY <1>9, <1>10, <1>11, <1>12, <1>13, <1>14, <1>15 DEF IInv

\* The loop of one round ends.
LEMMA SentStep ==
  ASSUME OneReplica, IInv, Sent
  PROVE  IInv'
<1>1. /\ pc = "send" /\ pc' = "run" /\ replica # 0
      /\ UNCHANGED <<made, batch, writeIdx, current, openRequest, shard, replica,
                     sends, mail, simulated, received>>
  <2>1. replica >= WorldSize - 8 /\ WorldSize \in Int
    BY DEF Sent, OneReplica
  <2> QED
    BY <2>1, Geometry DEF Sent, workerVars
<1>2. TypeOK' /\ Position'
  BY <1>1 DEF IInv, TypeOK, Position, Full
<1>3. Addressed' /\ BatchInOrder' /\ AllCounted' /\ MailInOrder' /\ Transit'
  BY <1>1 DEF IInv, Addressed, BatchInOrder, AllCounted, MailInOrder, Contents, Transit
<1> QED
  BY <1>2, <1>3 DEF IInv

LEMMA StopStep ==
  ASSUME OneReplica, IInv, Stop
  PROVE  IInv'
<1>1. /\ pc = "run" /\ pc' = "stopped"
      /\ UNCHANGED <<made, batch, writeIdx, current, openRequest, shard, replica,
                     sends, mail, simulated, received>>
  BY DEF Stop, workerVars
<1>2. TypeOK' /\ Position'
  BY <1>1 DEF IInv, TypeOK, Position, Full
<1>3. Addressed' /\ BatchInOrder' /\ AllCounted' /\ MailInOrder' /\ Transit'
  BY <1>1 DEF IInv, Addressed, BatchInOrder, AllCounted, MailInOrder, Contents, Transit
<1> QED
  BY <1>2, <1>3 DEF IInv

\* MPI takes the accesses the message had all along.
LEMMA TakeStep ==
  ASSUME OneReplica, IInv, NEW r \in Ranks, NEW q \in DOMAIN mail[r], Take(r, q)
  PROVE  IInv'
<1>1. /\ mail[r][q].data = InTransit
      /\ mail' = [mail EXCEPT ![r][q].data = batch[mail[r][q].shard][mail[r][q].half]]
      /\ UNCHANGED <<made, batch, writeIdx, current, openRequest, pc, shard, replica,
                     sends, simulated, received>>
  BY DEF Take, coordVars, workerVars
<1>2. mail \in [Ranks -> Seq(Messages)] /\ q \in 1 .. Len(mail[r])
  <2>1. mail \in [Ranks -> Seq(Messages)]
    BY DEF IInv, TypeOK
  <2> QED
    BY <2>1, LenProperties
<1>3. r \in Shards
  <2>1. mail[r] # <<>>
    BY <1>2
  <2> QED
    BY <2>1 DEF IInv, Addressed
<1> DEFINE data == batch[mail[r][q].shard][mail[r][q].half]
           m    == [mail[r][q] EXCEPT !.data = data]
<1>4. data \in [Index -> Nat \cup {Garbage}] /\ data # InTransit
  <2>1. mail[r][q].shard = r /\ mail[r][q].half \in {0, 1}
    BY <1>2, <1>3, Typing
  <2>2. batch[r] \in [{0, 1} -> [Index -> Nat \cup {Garbage}]]
    BY <1>3, Typing
  <2>3. data \in [Index -> Nat \cup {Garbage}]
    BY <2>1, <2>2
  <2> HIDE DEF data
  <2> QED
    BY <2>3, BatchIsNotInTransit
<1>5. /\ m \in Messages /\ m.data = data /\ m.number = mail[r][q].number
      /\ m.shard = mail[r][q].shard /\ m.half = mail[r][q].half
  <2>1. mail[r][q] \in Messages
    BY <1>2, <1>3, Typing
  <2> HIDE DEF data
  <2> QED
    BY <1>4, <2>1 DEF Messages
<1>6. mail' = [mail EXCEPT ![r] = [mail[r] EXCEPT ![q] = m]]
  BY <1>1
<1> HIDE DEF data, m
<1>7. /\ [mail[r] EXCEPT ![q] = m] \in Seq(Messages)
      /\ Len([mail[r] EXCEPT ![q] = m]) = Len(mail[r])
      /\ \A k \in 1 .. Len(mail[r]) :
           [mail[r] EXCEPT ![q] = m][k] = IF k = q THEN m ELSE mail[r][k]
  BY <1>2, <1>5, ExceptSeq
<1>8. /\ mail' \in [Ranks -> Seq(Messages)]
      /\ \A t \in Ranks : Len(mail'[t]) = Len(mail[t])
      /\ \A t \in Ranks : \A k \in 1 .. Len(mail[t]) :
           mail'[t][k] = IF t = r /\ k = q THEN m ELSE mail[t][k]
  BY <1>2, <1>6, <1>7
<1>9. \A t \in Ranks : mail'[t] # <<>> => mail[t] # <<>>
  BY <1>2, <1>6, <1>7
<1>10. \A t \in Shards : t \in Ranks
  BY Geometry
<1>11. TypeOK' /\ Position'
  BY <1>1, <1>8 DEF IInv, TypeOK, Position, Full
<1>12. Addressed'
  <2>1. \A t \in Ranks : mail'[t] # <<>> => t \in Shards
    BY <1>9 DEF IInv, Addressed
  <2>2. ASSUME NEW t \in Shards, NEW k \in 1 .. Len(mail'[t])
        PROVE  mail'[t][k].shard = t /\ mail'[t][k].number \in 1 .. sends'
    <3>1. t \in Ranks /\ k \in 1 .. Len(mail[t])
      BY <1>8, <1>10
    <3>2. mail'[t][k].shard = mail[t][k].shard /\ mail'[t][k].number = mail[t][k].number
      BY <1>5, <1>8, <3>1
    <3>3. mail[t][k].shard = t /\ mail[t][k].number \in 1 .. sends
      BY <3>1 DEF IInv, Addressed
    <3> QED
      BY <1>1, <3>2, <3>3
  <2> QED
    BY <2>1, <2>2 DEF Addressed
<1>13. BatchInOrder' /\ AllCounted'
  BY <1>1, <1>8, <1>10 DEF IInv, BatchInOrder, AllCounted
<1>14. MailInOrder'
  <2> SUFFICES ASSUME NEW t \in Shards, NEW k \in 1 .. Len(mail'[t]), NEW i \in Index
               PROVE  Contents(mail[t][k])'[i] = simulated'[t] + Times(k - 1) + (i - 1)
    BY DEF MailInOrder
  <2> simulated'[t] = simulated[t]
    BY <1>1
  <2>1. k \in 1 .. Len(mail[t])
    BY <1>8, <1>10
  <2>2. Contents(mail[t][k])' = Contents(mail[t][k])
    <3>1. CASE t = r /\ k = q
      <4>1. mail'[t][k].data = data /\ Contents(mail[t][k]) = data
        BY <1>1, <1>5, <1>8, <1>10, <2>1, <3>1 DEF Contents, data
      <4> QED
        BY <1>4, <4>1 DEF Contents
    <3>2. CASE ~(t = r /\ k = q)
      <4>1. mail'[t][k] = mail[t][k] /\ batch' = batch
        BY <1>1, <1>8, <1>10, <2>1, <3>2
      <4> QED
        BY <4>1 DEF Contents
    <3> QED
      BY <3>1, <3>2
  <2> QED
    BY <2>1, <2>2 DEF IInv, MailInOrder
<1>15. Transit'
  BY <1>1, <1>4, <1>5, <1>8, <1>10 DEF IInv, Transit
<1> QED
  BY <1>11, <1>12, <1>13, <1>14, <1>15 DEF IInv

\* The first message of a worker is what it simulates next.
LEMMA ReceiveStep ==
  ASSUME OneReplica, IInv, NEW w \in Workers, Receive(w)
  PROVE  /\ IInv'
         /\ w \in Shards
         /\ \A i \in Index : received'[w][i] = simulated[w] + (i - 1)
         /\ received'[w] \in [Index -> Nat \cup {Garbage}]
<1>1. /\ mail[w] # <<>> /\ Head(mail[w]).data # InTransit
      /\ received' = [received EXCEPT ![w] = Head(mail[w]).data]
      /\ simulated' = [simulated EXCEPT ![w] = @ + BatchSize]
      /\ mail' = [mail EXCEPT ![w] = Tail(@)]
      /\ UNCHANGED <<made, batch, writeIdx, current, openRequest, pc, shard, replica,
                     sends>>
  BY DEF Receive, coordVars
<1>2. /\ w \in Ranks /\ w \in Shards /\ mail \in [Ranks -> Seq(Messages)]
      /\ simulated \in [Workers -> Nat]
  BY <1>1, Geometry DEF IInv, Addressed, TypeOK
<1> DEFINE n == Len(mail[w])
<1>3. mail[w] \in Seq(Messages) /\ n \in Nat /\ n # 0
  BY <1>1, <1>2, EmptySeq, LenProperties
<1>4. /\ Head(mail[w]) = mail[w][1]
      /\ Tail(mail[w]) \in Seq(Messages) /\ Len(Tail(mail[w])) = n - 1
      /\ \A k \in 1 .. n - 1 : Tail(mail[w])[k] = mail[w][k + 1]
  BY <1>1, <1>3, HeadTailProperties
<1>5. /\ mail' \in [Ranks -> Seq(Messages)]
      /\ Len(mail'[w]) = n - 1
      /\ \A k \in 1 .. n - 1 : mail'[w][k] = mail[w][k + 1]
      /\ \A t \in Ranks : t # w => mail'[t] = mail[t]
  BY <1>1, <1>2, <1>4
<1>6. \A t \in Shards : t \in Ranks /\ t \in Workers
  BY Geometry
<1>7. \A t \in Workers : simulated'[t] = IF t = w THEN simulated[w] + BatchSize
                                          ELSE simulated[t]
  BY <1>1, <1>2
<1> HIDE DEF n
<1>8. mail[w][1] \in Messages /\ mail[w][1].data \in [Index -> Nat \cup {Garbage}]
      /\ 1 \in 1 .. n
  <2>1. 1 \in 1 .. n
    BY <1>3
  <2>2. mail[w][1] \in Messages
    BY <1>2, <2>1, Typing DEF n
  <2> QED
    BY <1>1, <1>4, <2>1, <2>2 DEF Messages, InTransit
<1>9. \A i \in Index : received'[w][i] = simulated[w] + (i - 1)
  <2> SUFFICES ASSUME NEW i \in Index PROVE received'[w][i] = simulated[w] + (i - 1)
    OBVIOUS
  <2>1. received'[w] = mail[w][1].data
    BY <1>1, <1>4 DEF IInv, TypeOK
  <2>2. Contents(mail[w][1]) = mail[w][1].data
    BY <1>1, <1>4 DEF Contents
  <2>3. Contents(mail[w][1])[i] = simulated[w] + Times(1 - 1) + (i - 1)
    BY <1>2, <1>8 DEF IInv, MailInOrder, n
  <2>4. Times(1 - 1) = 0
    BY TimesSteps
  <2>5. simulated[w] \in Nat
    BY <1>2
  <2> QED
    BY <2>1, <2>2, <2>3, <2>4, <2>5
<1>10. TypeOK'
  <2>1. simulated[w] + BatchSize \in Nat
    BY <1>2, Geometry
  <2>2. simulated' \in [Workers -> Nat]
    BY <1>1, <1>2, <2>1
  <2>3. received' \in [Workers -> {<<>>} \cup [Index -> Nat \cup {Garbage}]]
    BY <1>1, <1>4, <1>8 DEF IInv, TypeOK
  <2> QED
    BY <1>1, <1>5, <2>2, <2>3 DEF IInv, TypeOK
<1>11. received'[w] \in [Index -> Nat \cup {Garbage}]
  BY <1>1, <1>4, <1>8 DEF IInv, TypeOK
<1>12. Addressed'
  <2>1. \A r \in Ranks : mail'[r] # <<>> => r \in Shards
    BY <1>2, <1>5 DEF IInv, Addressed
  <2>2. ASSUME NEW t \in Shards, NEW k \in 1 .. Len(mail'[t])
        PROVE  mail'[t][k].shard = t /\ mail'[t][k].number \in 1 .. sends'
    <3>1. CASE t = w
      <4>1. k \in 1 .. n - 1 /\ k + 1 \in 1 .. n
        BY <1>3, <1>5, <3>1
      <4> QED
        BY <1>1, <1>2, <1>5, <3>1, <4>1 DEF IInv, Addressed, n
    <3>2. CASE t # w
      BY <1>1, <1>5, <1>6, <3>2 DEF IInv, Addressed
    <3> QED
      BY <3>1, <3>2
  <2> QED
    BY <2>1, <2>2 DEF Addressed
<1>13. MailInOrder'
  <2> SUFFICES ASSUME NEW t \in Shards, NEW k \in 1 .. Len(mail'[t]), NEW i \in Index
               PROVE  Contents(mail[t][k])'[i] = simulated'[t] + Times(k - 1) + (i - 1)
    BY DEF MailInOrder
  <2>1. CASE t = w
    <3>1. k \in 1 .. n - 1 /\ k + 1 \in 1 .. n /\ k \in Nat
      BY <1>3, <1>5, <2>1
    <3>2. Contents(mail[t][k])' = Contents(mail[w][k + 1])
      BY <1>1, <1>5, <2>1, <3>1 DEF Contents
    <3>3. Contents(mail[w][k + 1])[i] = simulated[w] + Times((k + 1) - 1) + (i - 1)
      BY <1>2, <3>1 DEF IInv, MailInOrder, n
    <3>4. (k + 1) - 1 = k /\ k - 1 \in Nat /\ (k - 1) + 1 = k
      BY <3>1
    <3>5. Times(k) = Times(k - 1) + BatchSize /\ Times(k - 1) \in Nat
      BY <3>4, TimesSteps
    <3>6. /\ simulated[w] \in Nat /\ BatchSize \in Nat /\ i \in Int
          /\ simulated'[t] = simulated[w] + BatchSize
      BY <1>2, <1>7, <2>1, Geometry DEF Index
    <3>7. Contents(mail[t][k])'[i] = simulated[w] + Times(k) + (i - 1)
      BY <3>2, <3>3, <3>4
    <3> QED
      BY <3>5, <3>6, <3>7
  <2>2. CASE t # w
    <3>1. k \in 1 .. Len(mail[t]) /\ simulated'[t] = simulated[t]
      BY <1>5, <1>6, <1>7, <2>2
    <3>2. Contents(mail[t][k])' = Contents(mail[t][k])
      BY <1>1, <1>5, <1>6, <2>2 DEF Contents
    <3> QED
      BY <3>1, <3>2 DEF IInv, MailInOrder
  <2> QED
    BY <2>1, <2>2
<1>14. BatchInOrder' /\ Position'
  BY <1>1 DEF IInv, BatchInOrder, Position, Full
<1>15. AllCounted'
  <2> SUFFICES ASSUME NEW t \in Shards
               PROVE  made[t] = simulated'[t] + Times(Len(mail'[t])) + writeIdx[t]
    BY <1>1 DEF AllCounted
  <2>1. made[t] = simulated[t] + Times(Len(mail[t])) + writeIdx[t]
    BY DEF IInv, AllCounted
  <2>2. CASE t = w
    <3>1. n - 1 \in Nat /\ (n - 1) + 1 = n
      BY <1>3
    <3>2. Times(n) = Times(n - 1) + BatchSize /\ Times(n - 1) \in Nat
      BY <3>1, TimesSteps
    <3>3. simulated[w] \in Nat /\ BatchSize \in Nat /\ writeIdx[t] \in Nat
      BY <1>2, Typing, Geometry
    <3>4. Times(Len(mail'[t])) = Times(n - 1) /\ simulated'[t] = simulated[w] + BatchSize
      BY <1>2, <1>5, <1>7, <2>2
    <3>5. made[t] = simulated[w] + Times(n) + writeIdx[t]
      BY <2>1, <2>2 DEF n
    <3> QED
      BY <3>2, <3>3, <3>4, <3>5
  <2>3. CASE t # w
    BY <1>5, <1>6, <1>7, <2>1, <2>3
  <2> QED
    BY <2>2, <2>3
<1>16. Transit'
  <2> SUFFICES ASSUME NEW t \in Shards, NEW k \in 1 .. Len(mail'[t]),
                      mail'[t][k].data = InTransit
               PROVE  /\ mail'[t][k].number = openRequest[t]
                      /\ mail'[t][k].half = 1 - current[t]
                      /\ ~(t = shard /\ pc = "send" /\ replica = 0)
    BY <1>1 DEF Transit
  <2>1. CASE t = w
    <3>1. k \in 1 .. n - 1 /\ k + 1 \in 1 .. n
      BY <1>3, <1>5, <2>1
    <3> QED
      BY <1>2, <1>5, <2>1, <3>1 DEF IInv, Transit, n
  <2>2. CASE t # w
    BY <1>5, <1>6, <2>2 DEF IInv, Transit
  <2> QED
    BY <2>1, <2>2
<1> QED
  BY <1>2, <1>9, <1>10, <1>11, <1>12, <1>13, <1>14, <1>15, <1>16 DEF IInv

LEMMA NextInv == OneReplica /\ IInv /\ [Next]_vars => IInv'
<1> SUFFICES ASSUME OneReplica, IInv, [Next]_vars PROVE IInv'
  OBVIOUS
<1>1. CASE UNCHANGED vars
  <2>1. UNCHANGED <<made, batch, writeIdx, current, openRequest, pc, shard, replica,
                    sends, mail, simulated, received>>
    BY <1>1 DEF vars, coordVars, workerVars
  <2>2. TypeOK' /\ Position' /\ AllCounted'
    BY <2>1 DEF IInv, TypeOK, Position, Full, AllCounted
  <2>3. Addressed' /\ MailInOrder'
    BY <2>1 DEF IInv, Addressed, MailInOrder, Contents
  <2>4. BatchInOrder' /\ Transit'
    BY <2>1 DEF IInv, BatchInOrder, Transit
  <2> QED
    BY <2>2, <2>3, <2>4 DEF IInv
<1>2. CASE \E line \in Lines : Store(line)
  BY <1>2, StoreStep
<1>3. CASE Wait
  BY <1>3, WaitStep
<1>4. CASE Send
  BY <1>4, SendStep
<1>5. CASE Sent
  BY <1>5, SentStep
<1>6. CASE Stop
  BY <1>6, StopStep
<1>7. CASE \E r \in Ranks : \E k \in DOMAIN mail[r] : Take(r, k)
  BY <1>7, TakeStep
<1>8. CASE \E w \in Workers : Receive(w)
  BY <1>8, ReceiveStep
<1> QED
  BY <1>1, <1>2, <1>3, <1>4, <1>5, <1>6, <1>7, <1>8 DEF Next, Coordinate

LEMMA Invariance == OneReplica => (Spec => []IInv)
<1>1. ASSUME OneReplica PROVE Spec => []IInv
  <2>1. Init => IInv
    BY <1>1, InitInv
  <2>2. IInv /\ [Next]_vars => IInv'
    BY <1>1, NextInv
  <2> QED
    BY <2>1, <2>2, PTL DEF Spec
<1> QED
  BY <1>1

--------------------------------------------------------------------------------

\* The worker buffers, the mail and the workers keep their types (TypeOK).
THEOREM TypeCorrect == OneReplica => (Spec => []TypeOK)
<1>1. IInv => TypeOK
  BY DEF IInv
<1> QED
  BY <1>1, Invariance, PTL

\* No store of process_cache_access (coordinator.c 62-73) falls outside the
\* worker buffers, for any workload: a full batch is always reset before the
\* next store into it.
THEOREM StoresStayInBounds == OneReplica => (Spec => []StoresInBounds)
<1>1. IInv => StoresInBounds
  BY DEF IInv, Position, StoresInBounds
<1> QED
  BY <1>1, Invariance, PTL

\* The coordinator (coordinator.c 77-98) never fills a batch MPI is reading.
THEOREM BatchesInTransitAreIntact == OneReplica => (Spec => []NoWriteInTransit)
<1>1. ASSUME OneReplica, IInv PROVE NoWriteInTransit
  <2> SUFFICES ASSUME NEW r \in Ranks, NEW k \in DOMAIN mail[r],
                      mail[r][k].data = InTransit
               PROVE  mail[r][k].half # current[mail[r][k].shard]
    BY DEF NoWriteInTransit
  <2>1. mail[r] \in Seq(Messages)
    BY <1>1 DEF IInv, TypeOK
  <2>2. k \in 1 .. Len(mail[r]) /\ mail[r] # <<>>
    BY <2>1, LenProperties
  <2>3. r \in Shards
    BY <1>1, <2>2 DEF IInv, Addressed
  <2>4. mail[r][k].shard = r /\ mail[r][k].half = 1 - current[r] /\ current[r] \in {0, 1}
    BY <1>1, <2>2, <2>3, Typing DEF IInv, Transit
  <2> QED
    BY <2>4
<1>2. ASSUME OneReplica PROVE Spec => []NoWriteInTransit
  <2>1. IInv => NoWriteInTransit
    BY <1>1, <1>2
  <2> QED
    BY <1>2, <2>1, Invariance, PTL
<1> QED
  BY <1>2

\* Each worker simulates the accesses of its shard once each and in trace order
\* (run_worker, worker.c 90-110; process_cache_access, coordinator.c 60-105).
THEOREM WorkersSimulateInOrder == OneReplica => (Spec => WorkersInOrder)
<1> DEFINE Step == \A w \in Workers :
                     \/ WorkerStream(simulated[w], received[w])!Next
                     \/ UNCHANGED <<simulated[w], received[w]>>
<1>1. ASSUME OneReplica, IInv, [Next]_vars PROVE Step \/ UNCHANGED vars
  <2>1. CASE \E w \in Workers : Receive(w)
    <3> PICK w \in Workers : Receive(w)
      BY <2>1
    <3>1. /\ received' = [received EXCEPT ![w] = Head(mail[w]).data]
          /\ simulated' = [simulated EXCEPT ![w] = @ + BatchSize]
      BY DEF Receive
    <3>2. \A t \in Workers : t # w => UNCHANGED <<simulated[t], received[t]>>
      BY <1>1, <3>1 DEF IInv, TypeOK
    <3>3. /\ \A i \in Index : received'[w][i] = simulated[w] + (i - 1)
          /\ received'[w] \in [Index -> Nat \cup {Garbage}]
      BY <1>1, ReceiveStep
    <3>4. \A i \in Index : simulated[w] + (i - 1) = simulated[w] + i - 1
      BY <1>1, Geometry DEF Index, IInv, TypeOK
    <3>5. received'[w] = [i \in 1 .. BatchSize |-> simulated[w] + i - 1]
      BY <3>3, <3>4 DEF Index
    <3>6. simulated'[w] = simulated[w] + BatchSize
      BY <1>1, <3>1 DEF IInv, TypeOK
    <3>7. WorkerStream(simulated[w], received[w])!Next
      BY <3>5, <3>6 DEF WorkerStream!Next, WorkerStream!Read, WorkerStream!Items
    <3> QED
      BY <3>2, <3>7
  <2>2. CASE UNCHANGED workerVars
    BY <2>2 DEF workerVars
  <2> QED
    BY <1>1, <2>1, <2>2
       DEF Next, Coordinate, Store, IsFull, Wait, Free, Send, Swapped, Sent, Stop, Take, vars
<1>2. ASSUME OneReplica PROVE Spec => WorkersInOrder
  <2>1. IInv /\ [Next]_vars => [Step]_vars
    BY <1>1, <1>2
  <2> HIDE DEF Step
  <2>2. [][Next]_vars /\ []IInv => [][Step]_vars
    BY <2>1, PTL
  <2>3. Spec => [][Step]_vars
    BY <1>2, <2>2, Invariance, PTL DEF Spec
  <2> QED
    BY <2>3 DEF WorkersInOrder, Step
<1> QED
  BY <1>2
================================================================================
