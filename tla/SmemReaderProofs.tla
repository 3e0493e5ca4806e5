---------------------------- MODULE SmemReaderProofs ----------------------------
(***************************************************************************)
(* The shared memory reader implements the in-order stream, and reader and *)
(* writer never wait for each other, for every buffer size, every set of   *)
(* read sizes up to it and every trace.                                    *)
(***************************************************************************)
EXTENDS SmemReader, TLAPS, SequenceTheorems

Bytes(p, n) == Stream!Items(p, n)

\* The buffer the reader takes next, and the position of its first byte.
NextBuf == IF pc = "setup" THEN 1 ELSE Other(current)
Waiting == (IF readSem[1] = 0 THEN 0 ELSE BufSize) + (IF readSem[2] = 0 THEN 0 ELSE BufSize)
Front   == published - Waiting

Holding     == pc \notin {"setup", "wait"}
Holds(b)    == IF Holding /\ current = b THEN 1 ELSE 0
Writes(b)   == IF writing /\ writeBuf = b THEN 1 ELSE 0

\* A buffer is free, full, with the writer or with the reader.
OneOwner ==
  \A b \in Bufs : writeSem[b] + readSem[b] + Writes(b) + Holds(b) = 1

\* The buffers are filled and read in turn.
Turns ==
  /\ pc = "setup" => current = 1
  /\ ~writing => filled = 0
  /\ readSem[Other(NextBuf)] # 0 => readSem[NextBuf] # 0
  /\ writeBuf = NextBuf <=> (readSem[1] = 0 <=> readSem[2] = 0)

\* Full buffers and the one being read hold consecutive pieces of the trace.
Contents ==
  /\ readSem[NextBuf] # 0 => \A i \in Offsets : buf[NextBuf][i] = Front + i
  /\ readSem[Other(NextBuf)] # 0 =>
       \A i \in Offsets : buf[Other(NextBuf)][i] = Front + BufSize + i
  /\ Holding => \A i \in Offsets : buf[current][i] = Front - BufSize + i
  /\ \A i \in 0 .. filled - 1 : buf[writeBuf][i] = published + i

\* Where the call stands in the trace.
InCall ==
  /\ Front \in Nat
  /\ pc = "setup" => Front = 0 /\ consumed = 0 /\ readIdx = 0
  /\ pc # "setup" => Front - BufSize \in Nat
  /\ pc \notin {"setup", "idle"} => size \in Sizes
  /\ pc \in {"idle", "copy", "release", "wait"} => consumed = Front - BufSize + readIdx
  /\ pc \in {"release", "wait"} => /\ size > BufSize - readIdx
                                   /\ result = Bytes(consumed, BufSize - readIdx)
  /\ pc = "rest" => /\ readIdx \in 1 .. size
                    /\ consumed + (size - readIdx) = Front - BufSize
                    /\ result = Bytes(consumed, size - readIdx)

IInv == TypeOK /\ OneOwner /\ Turns /\ Contents /\ InCall

--------------------------------------------------------------------------------

\* Pieces of the trace are sequences, and consecutive pieces join up.
LEMMA BytesAreSequences ==
  ASSUME NEW p \in Nat, NEW n \in Nat
  PROVE  Bytes(p, n) \in Seq(Nat) /\ Len(Bytes(p, n)) = n
BY DEF Bytes, Stream!Items

LEMMA BytesJoin ==
  ASSUME NEW p \in Nat, NEW m \in Nat, NEW n \in Nat
  PROVE  Bytes(p, m) \o Bytes(p + m, n) = Bytes(p, m + n)
<1>1. p + m \in Nat
  OBVIOUS
<1>2. /\ Bytes(p, m) \in Seq(Nat) /\ Len(Bytes(p, m)) = m
      /\ Bytes(p + m, n) \in Seq(Nat) /\ Len(Bytes(p + m, n)) = n
      /\ Bytes(p, m + n) \in Seq(Nat) /\ Len(Bytes(p, m + n)) = m + n
  BY <1>1, BytesAreSequences
<1>3. ASSUME NEW k \in 1 .. m + n
      PROVE  (Bytes(p, m) \o Bytes(p + m, n))[k] = Bytes(p, m + n)[k]
  BY <1>2 DEF Bytes, Stream!Items
<1>4. Bytes(p, m) \o Bytes(p + m, n) \in Seq(Nat)
  BY <1>2
<1>5. Len(Bytes(p, m) \o Bytes(p + m, n)) = m + n
  <2>1. Bytes(p, m) \in Seq(Nat) /\ Len(Bytes(p, m)) = m
    BY <1>2
  <2>2. Bytes(p + m, n) \in Seq(Nat) /\ Len(Bytes(p + m, n)) = n
    BY <1>2
  <2> QED
    BY SMTT(30), <2>1, <2>2
<1> HIDE DEF Bytes
<1> QED
  BY <1>2, <1>3, <1>4, <1>5, SeqEqual

\* What is copied out of the buffer being read is a piece of the trace.
LEMMA CopiedBytes ==
  ASSUME IInv, Holding, NEW i \in Nat, NEW n \in Nat, i + n <= BufSize
  PROVE  Copied(i, n) = Bytes(Front - BufSize + i, n)
<1>1. \A k \in 1 .. n : i + k - 1 \in Offsets
  BY SmemAssumption DEF Offsets
<1>2. \A k \in 1 .. n : buf[current][i + k - 1] = Front - BufSize + (i + k - 1)
  BY <1>1 DEF IInv, Contents
<1>3. Front - BufSize \in Nat
  BY DEF IInv, InCall, Holding
<1> DEFINE base == Front - BufSize
<1> HIDE DEF base
<1>4. base \in Nat /\ \A k \in 1 .. n : buf[current][i + k - 1] = base + i + k - 1
  BY <1>2, <1>3, SmemAssumption DEF base
<1>5. Copied(i, n) = Bytes(base + i, n)
  BY <1>4 DEF Copied, Bytes, Stream!Items
<1> QED
  BY <1>5 DEF base

LEMMA InitInv == Init => IInv
<1> SUFFICES ASSUME Init PROVE IInv
  OBVIOUS
<1>1. Waiting = 0 /\ Front = 0 /\ NextBuf = 1 /\ Other(1) = 2 /\ Bufs = {1, 2}
  BY DEF Init, Waiting, Front, NextBuf, Other, Bufs
<1>2. TypeOK
  BY SmemAssumption DEF Init, TypeOK, Bufs, Offsets, Blank
<1>3. OneOwner /\ Turns
  BY <1>1 DEF Init, OneOwner, Turns, Writes, Holds, Holding
<1>4. Contents /\ InCall
  BY <1>1 DEF Init, Contents, InCall, Holding
<1> QED
  BY <1>2, <1>3, <1>4 DEF IInv

--------------------------------------------------------------------------------
\* The writer.

LEMMA TakeStep == IInv /\ TakeBuffer => IInv'
<1> SUFFICES ASSUME IInv, TakeBuffer PROVE IInv'
  OBVIOUS
<1> USE DEF IInv, TakeBuffer, callVars, returnVars
<1>1. Front' = Front /\ NextBuf' = NextBuf /\ Holding' = Holding /\ Other(NextBuf)' = Other(NextBuf)
  BY DEF Front, Waiting, NextBuf, Holding, Other
<1>2. /\ writeSem'[writeBuf] = writeSem[writeBuf] - 1
      /\ \A b \in Bufs \ {writeBuf} : writeSem'[b] = writeSem[b]
      /\ writeSem' \in [Bufs -> Nat]
  BY DEF TypeOK
<1>3. TypeOK'
  BY <1>2 DEF TypeOK
<1>4. OneOwner'
  <2>1. ASSUME NEW b \in Bufs
        PROVE  writeSem'[b] + readSem[b] + Writes(b)' + Holds(b)' = 1
    <3>1. Holds(b)' = Holds(b)
      BY <1>1 DEF Holds
    <3>2. Holds(b) \in 0 .. 1 /\ readSem[b] \in Nat /\ writeSem[b] \in Nat
      BY DEF Holds, TypeOK
    <3>3. writeSem[b] + readSem[b] + Writes(b) + Holds(b) = 1
      BY DEF OneOwner
    <3>4. CASE b = writeBuf
      BY <1>2, <3>1, <3>2, <3>3, <3>4 DEF Writes
    <3>5. CASE b # writeBuf
      BY <1>2, <3>1, <3>2, <3>3, <3>5 DEF Writes
    <3> QED
      BY <3>4, <3>5
  <2> QED
    BY <2>1 DEF OneOwner
<1>5. Turns'
  BY <1>1 DEF Turns
<1>6. Contents' /\ InCall'
  BY <1>1 DEF Contents, InCall
<1> QED
  BY <1>3, <1>4, <1>5, <1>6

LEMMA WriteStep == IInv /\ WriteByte => IInv'
<1> SUFFICES ASSUME IInv, WriteByte PROVE IInv'
  OBVIOUS
<1> USE DEF IInv, WriteByte, callVars, returnVars
<1>1. Front' = Front /\ NextBuf' = NextBuf /\ Holding' = Holding /\ Other(NextBuf)' = Other(NextBuf)
  BY DEF Front, Waiting, NextBuf, Holding, Other
<1>2. /\ buf'[writeBuf] = [buf[writeBuf] EXCEPT ![filled] = published + filled]
      /\ \A b \in Bufs \ {writeBuf} : buf'[b] = buf[b]
      /\ filled \in Offsets
  BY SmemAssumption DEF TypeOK, Offsets
<1>3. TypeOK'
  BY <1>2, SmemAssumption DEF TypeOK
<1>4. OneOwner' /\ Turns'
  BY <1>1 DEF OneOwner, Turns, Writes, Holds
<1>5. readSem[writeBuf] = 0 /\ Holds(writeBuf) = 0
  <2>1. readSem[writeBuf] \in Nat /\ writeSem[writeBuf] \in Nat /\ Holds(writeBuf) \in 0 .. 1
    BY DEF Holds, TypeOK
  <2>2. Writes(writeBuf) = 1
    BY DEF Writes
  <2>3. writeSem[writeBuf] + readSem[writeBuf] + Writes(writeBuf) + Holds(writeBuf) = 1
    BY DEF OneOwner, TypeOK
  <2> QED
    BY <2>1, <2>2, <2>3
<1>6. Contents'
  <2>1. NextBuf \in Bufs /\ Other(NextBuf) \in Bufs
    BY DEF TypeOK, NextBuf, Other, Bufs
  <2>2. /\ readSem[NextBuf] # 0 => buf'[NextBuf] = buf[NextBuf]
        /\ readSem[Other(NextBuf)] # 0 => buf'[Other(NextBuf)] = buf[Other(NextBuf)]
        /\ Holding => buf'[current] = buf[current]
    BY <1>2, <1>5, <2>1 DEF Holds, TypeOK
  <2>3. \A i \in 0 .. filled' - 1 : buf'[writeBuf][i] = published + i
    <3>1. \A i \in 0 .. filled' - 1 : i \in Offsets /\ (i = filled \/ i \in 0 .. filled - 1)
      <4>1. filled \in 0 .. BufSize - 1 /\ filled' = filled + 1 /\ BufSize \in Nat
        BY <1>2, SmemAssumption DEF Offsets
      <4> QED
        BY <4>1 DEF Offsets
    <3>2. buf[writeBuf] \in [Offsets -> Nat \cup {Blank}]
      BY DEF TypeOK
    <3> QED
      BY <1>2, <3>1, <3>2 DEF Contents
  <2> QED
    BY <1>1, <2>2, <2>3 DEF Contents
<1>7. InCall'
  BY <1>1 DEF InCall
<1> QED
  BY <1>3, <1>4, <1>6, <1>7

LEMMA PublishStep == IInv /\ Publish => IInv'
<1> SUFFICES ASSUME IInv, Publish PROVE IInv'
  OBVIOUS
<1> USE DEF IInv, Publish, callVars, returnVars
<1>1. NextBuf' = NextBuf /\ Holding' = Holding /\ Other(NextBuf)' = Other(NextBuf)
  BY DEF NextBuf, Holding, Other
<1>2. /\ NextBuf \in Bufs /\ Other(NextBuf) \in Bufs /\ NextBuf # Other(NextBuf)
      /\ Other(Other(NextBuf)) = NextBuf /\ Bufs = {NextBuf, Other(NextBuf)}
      /\ Bufs = {1, 2} /\ writeBuf \in Bufs /\ BufSize \in Nat \ {0}
      /\ published \in Nat /\ readSem \in [Bufs -> Nat] /\ readSem' \in [Bufs -> Nat]
  BY SmemAssumption DEF TypeOK, NextBuf, Other, Bufs
<1>3. readSem[writeBuf] = 0 /\ readSem'[writeBuf] = 1 /\ Holds(writeBuf) = 0
      /\ writeSem[writeBuf] = 0 /\ \A b \in Bufs \ {writeBuf} : readSem'[b] = readSem[b]
  <2>1. readSem[writeBuf] \in Nat /\ writeSem[writeBuf] \in Nat /\ Holds(writeBuf) \in 0 .. 1
    BY DEF Holds, TypeOK
  <2>2. Writes(writeBuf) = 1
    BY DEF Writes
  <2>3. writeSem[writeBuf] + readSem[writeBuf] + Writes(writeBuf) + Holds(writeBuf) = 1
    BY <1>2 DEF OneOwner
  <2>4. readSem[writeBuf] = 0 /\ writeSem[writeBuf] = 0 /\ Holds(writeBuf) = 0
    BY <2>1, <2>2, <2>3
  <2> QED
    BY <1>2, <2>4
<1>4. Waiting' = Waiting + BufSize /\ Front' = Front
  <2>1. Waiting' = Waiting + BufSize
    <3>1. CASE writeBuf = 1
      BY <1>2, <1>3, <3>1 DEF Waiting
    <3>2. CASE writeBuf = 2
      BY <1>2, <1>3, <3>2 DEF Waiting
    <3> QED
      BY <1>2, <3>1, <3>2
  <2>2. Waiting \in Nat
    BY <1>2 DEF Waiting
  <2> QED
    BY <1>2, <2>1, <2>2 DEF Front
<1>5. TypeOK'
  <2>1. published' \in Nat /\ Other(writeBuf) \in Bufs /\ 0 \in 0 .. BufSize
    BY <1>2 DEF Other
  <2> QED
    BY <1>2, <2>1 DEF TypeOK
<1>6. OneOwner'
  <2>1. ASSUME NEW b \in Bufs
        PROVE  writeSem[b] + readSem'[b] + Writes(b)' + Holds(b)' = 1
    <3>1. Holds(b)' = Holds(b) /\ Writes(b)' = 0
      BY <1>1 DEF Holds, Writes
    <3>2. Holds(b) \in 0 .. 1 /\ readSem[b] \in Nat /\ writeSem[b] \in Nat
      BY DEF Holds, TypeOK
    <3>3. writeSem[b] + readSem[b] + Writes(b) + Holds(b) = 1
      BY DEF OneOwner
    <3>4. CASE b = writeBuf
      BY <1>3, <3>1, <3>4
    <3>5. CASE b # writeBuf
      BY <1>3, <3>1, <3>2, <3>3, <3>5 DEF Writes
    <3> QED
      BY <3>4, <3>5
  <2> QED
    BY <2>1 DEF OneOwner
<1>7. CASE writeBuf = NextBuf
  <2>1. readSem[NextBuf] = 0 /\ readSem[Other(NextBuf)] = 0
    BY <1>3, <1>7 DEF Turns
  <2>2. Waiting = 0 /\ Front = published
    <3>1. readSem[1] = 0 /\ readSem[2] = 0
      BY <1>2, <2>1
    <3> QED
      BY <1>2, <3>1 DEF Waiting, Front
  <2>3. readSem'[NextBuf] # 0 /\ readSem'[Other(NextBuf)] = 0
    BY <1>2, <1>3, <1>7, <2>1
  <2>4. Turns'
    BY <1>1, <1>2, <1>7, <2>3 DEF Turns
  <2>5. Contents'
    BY <1>1, <1>4, <1>7, <2>2, <2>3 DEF Contents, Offsets
  <2> QED
    BY <1>1, <1>4, <1>5, <1>6, <2>4, <2>5 DEF InCall
<1>8. CASE writeBuf = Other(NextBuf)
  <2>1. readSem[NextBuf] # 0 /\ readSem[Other(NextBuf)] = 0
    BY <1>2, <1>3, <1>8 DEF Turns
  <2>2. Waiting = BufSize /\ Front + BufSize = published
    BY <1>2, <2>1 DEF Waiting, Front
  <2>3. readSem'[NextBuf] # 0 /\ readSem'[Other(NextBuf)] # 0
    BY <1>2, <1>3, <1>8, <2>1
  <2>4. Turns'
    BY <1>1, <1>2, <1>8, <2>3 DEF Turns
  <2>5. Contents'
    BY <1>1, <1>4, <1>8, <2>1, <2>2, <2>3 DEF Contents, Offsets
  <2> QED
    BY <1>1, <1>4, <1>5, <1>6, <2>4, <2>5 DEF InCall
<1> QED
  BY <1>2, <1>7, <1>8

--------------------------------------------------------------------------------
\* The reader.

\* Taking the next buffer keeps the buffers in turn and moves on by one buffer.
LEMMA BufferTaken ==
  ASSUME IInv, ~Holding, readSem[NextBuf] > 0,
         readSem' = [readSem EXCEPT ![NextBuf] = @ - 1],
         current' = NextBuf, pc' \notin {"setup", "wait"},
         UNCHANGED <<writeSem, buf, writerVars>>
  PROVE  /\ OneOwner' /\ Turns' /\ Contents'
         /\ Front' = Front + BufSize
         /\ readSem' \in [Bufs -> Nat] /\ current' \in Bufs
<1>1. /\ NextBuf \in Bufs /\ Other(NextBuf) \in Bufs /\ NextBuf # Other(NextBuf)
      /\ Other(Other(NextBuf)) = NextBuf /\ Bufs = {NextBuf, Other(NextBuf)}
      /\ Bufs = {1, 2} /\ writeBuf \in Bufs /\ BufSize \in Nat \ {0}
      /\ published \in Nat /\ readSem \in [Bufs -> Nat] /\ readSem' \in [Bufs -> Nat]
  BY SmemAssumption DEF IInv, TypeOK, NextBuf, Other, Bufs
<1>2. NextBuf' = Other(NextBuf) /\ Holding' /\ Other(NextBuf)' = NextBuf
  BY <1>1 DEF NextBuf, Holding, Other
<1>3. /\ readSem[NextBuf] = 1 /\ Writes(NextBuf) = 0 /\ writeSem[NextBuf] = 0
  <2>1. writeSem[NextBuf] + readSem[NextBuf] + Writes(NextBuf) + Holds(NextBuf) = 1
    BY <1>1 DEF IInv, OneOwner
  <2>2. Holds(NextBuf) = 0 /\ Writes(NextBuf) \in 0 .. 1
    BY DEF Holds, Writes
  <2>3. writeSem[NextBuf] \in Nat /\ readSem[NextBuf] \in Nat
    BY <1>1 DEF IInv, TypeOK
  <2> QED
    BY <2>1, <2>2, <2>3
<1>4. readSem'[NextBuf] = 0 /\ readSem'[Other(NextBuf)] = readSem[Other(NextBuf)]
  BY <1>1, <1>3
<1>5. Front' = Front + BufSize
  <2>1. Waiting = Waiting' + BufSize
    <3>1. CASE NextBuf = 1
      BY <1>1, <1>3, <1>4, <3>1 DEF Waiting, Other
    <3>2. CASE NextBuf = 2
      BY <1>1, <1>3, <1>4, <3>2 DEF Waiting, Other
    <3> QED
      BY <1>1, <3>1, <3>2
  <2>2. Waiting \in Nat /\ Waiting' \in Nat
    BY <1>1 DEF Waiting
  <2> QED
    BY <1>1, <2>1, <2>2 DEF Front, writerVars
<1>6. OneOwner'
  <2>1. ASSUME NEW b \in Bufs
        PROVE  writeSem[b] + readSem'[b] + Writes(b)' + Holds(b)' = 1
    <3>1. writeSem[b] + readSem[b] + Writes(b) + Holds(b) = 1 /\ Writes(b)' = Writes(b)
      BY DEF IInv, OneOwner, Writes, writerVars
    <3>2. CASE b = NextBuf
      <4>1. Holds(b)' = 1
        BY <1>2, <3>2 DEF Holds
      <4> QED
        BY <1>3, <1>4, <3>1, <3>2, <4>1
    <3>3. CASE b # NextBuf
      <4>1. Holds(b)' = 0 /\ Holds(b) = 0
        BY <1>2, <3>3 DEF Holds
      <4>2. readSem'[b] = readSem[b]
        BY <1>1, <3>3
      <4> QED
        BY <3>1, <4>1, <4>2
    <3> QED
      BY <3>2, <3>3
  <2> QED
    BY <2>1 DEF OneOwner, writerVars
<1>7. Turns'
  <2>1. writeBuf = NextBuf <=> readSem[Other(NextBuf)] # 0
    <3>1. (readSem[1] = 0 <=> readSem[2] = 0) <=> readSem[Other(NextBuf)] # 0
      BY <1>1, <1>3
    <3>2. writeBuf = NextBuf <=> (readSem[1] = 0 <=> readSem[2] = 0)
      BY DEF IInv, Turns
    <3> QED
      BY <3>1, <3>2
  <2>2. (readSem'[1] = 0 <=> readSem'[2] = 0) <=> readSem'[Other(NextBuf)] = 0
    BY <1>1, <1>4
  <2>3. writeBuf' = NextBuf' <=> (readSem'[1] = 0 <=> readSem'[2] = 0)
    BY <1>1, <1>2, <1>4, <2>1, <2>2 DEF writerVars
  <2>4. ~writing' => filled' = 0
    BY DEF IInv, Turns, writerVars
  <2> QED
    BY <1>2, <1>4, <2>3, <2>4 DEF Turns
<1>8. Contents'
  <2>0. Front \in Nat
    BY DEF IInv, InCall
  <2>1. \A i \in Offsets : i \in Nat /\ (Front + BufSize) - BufSize + i = Front + i
    BY <1>1, <2>0 DEF Offsets
  <2>2. readSem'[NextBuf'] # 0 => \A i \in Offsets : buf'[NextBuf'][i] = Front' + i
    BY <1>2, <1>4, <1>5 DEF IInv, Contents
  <2>3. readSem'[Other(NextBuf)'] = 0
    BY <1>2, <1>4
  <2>4. \A i \in Offsets : buf'[current'][i] = Front' - BufSize + i
    BY <1>3, <1>5, <2>1 DEF IInv, Contents
  <2>5. \A i \in 0 .. filled' - 1 : buf'[writeBuf'][i] = published' + i
    BY DEF IInv, Contents, writerVars
  <2> QED
    BY <2>2, <2>3, <2>4, <2>5 DEF Contents
<1> QED
  BY <1>1, <1>5, <1>6, <1>7, <1>8

LEMMA AcquireFirstStep == IInv /\ AcquireFirst => IInv'
<1> SUFFICES ASSUME IInv, AcquireFirst PROVE IInv'
  OBVIOUS
<1> USE DEF AcquireFirst, callVars, returnVars
<1>1. NextBuf = 1 /\ current = 1 /\ ~Holding /\ pc' = "idle"
  BY DEF IInv, Turns, NextBuf, Holding
<1>2. /\ OneOwner' /\ Turns' /\ Contents' /\ Front' = Front + BufSize
      /\ readSem' \in [Bufs -> Nat] /\ current' \in Bufs
  BY <1>1, BufferTaken
<1>3. TypeOK'
  BY <1>2 DEF IInv, TypeOK, writerVars
<1>4. Front = 0 /\ consumed = 0 /\ readIdx = 0 /\ BufSize \in Nat
  BY SmemAssumption DEF IInv, InCall
<1>5. InCall'
  BY <1>1, <1>2, <1>4 DEF InCall
<1> QED
  BY <1>2, <1>3, <1>5 DEF IInv

LEMMA AcquireStep == IInv /\ Acquire => IInv'
<1> SUFFICES ASSUME IInv, Acquire PROVE IInv'
  OBVIOUS
<1>1. NextBuf = Other(current) /\ ~Holding /\ pc' = "rest"
  BY DEF Acquire, BytesSecondBuf, Swapped, NextBuf, Holding
<1>2. /\ OneOwner' /\ Turns' /\ Contents' /\ Front' = Front + BufSize
      /\ readSem' \in [Bufs -> Nat] /\ current' \in Bufs
  BY <1>1, BufferTaken DEF Acquire, BytesSecondBuf, Swapped
<1>3. /\ size \in Sizes /\ size \in 1 .. BufSize /\ readIdx \in 0 .. BufSize
      /\ size > BufSize - readIdx /\ BufSize \in Nat
      /\ result = Bytes(consumed, BufSize - readIdx)
      /\ consumed \in Nat /\ Front \in Nat /\ Front - BufSize \in Nat
      /\ consumed = Front - BufSize + readIdx
  BY SmemAssumption DEF IInv, TypeOK, InCall, Acquire, BytesSecondBuf, Swapped
<1>4. Len(result) = BufSize - readIdx
  <2>1. BufSize - readIdx \in Nat
    BY <1>3
  <2> QED
    BY <1>3, <2>1, BytesAreSequences
<1>5. readIdx' \in 1 .. size /\ size - readIdx' = BufSize - readIdx
  BY <1>3, <1>4 DEF Acquire, BytesSecondBuf, Swapped
<1>6. TypeOK'
  <2>1. readIdx' \in 0 .. BufSize
    BY <1>3, <1>5
  <2>2. UNCHANGED <<writeSem, buf, writing, writeBuf, filled, published, size, result,
                    consumed, returned>>
    BY DEF Acquire, BytesSecondBuf, Swapped, writerVars, callVars, returnVars
  <2>3. TypeOK
    BY DEF IInv
  <2> QED
    BY <1>1, <1>2, <2>1, <2>2, <2>3 DEF TypeOK
<1>7. InCall'
  <2>1. Front' \in Nat /\ Front' - BufSize \in Nat
    BY <1>2, <1>3
  <2>2. consumed + (size - readIdx') = Front' - BufSize
    <3>1. consumed + (BufSize - readIdx) = Front
      BY <1>3
    <3>2. Front' - BufSize = Front
      BY <1>2, <1>3
    <3> QED
      BY <1>5, <3>1, <3>2
  <2> QED
    BY <1>1, <1>3, <1>5, <2>1, <2>2 DEF InCall, Acquire, BytesSecondBuf, Swapped, callVars, returnVars
<1> QED
  BY <1>2, <1>6, <1>7 DEF IInv

\* The buffers and their order do not change while the reader copies.
LEMMA ReaderCopies ==
  ASSUME IInv, Holding, Holding',
         UNCHANGED <<writeSem, readSem, buf, writerVars, current>>
  PROVE  OneOwner' /\ Turns' /\ Contents' /\ Front' = Front
<1>1. Front' = Front /\ NextBuf' = NextBuf /\ Other(NextBuf)' = Other(NextBuf)
  BY DEF Front, Waiting, NextBuf, Other, Holding, writerVars
<1>2. OneOwner'
  BY DEF IInv, OneOwner, Writes, Holds, writerVars
<1>3. Turns'
  BY <1>1 DEF IInv, Turns, Holding, writerVars
<1>4. Contents'
  BY <1>1 DEF IInv, Contents, writerVars
<1> QED
  BY <1>1, <1>2, <1>3, <1>4

LEMMA CallStep == IInv /\ (\E n \in Sizes : Call(n)) => IInv'
<1> SUFFICES ASSUME IInv, NEW n \in Sizes, Call(n) PROVE IInv'
  OBVIOUS
<1> USE DEF Call, returnVars
<1>1. OneOwner' /\ Turns' /\ Contents' /\ Front' = Front
  BY ReaderCopies DEF Holding
<1>2. TypeOK'
  BY DEF IInv, TypeOK, writerVars
<1>3. InCall'
  BY <1>1 DEF IInv, InCall
<1> QED
  BY <1>1, <1>2, <1>3 DEF IInv

\* A return hands over exactly the next `size' bytes.
LEMMA WithinReturns ==
  ASSUME IInv, CopyWithin
  PROVE  /\ size \in Sizes /\ returned' = Bytes(consumed, size)
         /\ consumed' = consumed + size
<1>1. Holding /\ size \in Sizes /\ consumed = Front - BufSize + readIdx
  BY DEF IInv, CopyWithin, InCall, Holding
<1>2. readIdx \in Nat /\ size \in Nat /\ readIdx + size <= BufSize
  BY <1>1, SmemAssumption DEF IInv, CopyWithin, Fits, TypeOK
<1>3. Copied(readIdx, size) = Bytes(consumed, size)
  BY <1>1, <1>2, CopiedBytes
<1> QED
  BY <1>1, <1>3 DEF CopyWithin, Return

LEMMA RestReturns ==
  ASSUME IInv, CopyRest
  PROVE  /\ size \in Sizes /\ returned' = Bytes(consumed, size)
         /\ consumed' = consumed + size
<1>1. /\ Holding /\ size \in Sizes /\ size \in 1 .. BufSize /\ consumed \in Nat
      /\ readIdx \in 1 .. size /\ consumed + (size - readIdx) = Front - BufSize
      /\ result = Bytes(consumed, size - readIdx) /\ Front \in Nat /\ BufSize \in Nat
  BY SmemAssumption DEF IInv, CopyRest, InCall, TypeOK, Holding
<1>2. Copied(0, readIdx) = Bytes(Front - BufSize + 0, readIdx)
  <2>1. 0 \in Nat /\ readIdx \in Nat /\ 0 + readIdx <= BufSize
    BY <1>1
  <2> QED
    BY <1>1, <2>1, CopiedBytes
<1>3. Front - BufSize + 0 = consumed + (size - readIdx) /\ size - readIdx \in Nat /\ readIdx \in Nat
  BY <1>1
<1>4. Bytes(consumed, size - readIdx) \o Bytes(consumed + (size - readIdx), readIdx)
        = Bytes(consumed, (size - readIdx) + readIdx)
  BY <1>1, <1>3, BytesJoin
<1>5. (size - readIdx) + readIdx = size
  BY <1>1
<1>6. result \o Copied(0, readIdx) = Bytes(consumed, size)
  BY <1>1, <1>2, <1>3, <1>4, <1>5
<1> QED
  BY <1>1, <1>6 DEF CopyRest, Return

LEMMA ReturnStep == IInv /\ (CopyWithin \/ CopyRest) => IInv'
<1> SUFFICES ASSUME IInv, CopyWithin \/ CopyRest PROVE IInv'
  OBVIOUS
<1>1. /\ size \in Sizes /\ returned' = Bytes(consumed, size) /\ consumed' = consumed + size
      /\ result' = returned' /\ pc' = "idle" /\ pc \in {"copy", "rest"}
      /\ UNCHANGED <<writeSem, readSem, buf, writerVars, current, size>>
  BY WithinReturns, RestReturns DEF CopyWithin, CopyRest, Return
<1>2. OneOwner' /\ Turns' /\ Contents' /\ Front' = Front
  BY <1>1, ReaderCopies DEF Holding
<1>3. size \in Nat /\ consumed \in Nat /\ returned' \in Seq(Nat)
  BY <1>1, SmemAssumption, BytesAreSequences DEF IInv, TypeOK
<1>4. Front - BufSize \in Nat /\ BufSize \in Nat
  BY <1>1, SmemAssumption DEF IInv, InCall
<1>5. readIdx' \in 0 .. BufSize /\ consumed' = Front - BufSize + readIdx'
  <2>1. CASE CopyWithin
    <3>1. readIdx' = readIdx + size /\ readIdx + size <= BufSize /\ readIdx \in Nat
      BY <2>1 DEF CopyWithin, Fits, IInv, TypeOK
    <3>2. consumed = Front - BufSize + readIdx
      BY <2>1 DEF CopyWithin, IInv, InCall
    <3>3. (Front - BufSize + readIdx) + size = Front - BufSize + (readIdx + size)
      BY <1>3, <1>4, <3>1
    <3> QED
      BY <1>1, <1>3, <1>4, <3>1, <3>2, <3>3
  <2>2. CASE CopyRest
    <3>1. /\ readIdx' = readIdx /\ readIdx \in 0 .. BufSize /\ readIdx \in 1 .. size
          /\ consumed + (size - readIdx) = Front - BufSize
      BY <2>2 DEF CopyRest, IInv, TypeOK, InCall
    <3> QED
      BY <1>1, <1>3, <1>4, <3>1
  <2> QED
    BY <2>1, <2>2
<1>6. TypeOK'
  BY <1>1, <1>3, <1>5 DEF IInv, TypeOK, writerVars
<1>7. InCall'
  BY <1>1, <1>2, <1>4, <1>5 DEF IInv, InCall
<1> QED
  BY <1>2, <1>6, <1>7 DEF IInv

LEMMA FirstPartStep == IInv /\ CopyFirstPart => IInv'
<1> SUFFICES ASSUME IInv, CopyFirstPart PROVE IInv'
  OBVIOUS
<1>1. /\ Holding /\ consumed = Front - BufSize + readIdx /\ readIdx \in 0 .. BufSize
      /\ size \in Sizes /\ size \in Nat /\ ~(readIdx + size <= BufSize) /\ consumed \in Nat
      /\ BufSize \in Nat
  BY SmemAssumption DEF IInv, CopyFirstPart, Fits, TypeOK, InCall, Holding
<1>2. readIdx \in Nat /\ BufSize - readIdx \in Nat /\ readIdx + (BufSize - readIdx) <= BufSize
      /\ size > BufSize - readIdx
  BY <1>1
<1>3. Copied(readIdx, BufSize - readIdx) = Bytes(consumed, BufSize - readIdx)
  BY <1>1, <1>2, CopiedBytes
<1>4. result' = Bytes(consumed, BufSize - readIdx) /\ result' \in Seq(Nat)
  BY <1>1, <1>2, <1>3, BytesAreSequences DEF CopyFirstPart
<1>5. OneOwner' /\ Turns' /\ Contents' /\ Front' = Front
  BY <1>1, ReaderCopies DEF CopyFirstPart, Holding
<1>6. TypeOK'
  BY <1>4 DEF IInv, CopyFirstPart, TypeOK, writerVars, returnVars
<1>7. InCall'
  BY <1>1, <1>2, <1>4, <1>5 DEF IInv, CopyFirstPart, InCall, returnVars
<1> QED
  BY <1>5, <1>6, <1>7 DEF IInv

LEMMA ReleaseStep == IInv /\ Release => IInv'
<1> SUFFICES ASSUME IInv, Release PROVE IInv'
  OBVIOUS
<1> USE DEF Release, callVars, returnVars
<1>1. Front' = Front /\ NextBuf' = NextBuf /\ Other(NextBuf)' = Other(NextBuf) /\ ~Holding'
      /\ Holding
  BY DEF Front, Waiting, NextBuf, Other, Holding, writerVars
<1>2. /\ writeSem' \in [Bufs -> Nat] /\ current \in Bufs
      /\ writeSem'[current] = writeSem[current] + 1
      /\ \A b \in Bufs \ {current} : writeSem'[b] = writeSem[b]
  BY DEF IInv, TypeOK
<1>3. TypeOK'
  BY <1>2 DEF IInv, TypeOK, writerVars
<1>4. OneOwner'
  <2>1. ASSUME NEW b \in Bufs
        PROVE  writeSem'[b] + readSem[b] + Writes(b)' + Holds(b)' = 1
    <3>1. writeSem[b] + readSem[b] + Writes(b) + Holds(b) = 1 /\ Writes(b)' = Writes(b)
      BY DEF IInv, OneOwner, Writes, writerVars
    <3>2. Writes(b) \in 0 .. 1 /\ readSem[b] \in Nat /\ writeSem[b] \in Nat /\ Holds(b)' = 0
      BY <1>1 DEF Writes, Holds, IInv, TypeOK
    <3>3. CASE b = current
      <4>1. Holds(b) = 1
        BY <1>1, <3>3 DEF Holds
      <4> QED
        BY <1>2, <3>1, <3>2, <3>3, <4>1
    <3>4. CASE b # current
      <4>1. Holds(b) = 0
        BY <3>4 DEF Holds
      <4> QED
        BY <1>2, <3>1, <3>2, <3>4, <4>1
    <3> QED
      BY <3>3, <3>4
  <2> QED
    BY <2>1 DEF OneOwner
<1>5. Turns'
  BY <1>1 DEF IInv, Turns, writerVars
<1>6. Contents'
  BY <1>1 DEF IInv, Contents, writerVars
<1>7. InCall'
  BY <1>1 DEF IInv, InCall
<1> QED
  BY <1>3, <1>4, <1>5, <1>6, <1>7 DEF IInv

LEMMA StutterStep == IInv /\ UNCHANGED vars => IInv'
<1> SUFFICES ASSUME IInv, UNCHANGED vars PROVE IInv'
  OBVIOUS
<1>1. Front' = Front /\ NextBuf' = NextBuf /\ Other(NextBuf)' = Other(NextBuf)
      /\ Holding' = Holding
  BY DEF vars, Front, Waiting, NextBuf, Other, Holding
<1>2. TypeOK' /\ OneOwner' /\ Turns'
  BY <1>1 DEF IInv, vars, TypeOK, OneOwner, Turns, Writes, Holds
<1>3. Contents' /\ InCall'
  BY <1>1 DEF IInv, vars, Contents, InCall
<1> QED
  BY <1>2, <1>3 DEF IInv

LEMMA NextInv == IInv /\ [Next]_vars => IInv'
BY TakeStep, WriteStep, PublishStep, AcquireFirstStep, AcquireStep, CallStep, ReturnStep,
   FirstPartStep, ReleaseStep, StutterStep DEF Next, Writer, Reader

\* The shared memory reader's state keeps its types, whatever the buffer and read
\* sizes: in particular no copy leaves a buffer (sharedmemreader.c 84-112).
THEOREM TypeCorrect == Spec => []TypeOK
<1>1. IInv => TypeOK
  BY DEF IInv
<1> QED
  BY InitInv, NextInv, <1>1, PTL DEF Spec

\* When the reader waits, the next buffer is not full; then no buffer is, and the
\* next one is the writer's, which finds it free or is filling it.
LEMMA WriterCanGoOn == IInv => NoMutualWait
<1> SUFFICES ASSUME IInv, ReaderStarved, WriterStarved PROVE FALSE
  BY DEF NoMutualWait
<1>1. readSem[NextBuf] = 0 /\ ~Holding /\ NextBuf \in Bufs
  BY DEF IInv, TypeOK, ReaderStarved, NextBuf, Holding, Other, Bufs
<1>2. Bufs = {NextBuf, Other(NextBuf)} /\ Bufs = {1, 2}
  BY <1>1 DEF Other, Bufs
<1>3. readSem[1] = 0 /\ readSem[2] = 0
  BY <1>1, <1>2 DEF IInv, Turns
<1>4. writeBuf = NextBuf
  BY <1>3 DEF IInv, Turns
<1>5. writeSem[writeBuf] + readSem[writeBuf] + Writes(writeBuf) + Holds(writeBuf) = 1
  BY <1>1, <1>4 DEF IInv, OneOwner
<1>6. Writes(writeBuf) = 0 /\ Holds(writeBuf) = 0 /\ writeSem[writeBuf] = 0
  BY <1>1 DEF WriterStarved, Writes, Holds
<1> QED
  BY <1>1, <1>4, <1>5, <1>6

\* Reader and writer of the shared buffers never wait for each other, whatever the
\* buffer size and the sizes of the reads (get_current_buffer, 114-127).
THEOREM NeverBothWait == Spec => []NoMutualWait
BY InitInv, NextInv, WriterCanGoOn, PTL DEF Spec

\* Every step is a read of the next bytes of the trace or no step of the stream.
LEMMA StepIsStream ==
  IInv /\ [Next]_vars => [Stream!Next]_<<consumed, returned>>
<1> SUFFICES ASSUME IInv, [Next]_vars PROVE [Stream!Next]_<<consumed, returned>>
  OBVIOUS
<1>1. CASE CopyWithin
  BY <1>1, WithinReturns DEF Stream!Next, Stream!Read, Bytes
<1>2. CASE CopyRest
  BY <1>2, RestReturns DEF Stream!Next, Stream!Read, Bytes
<1>3. CASE Writer
  BY <1>3 DEF Writer, TakeBuffer, WriteByte, Publish, returnVars
<1>4. CASE AcquireFirst \/ CopyFirstPart \/ Release \/ Acquire \/ UNCHANGED vars
  BY <1>4 DEF AcquireFirst, CopyFirstPart, Release, Acquire, BytesSecondBuf, Swapped, vars, returnVars
<1>5. CASE \E n \in Sizes : Call(n)
  BY <1>5 DEF Call, returnVars
<1> QED
  BY <1>1, <1>2, <1>3, <1>4, <1>5 DEF Next, Reader

\* read_from_smem implements the in-order stream: however writer and reader take
\* turns, reads return the trace's bytes once each and in order.
THEOREM ImplementsInOrderStream == Spec => StreamSpec
<1>1. Init => Stream!Init
  BY DEF Init, Stream!Init
<1> QED
  BY InitInv, NextInv, StepIsStream, <1>1, PTL DEF Spec, StreamSpec, Stream!Spec
================================================================================
