---------------------------- MODULE MpiReaderProofs ----------------------------
(***************************************************************************)
(* The MPI reader implements the in-order stream, for every buffer size, every *)
(* set of read sizes up to it and every trace.                             *)
(***************************************************************************)
EXTENDS MpiReader, TLAPS, SequenceTheorems

Bytes(p, n) == Stream!Items(p, n)

\* Position in the trace of the first byte of the buffer being read.
Base == arrived - fill - BufSize

\* The two buffers hold consecutive pieces of the trace, and only the posted
\* one is still being written.
Filling == \A i \in 0 .. fill - 1 : buf[posted][i] = arrived - fill + i
Reading ==
  IF current = -1
  THEN posted = 0 /\ arrived = fill /\ consumed = 0 /\ readIdx = 0 /\ pc \in {"idle", "first"}
  ELSE /\ posted = 1 - current /\ Base \in Nat /\ pc # "first"
       /\ \A i \in Offsets : buf[current][i] = Base + i

\* Where the call stands in the trace.
InCall ==
  /\ pc # "idle" => size \in Sizes
  /\ pc \in {"idle", "copy", "wait"} /\ current # -1 => consumed = Base + readIdx
  /\ pc = "wait" => /\ size > BufSize - readIdx
                    /\ result = Bytes(consumed, BufSize - readIdx)
  /\ pc = "rest" => /\ readIdx \in 1 .. size
                    /\ consumed + (size - readIdx) = Base
                    /\ result = Bytes(consumed, size - readIdx)

IInv == TypeOK /\ Filling /\ Reading /\ InCall

--------------------------------------------------------------------------------

\* Pieces of the trace are sequences, and consecutive pieces join up.
LEMMA BytesAreSequences ==
  ASSUME NEW p \in Nat, NEW n \in Nat
  PROVE  Bytes(p, n) \in Seq(Nat) /\ Len(Bytes(p, n)) = n
BY DEF Bytes, Stream!Items

LEMMA BytesJoin ==
  ASSUME NEW p \in Nat, NEW m \in Nat, NEW n \in Nat
  PROVE  Bytes(p, m) \o Bytes(p + m, n) = Bytes(p, m + n)
<1>1. Bytes(p, m) \in Seq(Nat) /\ Len(Bytes(p, m)) = m
  BY BytesAreSequences
<1>2. Bytes(p + m, n) \in Seq(Nat) /\ Len(Bytes(p + m, n)) = n
  <2>1. p + m \in Nat
    OBVIOUS
  <2> QED
    BY <2>1, BytesAreSequences
<1>3. Bytes(p, m + n) \in Seq(Nat) /\ Len(Bytes(p, m + n)) = m + n
  BY BytesAreSequences
<1>4. ASSUME NEW k \in 1 .. m + n
      PROVE  (Bytes(p, m) \o Bytes(p + m, n))[k] = Bytes(p, m + n)[k]
  BY <1>1, <1>2 DEF Bytes, Stream!Items
<1>5. Bytes(p, m) \o Bytes(p + m, n) \in Seq(Nat)
  BY <1>1, <1>2
<1>6. Len(Bytes(p, m) \o Bytes(p + m, n)) = m + n
  BY SMTT(30), <1>1, <1>2
<1> HIDE DEF Bytes
<1> QED
  BY <1>3, <1>4, <1>5, <1>6, SeqEqual

\* What is copied out of the buffer being read is a piece of the trace.
LEMMA CopiedBytes ==
  ASSUME IInv, current # -1, NEW i \in Nat, NEW n \in Nat, i + n <= BufSize
  PROVE  Copied(i, n) = Bytes(Base + i, n)
<1>1. \A k \in 1 .. n : i + k - 1 \in Offsets
  BY BufferAssumption DEF Offsets
<1>2. \A k \in 1 .. n : buf[current][i + k - 1] = Base + (i + k - 1)
  BY <1>1 DEF IInv, Reading
<1>3. Base \in Nat
  BY DEF IInv, Reading
<1> QED
  BY <1>2, <1>3 DEF Copied, Bytes, Stream!Items

LEMMA InitInv == Init => IInv
BY BufferAssumption DEF Init, IInv, TypeOK, Filling, Reading, InCall, Offsets, Garbage

\* The network's steps touch the posted buffer only.
LEMMA NetworkStep == IInv /\ (Send \/ Arrive) => IInv'
<1> SUFFICES ASSUME IInv, Send \/ Arrive PROVE IInv'
  OBVIOUS
<1> USE BufferAssumption DEF IInv, callVars, returnVars
<1>1. CASE Send
  BY <1>1 DEF Send, TypeOK, Filling, Reading, InCall, Base
<1>2. CASE Arrive
  <2>1. fill \in Offsets /\ arrived' - fill' = arrived - fill /\ Base' = Base
    BY <1>2 DEF Arrive, Received, TypeOK, Offsets, Base
  <2>2. buf' \in [{0, 1} -> [Offsets -> Nat \cup {Garbage}]]
    BY <1>2, <2>1 DEF Arrive, TypeOK
  <2>3. TypeOK'
    BY <1>2, <2>2 DEF Arrive, Received, TypeOK
  <2>4. Filling'
    BY <1>2, <2>1 DEF Arrive, Filling, TypeOK, Offsets
  <2>5. Reading'
    <3>1. current # -1 => buf'[current] = buf[current]
      BY <1>2 DEF Arrive, Reading, TypeOK
    <3> QED
      BY <1>2, <2>1, <3>1 DEF Arrive, Reading, TypeOK
  <2>6. InCall'
    BY <1>2, <2>1 DEF Arrive, InCall
  <2> QED
    BY <2>3, <2>4, <2>5, <2>6
<1> QED
  BY <1>1, <1>2

\* read_from_buffer is called, or its first call finds the first buffer.
LEMMA CallStep == IInv /\ (FirstBuffer \/ \E n \in Sizes : Call(n)) => IInv'
<1> SUFFICES ASSUME IInv, FirstBuffer \/ \E n \in Sizes : Call(n) PROVE IInv'
  OBVIOUS
<1> USE BufferAssumption DEF IInv, callVars, returnVars, netVars
<1>1. CASE FirstBuffer
  <2>1. current = -1
    BY <1>1 DEF FirstBuffer, Reading
  <2>2. TypeOK' /\ Filling'
    BY <1>1 DEF FirstBuffer, TypeOK, Filling
  <2>3. Reading'
    BY <1>1, <2>1 DEF FirstBuffer, Received, TypeOK, Filling, Reading, Base, Offsets
  <2>4. InCall'
    BY <1>1, <2>1 DEF FirstBuffer, Received, TypeOK, Reading, InCall, Base
  <2> QED
    BY <2>2, <2>3, <2>4
<1>2. ASSUME NEW n \in Sizes, Call(n) PROVE IInv'
  <2>1. TypeOK'
    BY <1>2 DEF Call, TypeOK
  <2>2. Filling' /\ Reading'
    BY <1>2 DEF Call, TypeOK, Filling, Reading, Base
  <2>3. InCall'
    BY <1>2 DEF Call, TypeOK, Reading, InCall, Base
  <2> QED
    BY <2>1, <2>2, <2>3
<1> QED
  BY <1>1, <1>2

\* A return hands over exactly the next `size' bytes.
LEMMA WithinReturns ==
  IInv /\ CopyWithin => size \in Sizes /\ returned' = Bytes(consumed, size) /\ consumed' = consumed + size
<1> SUFFICES ASSUME IInv, CopyWithin
             PROVE  /\ size \in Sizes /\ returned' = Bytes(consumed, size)
                    /\ consumed' = consumed + size
  OBVIOUS
<1>1. current # -1 /\ size \in Sizes /\ consumed = Base + readIdx
  BY DEF IInv, CopyWithin, Reading, InCall, TypeOK
<1>2. readIdx \in Nat /\ size \in Nat /\ readIdx + size <= BufSize
  BY <1>1, BufferAssumption DEF IInv, CopyWithin, Fits, TypeOK
<1>3. Copied(readIdx, size) = Bytes(consumed, size)
  BY <1>1, <1>2, CopiedBytes
<1> QED
  BY <1>1, <1>3 DEF CopyWithin, Return

LEMMA RestReturns ==
  IInv /\ CopyRest => size \in Sizes /\ returned' = Bytes(consumed, size) /\ consumed' = consumed + size
<1> SUFFICES ASSUME IInv, CopyRest
             PROVE  /\ size \in Sizes /\ returned' = Bytes(consumed, size)
                    /\ consumed' = consumed + size
  OBVIOUS
<1>1. /\ current # -1 /\ size \in Sizes /\ size \in 1 .. BufSize /\ consumed \in Nat
      /\ readIdx \in 1 .. size /\ consumed + (size - readIdx) = Base
      /\ result = Bytes(consumed, size - readIdx)
  BY BufferAssumption DEF IInv, CopyRest, Reading, InCall, TypeOK
<1>2. Copied(0, readIdx) = Bytes(Base + 0, readIdx)
  <2>1. 0 \in Nat /\ readIdx \in Nat /\ 0 + readIdx <= BufSize
    BY <1>1, BufferAssumption
  <2> QED
    BY <1>1, <2>1, CopiedBytes
<1>3. Base + 0 = consumed + (size - readIdx) /\ size - readIdx \in Nat /\ readIdx \in Nat
  BY <1>1
<1>4. Bytes(consumed, size - readIdx) \o Bytes(consumed + (size - readIdx), readIdx)
        = Bytes(consumed, (size - readIdx) + readIdx)
  BY <1>1, <1>3, BytesJoin
<1>5. (size - readIdx) + readIdx = size
  BY <1>1
<1>6. result \o Copied(0, readIdx) = Bytes(consumed, size)
  BY <1>1, <1>2, <1>3, <1>4, <1>5
<1> QED
  BY <1>1, <1>6 DEF CopyRest, Return

\* After a return the invariant holds if the buffers did not move.
LEMMA ReturnStep == IInv /\ (CopyWithin \/ CopyRest) => IInv'
<1> SUFFICES ASSUME IInv, CopyWithin \/ CopyRest PROVE IInv'
  OBVIOUS
<1>1. /\ size \in Sizes /\ returned' = Bytes(consumed, size) /\ consumed' = consumed + size
      /\ result' = returned' /\ pc' = "idle" /\ pc \in {"copy", "rest"}
      /\ UNCHANGED <<sent, arrived, fill, posted, buf, current, size>>
  BY WithinReturns, RestReturns DEF CopyWithin, CopyRest, Return, netVars
<1>2. size \in Nat /\ consumed \in Nat /\ returned' \in Seq(Nat)
  BY <1>1, BufferAssumption, BytesAreSequences DEF IInv, TypeOK
<1>3. readIdx' \in 0 .. BufSize /\ current # -1 /\ consumed' = Base + readIdx'
  <2>1. CASE CopyWithin
    BY <2>1, <1>1, <1>2, BufferAssumption
       DEF CopyWithin, Fits, IInv, TypeOK, Reading, InCall, Base
  <2>2. CASE CopyRest
    BY <2>2, <1>1, <1>2, BufferAssumption DEF CopyRest, IInv, TypeOK, Reading, InCall, Base
  <2> QED
    BY <2>1, <2>2
<1>4. TypeOK'
  BY <1>1, <1>2, <1>3 DEF IInv, TypeOK
<1>5. Filling' /\ Reading'
  BY <1>1, <1>3 DEF IInv, TypeOK, Filling, Reading, Base
<1>6. InCall'
  BY <1>1, <1>3 DEF InCall, Base
<1> QED
  BY <1>4, <1>5, <1>6 DEF IInv

LEMMA FirstPartStep == IInv /\ CopyFirstPart => IInv'
<1> SUFFICES ASSUME IInv, CopyFirstPart PROVE IInv'
  OBVIOUS
<1>1. /\ current # -1 /\ consumed = Base + readIdx /\ readIdx \in 0 .. BufSize
      /\ size \in Nat /\ ~(readIdx + size <= BufSize) /\ consumed \in Nat
  BY BufferAssumption DEF IInv, CopyFirstPart, Fits, TypeOK, Reading, InCall
<1>2. readIdx \in Nat /\ BufSize - readIdx \in Nat /\ readIdx + (BufSize - readIdx) <= BufSize
  BY <1>1, BufferAssumption
<1>3. Copied(readIdx, BufSize - readIdx) = Bytes(consumed, BufSize - readIdx)
  BY <1>1, <1>2, CopiedBytes
<1>4. result' = Bytes(consumed, BufSize - readIdx) /\ result' \in Seq(Nat)
  BY <1>1, <1>2, <1>3, BytesAreSequences DEF CopyFirstPart
<1>5. TypeOK'
  BY <1>4 DEF IInv, CopyFirstPart, TypeOK, netVars, returnVars
<1>6. Filling' /\ Reading'
  BY <1>1 DEF IInv, CopyFirstPart, Filling, Reading, Base, netVars, returnVars
<1>7. InCall'
  BY <1>1, <1>2, <1>4, BufferAssumption
     DEF IInv, CopyFirstPart, InCall, Base, netVars, returnVars
<1> QED
  BY <1>5, <1>6, <1>7 DEF IInv

LEMMA ChangeStep == IInv /\ ChangeBuffer => IInv'
<1> SUFFICES ASSUME IInv, ChangeBuffer PROVE IInv'
  OBVIOUS
<1> USE BufferAssumption
<1>1. /\ current \in {0, 1} /\ posted = 1 - current /\ fill = BufSize
      /\ size \in Sizes /\ size \in 1 .. BufSize
      /\ consumed = Base + readIdx /\ readIdx \in 0 .. BufSize
      /\ size > BufSize - readIdx
      /\ result = Bytes(consumed, BufSize - readIdx)
      /\ consumed \in Nat /\ Base \in Nat /\ arrived \in Nat
  BY DEF IInv, ChangeBuffer, BytesSecondBuf, BuffToUse, Received, TypeOK, Reading, InCall
<1>2. Len(result) = BufSize - readIdx
  <2>1. BufSize - readIdx \in Nat
    BY <1>1
  <2> QED
    BY <1>1, <2>1, BytesAreSequences
<1>3. readIdx' \in 1 .. size /\ size - readIdx' = BufSize - readIdx
  BY <1>1, <1>2 DEF ChangeBuffer, BytesSecondBuf, BuffToUse
<1>4. Base' = arrived - BufSize /\ Base' = Base + BufSize
  BY <1>1 DEF ChangeBuffer, BytesSecondBuf, BuffToUse, Base
<1>5. TypeOK'
  BY <1>1, <1>3 DEF IInv, ChangeBuffer, BytesSecondBuf, BuffToUse, TypeOK, callVars, returnVars
<1>6. Filling'
  BY DEF ChangeBuffer, BytesSecondBuf, BuffToUse, Filling
<1>7. Reading'
  BY <1>1, <1>4 DEF IInv, ChangeBuffer, BytesSecondBuf, BuffToUse, Filling, Reading, Offsets, TypeOK
<1>8. InCall'
  BY <1>1, <1>3, <1>4 DEF ChangeBuffer, BytesSecondBuf, BuffToUse, InCall, callVars, returnVars
<1> QED
  BY <1>5, <1>6, <1>7, <1>8 DEF IInv

LEMMA StutterStep == IInv /\ UNCHANGED vars => IInv'
BY DEF IInv, vars, TypeOK, Filling, Reading, InCall, Base, Offsets, Received

LEMMA NextInv == IInv /\ [Next]_vars => IInv'
BY NetworkStep, CallStep, ReturnStep, FirstPartStep, ChangeStep, StutterStep DEF Next, Reader

\* The MPI reader's state keeps its types, whatever the buffer and read sizes:
\* in particular no copy leaves a buffer (mpireader.c 45-91).
THEOREM TypeCorrect == Spec => []TypeOK
<1>1. IInv => TypeOK
  BY DEF IInv
<1> QED
  BY InitInv, NextInv, <1>1, PTL DEF Spec

\* Every step is a read of the next bytes of the trace or no step of the stream.
LEMMA StepIsStream ==
  IInv /\ [Next]_vars => [Stream!Next]_<<consumed, returned>>
<1> SUFFICES ASSUME IInv, [Next]_vars PROVE [Stream!Next]_<<consumed, returned>>
  OBVIOUS
<1>1. CASE CopyWithin
  BY <1>1, WithinReturns DEF Stream!Next, Stream!Read, Bytes
<1>2. CASE CopyRest
  BY <1>2, RestReturns DEF Stream!Next, Stream!Read, Bytes
<1>3. CASE Send \/ Arrive \/ FirstBuffer \/ CopyFirstPart \/ ChangeBuffer \/ UNCHANGED vars
  BY <1>3 DEF Send, Arrive, FirstBuffer, CopyFirstPart, ChangeBuffer, BytesSecondBuf, BuffToUse, vars, returnVars
<1>4. CASE \E n \in Sizes : Call(n)
  BY <1>4 DEF Call, returnVars
<1> QED
  BY <1>1, <1>2, <1>3, <1>4 DEF Next, Reader

\* read_from_buffer implements the in-order stream: through both buffers and any
\* arrival of messages, reads return the trace's bytes once each and in order.
THEOREM ImplementsInOrderStream == Spec => StreamSpec
<1>1. Init => Stream!Init
  BY DEF Init, Stream!Init
<1> QED
  BY InitInv, NextInv, StepIsStream, <1>1, PTL DEF Spec, StreamSpec, Stream!Spec
================================================================================
