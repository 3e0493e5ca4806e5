------------------------------- MODULE SmemReader -------------------------------
(***************************************************************************)
(* A trace read through shared memory: filereader/sharedmemreader.c and    *)
(* the process that writes the trace (QEMU, not part of the repository).   *)
(*                                                                         *)
(* Two shared buffers go round: the writer waits for the write semaphore   *)
(* of a buffer, fills it and posts its read semaphore; the reader waits    *)
(* for the read semaphore, copies records out and posts the write          *)
(* semaphore.  The states start where setup_shared_mem has set the         *)
(* semaphores up and waits for the first buffer.  A byte is its position   *)
(* in the trace.                                                           *)
(***************************************************************************)
EXTENDS Integers, Sequences

CONSTANTS
  BufSize,      \* SHARED_MEM_BUF_SIZE
  Sizes,        \* the sizes asked of read_from_smem
  TraceSize     \* bound: bytes of the trace

ASSUME SmemAssumption ==
  /\ BufSize \in Nat \ {0} /\ Sizes \subseteq 1 .. BufSize
  /\ TraceSize \in Nat

VARIABLES
  writeSem, readSem,    \* write_sem_1 and _2, read_sem_1 and _2
  buf,                  \* buf_1 and buf_2
  writing, writeBuf,    \* the writer holds a buffer; its present or next one
  filled,               \* bytes of it that are written
  published,            \* bytes of the buffers handed to the reader
  current,              \* current_buf_idx
  readIdx,              \* current_read_idx
  pc,                   \* where the reader is
  size, result,         \* the call's parameters; result as far as it is copied
  consumed, returned    \* bytes returned so far, and by the last call

writerVars == <<writing, writeBuf, filled, published>>
callVars   == <<size, result>>
returnVars == <<consumed, returned>>
vars == <<writeSem, readSem, buf, writing, writeBuf, filled, published, current,
          readIdx, pc, size, result, consumed, returned>>

Bufs     == {1, 2}
Other(b) == 3 - b
Blank    == -1                     \* a byte of a buffer that was just resized
Offsets  == 0 .. BufSize - 1

Init ==
  /\ writeSem = [b \in Bufs |-> 1] /\ readSem = [b \in Bufs |-> 0]
  /\ buf = [b \in Bufs |-> [i \in Offsets |-> Blank]]
  /\ writing = FALSE /\ writeBuf = 1 /\ filled = 0 /\ published = 0
  /\ current = 1 /\ readIdx = 0
  /\ pc = "setup" /\ size = 0 /\ result = <<>>
  /\ consumed = 0 /\ returned = <<>>

--------------------------------------------------------------------------------
\* The writer.

TakeBuffer ==
  /\ ~writing /\ writeSem[writeBuf] > 0
  /\ published + BufSize <= TraceSize
  /\ writeSem' = [writeSem EXCEPT ![writeBuf] = @ - 1]
  /\ writing' = TRUE
  /\ UNCHANGED <<readSem, buf, writeBuf, filled, published, current, readIdx, pc,
                 callVars, returnVars>>

WriteByte ==
  /\ writing /\ filled < BufSize
  /\ buf' = [buf EXCEPT ![writeBuf][filled] = published + filled]
  /\ filled' = filled + 1
  /\ UNCHANGED <<writeSem, readSem, writing, writeBuf, published, current, readIdx,
                 pc, callVars, returnVars>>

Publish ==
  /\ writing /\ filled = BufSize
  /\ readSem' = [readSem EXCEPT ![writeBuf] = @ + 1]
  /\ published' = published + BufSize
  /\ writing' = FALSE /\ writeBuf' = Other(writeBuf) /\ filled' = 0
  /\ UNCHANGED <<writeSem, buf, current, readIdx, pc, callVars, returnVars>>

--------------------------------------------------------------------------------
\* The reader.

\* setup_shared_mem ends by waiting for the first buffer.
AcquireFirst ==
  /\ pc = "setup" /\ readSem[1] > 0
  /\ readSem' = [readSem EXCEPT ![1] = @ - 1]
  /\ pc' = "idle"
  /\ UNCHANGED <<writeSem, buf, writerVars, current, readIdx, callVars, returnVars>>

\* read_from_smem is called.
Call(n) ==
  /\ pc = "idle"
  /\ size' = n /\ result' = <<>>
  /\ pc' = "copy"
  /\ UNCHANGED <<writeSem, readSem, buf, writerVars, current, readIdx, returnVars>>

\* Mutated form of Fits: the last byte of a buffer waits for the next buffer.
FitsStrictly == readIdx + size < BufSize

Fits == readIdx + size <= BufSize

\* n bytes of the current buffer from index i.
Copied(i, n) == [k \in 1 .. n |-> buf[current][i + k - 1]]

Return(bytes) ==
  /\ result' = bytes
  /\ returned' = bytes
  /\ consumed' = consumed + size
  /\ pc' = "idle"

CopyWithin ==
  /\ pc = "copy" /\ Fits
  /\ Return(Copied(readIdx, size))
  /\ readIdx' = readIdx + size
  /\ UNCHANGED <<writeSem, readSem, buf, writerVars, current, size>>

\* The bytes that are left in the current buffer.
CopyFirstPart ==
  /\ pc = "copy" /\ ~Fits
  /\ result' = Copied(readIdx, BufSize - readIdx)
  /\ pc' = "release"
  /\ UNCHANGED <<writeSem, readSem, buf, writerVars, current, readIdx, size, returnVars>>

\* Mutated form of Release: the buffer is kept.
ReleaseNothing ==
  /\ pc = "release"
  /\ pc' = "wait"
  /\ UNCHANGED <<writeSem, readSem, buf, writerVars, current, readIdx, callVars, returnVars>>

\* get_current_buffer, the sem_post: the writer may now overwrite the buffer.
Release ==
  /\ pc = "release"
  /\ writeSem' = [writeSem EXCEPT ![current] = @ + 1]
  /\ pc' = "wait"
  /\ UNCHANGED <<readSem, buf, writerVars, current, readIdx, callVars, returnVars>>

\* Mutated forms of BytesSecondBuf and Swapped: the read index runs on; the swap is
\* forgotten.
BytesSecondBufOrIndex == readIdx + size
SwappedNot == current

\* What is left to copy from the next buffer, and that buffer.
BytesSecondBuf == size - Len(result)
Swapped == Other(current)

\* get_current_buffer, the sem_wait and the swap.
Acquire ==
  /\ pc = "wait" /\ readSem[Other(current)] > 0
  /\ readSem' = [readSem EXCEPT ![Other(current)] = @ - 1]
  /\ current' = Swapped
  /\ readIdx' = BytesSecondBuf
  /\ pc' = "rest"
  /\ UNCHANGED <<writeSem, buf, writerVars, callVars, returnVars>>

CopyRest ==
  /\ pc = "rest"
  /\ Return(result \o Copied(0, readIdx))
  /\ UNCHANGED <<writeSem, readSem, buf, writerVars, current, readIdx, size>>

Writer == TakeBuffer \/ WriteByte \/ Publish
Reader == AcquireFirst \/ CopyWithin \/ CopyFirstPart \/ Release \/ Acquire \/ CopyRest

Next == Writer \/ (\E n \in Sizes : Call(n)) \/ Reader

Spec == Init /\ [][Next]_vars

\* The reader is one thread that only stops to wait; the writer may stop for
\* good, in the middle of a buffer too.
FairSpec == Spec /\ WF_vars(Reader)

--------------------------------------------------------------------------------

\* Type invariant; every copy stays inside the buffers and inside `result'.
TypeOK ==
  /\ writeSem \in [Bufs -> Nat] /\ readSem \in [Bufs -> Nat]
  /\ buf \in [Bufs -> [Offsets -> Nat \cup {Blank}]]
  /\ writing \in BOOLEAN /\ writeBuf \in Bufs
  /\ filled \in 0 .. BufSize /\ published \in Nat
  /\ current \in Bufs /\ readIdx \in 0 .. BufSize
  /\ pc \in {"setup", "idle", "copy", "release", "wait", "rest"}
  /\ size \in Sizes \cup {0} /\ result \in Seq(Nat)
  /\ consumed \in Nat /\ returned \in Seq(Nat)

\* The reader implements the in-order stream (read_from_smem): no byte is lost,
\* repeated, or overwritten by the writer while it is being copied.
Stream == INSTANCE InOrderStream WITH position <- consumed, output <- returned
StreamSpec == Stream!Spec

\* Reader and writer never wait for each other (the four semaphores of
\* get_current_buffer): when the reader has no buffer to read, the writer has
\* one to write.
ReaderStarved ==
  \/ pc = "setup" /\ readSem[1] = 0
  \/ pc = "wait" /\ readSem[Other(current)] = 0
WriterStarved == ~writing /\ writeSem[writeBuf] = 0
NoMutualWait  == ~(ReaderStarved /\ WriterStarved)

\* A read whose bytes have all been published returns (read_from_smem, line 85):
\* it never waits for a buffer that only later reads need.
PublishedBytesAreRead ==
  pc \notin {"setup", "idle"} /\ consumed + size <= published ~> pc = "idle"
================================================================================
