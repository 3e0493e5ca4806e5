------------------------------- MODULE MpiReader -------------------------------
(***************************************************************************)
(* The coordinator's view of the trace: filereader/mpireader.c reading     *)
(* what the input reader (simulator/distributed/input_reader.c) sends.     *)
(*                                                                         *)
(* The trace is sent in messages of BufSize bytes.  The reader owns two    *)
(* buffers and always has one receive posted: MPI writes the bytes of the  *)
(* next message into the posted buffer whenever it likes, while the reader *)
(* copies out of the other one.  A byte is its position in the trace, so   *)
(* `sent' and `arrived' count bytes and name the next one.                 *)
(***************************************************************************)
EXTENDS Integers, Sequences

CONSTANTS
  BufSize,      \* SHARED_MEM_BUF_SIZE
  Sizes,        \* the sizes asked of read_from_buffer
  Buffered,     \* bytes MPI_Send may return ahead of what has been received
  TraceSize     \* bound: bytes of the trace

ASSUME BufferAssumption ==
  /\ BufSize \in Nat \ {0} /\ Sizes \subseteq 1 .. BufSize
  /\ Buffered \in Nat /\ Buffered >= BufSize
  /\ TraceSize \in Nat

VARIABLES
  sent,         \* bytes whose MPI_Send the input reader has begun
  arrived,      \* bytes MPI has written into a buffer
  posted, fill, \* buffer of open_request, and the bytes in it so far
  buf,          \* buf_0 and buf_1
  current,      \* current_buf_idx
  readIdx,      \* current_read_idx
  pc,           \* where the reader is in read_from_buffer
  size, result, \* the call's parameters; result as far as it is copied
  consumed,     \* bytes returned by calls that are over
  returned      \* what the last one returned

netVars    == <<sent, arrived, fill>>
callVars   == <<size, result>>
returnVars == <<consumed, returned>>
vars == <<sent, arrived, posted, fill, buf, current, readIdx, pc, size, result,
          consumed, returned>>

Garbage == -1                      \* what malloc leaves in a buffer
Offsets == 0 .. BufSize - 1
Received == fill = BufSize         \* MPI_Wait(&open_request) returns

\* n bytes of the current buffer from index i.
Copied(i, n) == [k \in 1 .. n |-> buf[current][i + k - 1]]

Init ==
  /\ sent = 0 /\ arrived = 0 /\ fill = 0
  /\ posted = 0                    \* setup_mpi_buffer posts buf_0
  /\ buf = [b \in {0, 1} |-> [i \in Offsets |-> Garbage]]
  /\ current = -1 /\ readIdx = 0
  /\ pc = "idle" /\ size = 0 /\ result = <<>>
  /\ consumed = 0 /\ returned = <<>>

--------------------------------------------------------------------------------

\* run_input_reader: read a whole buffer and send it; a shorter rest is dropped.
Send ==
  /\ sent + BufSize <= TraceSize
  /\ sent + BufSize <= arrived + Buffered
  /\ sent' = sent + BufSize
  /\ UNCHANGED <<arrived, posted, fill, buf, current, readIdx, pc, callVars, returnVars>>

\* One more byte of the message matched with the posted receive.
Arrive ==
  /\ arrived < sent /\ ~Received
  /\ buf' = [buf EXCEPT ![posted][fill] = arrived]
  /\ arrived' = arrived + 1
  /\ fill' = fill + 1
  /\ UNCHANGED <<sent, posted, current, readIdx, pc, callVars, returnVars>>

\* read_from_buffer is called; on the first call the first buffer is awaited.
Call(n) ==
  /\ pc = "idle"
  /\ size' = n /\ result' = <<>>
  /\ pc' = IF current < 0 THEN "first" ELSE "copy"
  /\ UNCHANGED <<netVars, posted, buf, current, readIdx, returnVars>>

FirstBuffer ==
  /\ pc = "first" /\ Received
  /\ posted' = 1 /\ fill' = 0
  /\ current' = 0
  /\ pc' = "copy"
  /\ UNCHANGED <<sent, arrived, buf, readIdx, callVars, returnVars>>

\* Mutated form of Fits: the last byte of a buffer waits for the next buffer.
FitsStrictly == readIdx + size < BufSize

Fits == readIdx + size <= BufSize

Return(bytes) ==
  /\ result' = bytes
  /\ returned' = bytes
  /\ consumed' = consumed + size
  /\ pc' = "idle"

CopyWithin ==
  /\ pc = "copy" /\ Fits
  /\ Return(Copied(readIdx, size))
  /\ readIdx' = readIdx + size
  /\ UNCHANGED <<netVars, posted, buf, current, size>>

\* The bytes that are left in the current buffer.
CopyFirstPart ==
  /\ pc = "copy" /\ ~Fits
  /\ result' = Copied(readIdx, BufSize - readIdx)
  /\ pc' = "wait"
  /\ UNCHANGED <<netVars, posted, buf, current, readIdx, size, returnVars>>

\* Mutated forms of BytesSecondBuf and BuffToUse: the read index runs on; the receive is
\* posted on the buffer that was just filled, before anything of it has been read.
BytesSecondBufOrIndex == readIdx + size
BuffJustFilled == 1 - current

\* What is left to copy from the next buffer, and the buffer the next receive is for.
BytesSecondBuf == size - Len(result)
BuffToUse == current

\* MPI_Wait, MPI_Irecv on the buffer that has been read, then the swap.
ChangeBuffer ==
  /\ pc = "wait" /\ Received
  /\ posted' = BuffToUse /\ fill' = 0
  /\ current' = 1 - current
  /\ readIdx' = BytesSecondBuf
  /\ pc' = "rest"
  /\ UNCHANGED <<sent, arrived, buf, callVars, returnVars>>

CopyRest ==
  /\ pc = "rest"
  /\ Return(result \o Copied(0, readIdx))
  /\ UNCHANGED <<netVars, posted, buf, current, readIdx, size>>

Reader == FirstBuffer \/ CopyWithin \/ CopyFirstPart \/ ChangeBuffer \/ CopyRest

Next == Send \/ Arrive \/ (\E n \in Sizes : Call(n)) \/ Reader

Spec == Init /\ [][Next]_vars

\* MPI completes a receive whose message was sent, and the reader is one thread
\* that only stops to wait; the input reader may stop for good at any time.
FairSpec == Spec /\ WF_vars(Arrive) /\ WF_vars(Reader)

--------------------------------------------------------------------------------

\* Type invariant; every copy stays inside the buffers and inside `result'.
TypeOK ==
  /\ sent \in Nat /\ arrived \in Nat /\ fill \in 0 .. BufSize
  /\ posted \in {0, 1}
  /\ buf \in [{0, 1} -> [Offsets -> Nat \cup {Garbage}]]
  /\ current \in {-1, 0, 1} /\ readIdx \in 0 .. BufSize
  /\ pc \in {"idle", "first", "copy", "wait", "rest"}
  /\ size \in Sizes \cup {0} /\ result \in Seq(Nat)
  /\ consumed \in Nat /\ returned \in Seq(Nat)

\* The reader implements the in-order stream (read_from_buffer): no byte is lost,
\* repeated, torn by a receive into the buffer being read, or taken from
\* memory no message has reached.
Stream == INSTANCE InOrderStream WITH position <- consumed, output <- returned
StreamSpec == Stream!Spec

\* A read whose bytes have all been sent returns (read_from_buffer, line 45):
\* it never waits for a message that only later reads need.
SentBytesAreRead ==
  pc # "idle" /\ consumed + size <= sent ~> pc = "idle"
================================================================================
