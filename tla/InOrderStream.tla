----------------------------- MODULE InOrderStream -----------------------------
(***************************************************************************)
(* What a reader of a stream is promised: consecutive reads return         *)
(* consecutive items, whatever buffers, messages and processes lie between *)
(* it and the writer.  An item (a byte of the trace, an access of a shard) *)
(* is its position in the stream.                                          *)
(***************************************************************************)
EXTENDS Naturals, Sequences

CONSTANT Sizes        \* the numbers of items a reader takes at once

VARIABLES position, output

\* The n items of the stream from position p.
Items(p, n) == [i \in 1 .. n |-> p + i - 1]

Init == position = 0 /\ output = <<>>

Read(n) ==
  /\ output' = Items(position, n)
  /\ position' = position + n

Next == \E n \in Sizes : Read(n)

Spec == Init /\ [][Next]_<<position, output>>
================================================================================
