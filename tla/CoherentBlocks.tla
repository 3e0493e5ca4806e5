---------------------------- MODULE CoherentBlocks -----------------------------
(***************************************************************************)
(* What the caches of one bus promise: every block is either writable in   *)
(* one cache or readable in any number of them.  There are no lines, tags, *)
(* sets or levels here, only the state each cache has each block in; a     *)
(* copy may be lost at any time (evictions, invalidations from a higher    *)
(* level), and no copy appears except by an access.                        *)
(***************************************************************************)
EXTENDS Msi

CONSTANTS Caches, Blocks, BusOf

VARIABLE st        \* [Caches -> [Blocks -> LineStates]]

Peers(c) == {d \in Caches \ {c} : BusOf[d] = BusOf[c]}

\* An unrelated copy is kept or lost.
KeptOrLost(c, b) == st'[c][b] \in {st[c][b], INVALID}

\* A copy the reader's bus request may have demoted.
NotWritable(c, b) == st'[c][b] # MODIFIED /\ (st[c][b] = INVALID => st'[c][b] = INVALID)

OthersKeptOrLost(c, b) ==
  \A d \in Caches, x \in Blocks :
    ~(x = b /\ (d = c \/ d \in Peers(c))) => KeptOrLost(d, x)

Typed == st' \in [Caches -> [Blocks -> LineStates]]

Init == st = [c \in Caches |-> [b \in Blocks |-> INVALID]]

Write(c, b) ==
  /\ Typed
  /\ st'[c][b] = MODIFIED
  /\ \A d \in Peers(c) : st'[d][b] = INVALID
  /\ OthersKeptOrLost(c, b)

Read(c, b) ==
  /\ Typed
  /\ st'[c][b] = IF st[c][b] = INVALID THEN SHARED ELSE st[c][b]
  /\ \A d \in Peers(c) : NotWritable(d, b)
  /\ OthersKeptOrLost(c, b)

Lose == Typed /\ \A c \in Caches, b \in Blocks : KeptOrLost(c, b)

Next == \/ \E c \in Caches, b \in Blocks : Write(c, b) \/ Read(c, b)
        \/ Lose

Spec == Init /\ [][Next]_st

\* A block that is writable in one cache is in no other cache of its bus.
SingleWriter ==
  \A c \in Caches, b \in Blocks :
    st[c][b] = MODIFIED => \A d \in Peers(c) : st[d][b] = INVALID
================================================================================
