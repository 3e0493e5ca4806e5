---------------------------------- MODULE Msi ----------------------------------
(***************************************************************************)
(* The MSI coherency protocol of cache/msi.c: a pure table from the state  *)
(* of a line and an event to the next state of the line and the request    *)
(* the cache puts on its bus.                                              *)
(***************************************************************************)

INVALID  == "INVALID"
SHARED   == "SHARED"
MODIFIED == "MODIFIED"

LineStates == {INVALID, SHARED, MODIFIED}

\* Events a cache receives from its own CPU side and from its bus.
READ        == "READ"
WRITE       == "WRITE"
BUS_READ    == "BUS_READ"
BUS_READ_X  == "BUS_READ_X"
BUS_UPGRADE == "BUS_UPGRADE"

BusEvents == {BUS_READ, BUS_READ_X, BUS_UPGRADE}
NoRequest == "NONE"      \* *bus_request = -1

\* Mutated forms of NewState: a snooped read leaves a writable copy writable; a
\* snooped request to write leaves a readable copy.
NewStateReadKeepsOwner(old, event) ==
  CASE event = WRITE                -> MODIFIED
    [] event = READ /\ old = INVALID -> SHARED
    [] event \in {READ, BUS_READ} /\ old # INVALID -> old
    [] OTHER                        -> INVALID
NewStateReadXShares(old, event) ==
  CASE event = WRITE                                 -> MODIFIED
    [] event = READ                                  -> IF old = INVALID THEN SHARED ELSE old
    [] event \in {BUS_READ, BUS_READ_X} /\ old # INVALID -> SHARED
    [] OTHER                                         -> INVALID

\* The returned state.
NewState(old, event) ==
  CASE event = WRITE                    -> MODIFIED
    [] event = READ /\ old = INVALID     -> SHARED
    [] event = READ /\ old # INVALID     -> old
    [] event = BUS_READ /\ old = INVALID -> INVALID
    [] event = BUS_READ /\ old # INVALID -> SHARED
    [] OTHER                            -> INVALID

\* Mutated form of BusRequest: a write hit on a shared line is not announced.
BusRequestSilentUpgrade(old, event) ==
  CASE event = WRITE /\ old = INVALID -> BUS_READ_X
    [] event = READ  /\ old = INVALID -> BUS_READ
    [] OTHER                         -> NoRequest

\* What is left in *bus_request.
BusRequest(old, event) ==
  CASE event = WRITE /\ old = INVALID -> BUS_READ_X
    [] event = WRITE /\ old = SHARED  -> BUS_UPGRADE
    [] event = READ  /\ old = INVALID -> BUS_READ
    [] OTHER                         -> NoRequest

FlushNeededOnEviction(old) == old = MODIFIED

================================================================================
