------------------------------- MODULE Clock -------------------------------
(***************************************************************************)
(* The clock that the two in-process caches compare their TTLs with.       *)
(***************************************************************************)
EXTENDS Integers

CONSTANT MaxTime   \* bound of the model

ASSUME TimeAssumption == MaxTime \in Nat

VARIABLE now

ClockInit == now = 0

\* time.monotonic() and time.time() both move on by one unit.
Tick == now < MaxTime /\ now' = now + 1

=============================================================================
