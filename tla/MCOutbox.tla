------------------------------ MODULE MCOutbox ------------------------------
(***************************************************************************)
(* Instances of Outbox for TLC.  MAX_RETRIES is scaled down to 2 where the *)
(* question is not the number of attempts.                                 *)
(***************************************************************************)
EXTENDS Outbox

\* Events 1 and 3 are ann's, event 2 is bob's.
MCUserOf == [e \in Events |-> IF e = 2 THEN "bob" ELSE "ann"]
AllAnn == [e \in Events |-> "ann"]

=============================================================================
