------------------------------ MODULE Delivery ------------------------------
(***************************************************************************)
(* What an outbox with one dispatcher promises, without batches, retries,  *)
(* rollbacks or a worker: an item is accepted, processed at least once     *)
(* while it is pending, and settled as sent only if it was processed; or   *)
(* it is given up.  Once settled it is not delivered again.                *)
(***************************************************************************)
CONSTANT Items

VARIABLES state,      \* by item: "absent", "pending", "sent" or "dead_letter"
          processed   \* by item: has its consumer processed it

vars == <<state, processed>>

Init ==
  /\ state = [i \in Items |-> "absent"]
  /\ processed = [i \in Items |-> FALSE]

\* Items are accepted together: those of one transaction.
Accept(S) ==
  /\ \A i \in S : state[i] = "absent"
  /\ state' = [i \in Items |-> IF i \in S THEN "pending" ELSE state[i]]
  /\ UNCHANGED processed

Deliver(i) ==
  /\ state[i] = "pending"
  /\ processed' = [processed EXCEPT ![i] = TRUE]
  /\ UNCHANGED state

\* Pending items, some or all of them, are settled together: those of one batch.
Settle ==
  /\ state' \in [Items -> {"absent", "pending", "sent", "dead_letter"}]
  /\ \A i \in Items :
       state'[i] # state[i] =>
         /\ state[i] = "pending"
         /\ state'[i] = "dead_letter" \/ (state'[i] = "sent" /\ processed[i])
  /\ UNCHANGED processed

Next == (\E S \in SUBSET Items : Accept(S)) \/ (\E i \in Items : Deliver(i)) \/ Settle

Spec == Init /\ [][Next]_vars

=============================================================================
