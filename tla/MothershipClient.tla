-------------------------- MODULE MothershipClient --------------------------
(***************************************************************************)
(* The client that asks the mothership, the shop outside this repository,  *)
(* what a user bought in the last months (src/app/conversion/mothership.py *)
(* and the two constants of lifecycle.py it is asked with).  It never      *)
(* fails its caller for want of an answer: what it cannot get or cannot    *)
(* read becomes zeros, which no rule takes for purchases.  Lifecycle runs  *)
(* the two attempts inside its transaction.                                *)
(***************************************************************************)
EXTENDS Naturals, Sequences

CONSTANTS
  REQUIRED_MONTHS,     \* FRANCHISEE_ACTIVE_REQUIRED_MONTHS
  MONTHLY_THRESHOLD    \* FRANCHISEE_ACTIVE_MONTHLY_THRESHOLD

ASSUME MonthsAssumption ==
  /\ REQUIRED_MONTHS \in Nat \ {0}
  /\ MONTHLY_THRESHOLD \in Nat

\* What one attempt may come back with: "no answer" in time, "5xx", "404", "4xx",
\* a "200" with its months, or one that is "garbled".  `months' is meant to start
\* with the latest; the client keeps the order it gets.
Answer(kind, months) == [kind |-> kind, months |-> months]

\* The Stub, which is used until the mothership is configured, and every
\* fallback of the HTTP client.
Zeros == [i \in 1 .. REQUIRED_MONTHS |-> 0]

\* The first attempt is repeated after these.
Retriable(answer) == answer.kind \in {"no answer", "5xx"}

\* Mutant of MonthlyPurchases: too short a list is padded with its last month.
PaddedWithLast(answer) ==
  IF answer.kind # "200" \/ answer.months = <<>> THEN Zeros
  ELSE [i \in 1 .. REQUIRED_MONTHS |->
         IF i <= Len(answer.months) THEN answer.months[i]
         ELSE answer.months[Len(answer.months)]]

\* get_monthly_purchases on its last attempt: padded or cut to REQUIRED_MONTHS.
MonthlyPurchases(answer) ==
  IF answer.kind # "200" THEN Zeros
  ELSE [i \in 1 .. REQUIRED_MONTHS |->
         IF i <= Len(answer.months) THEN answer.months[i] ELSE 0]

\* Path (a) of rule_franchisee_self_use_to_active.
Buying(monthly) == \A i \in 1 .. REQUIRED_MONTHS : monthly[i] > MONTHLY_THRESHOLD

\* What the rule means to ask: the answer lists enough months and the latest of
\* them are all above the threshold.
Vouches(answer) ==
  /\ answer.kind = "200"
  /\ Len(answer.months) >= REQUIRED_MONTHS
  /\ \A i \in 1 .. REQUIRED_MONTHS : answer.months[i] > MONTHLY_THRESHOLD

=============================================================================
