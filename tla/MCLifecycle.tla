---------------------------- MODULE MCLifecycle ----------------------------
(***************************************************************************)
(* Instances of Lifecycle for TLC: one user, the streak scaled down from   *)
(* 14 days to 2 and the slack from 7 to 1, the order threshold 6600.       *)
(***************************************************************************)
EXTENDS Lifecycle, TLC

Ev(type, day, amount) == [user |-> "ann", type |-> type, day |-> day, amount |-> amount]

\* What ann does on her way up, an order that is too small and one that is not
\* a number included.
Climb ==
  {Ev(DEEP, 1, NoAmount), Ev(DEEP, 2, NoAmount), Ev("franchise.cta_click", 1, NoAmount),
   Ev("mothership.first_order", 1, 6600), Ev("mothership.first_order", 1, 6599),
   Ev("mothership.first_order", 1, NaN)}

Shortcuts ==
  {Ev("subscription.premium_active", 1, NoAmount), Ev("franchise.cta_click", 1, NoAmount),
   Ev("mothership.first_order", 1, 6600)}

Lift == {[user |-> "ann", to |-> "franchisee_self_use"]}
Back == {[user |-> "ann", to |-> "visitor"]}

\* Answers that vouch for ann, and every way of not doing so: a failure that is
\* tried again, one that is not, too few months, and one month at the threshold.
MCAnswers ==
  {Answer("200", <<30001, 30001, 30001, 0>>), Answer("200", <<30001, 30001>>),
   Answer("200", <<30001, 30000, 30001>>), Answer("no answer", <<>>), Answer("404", <<>>)}

Symmetry == Permutations(Workers)

=============================================================================
