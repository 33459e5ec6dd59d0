------------------------------ MODULE Journey ------------------------------
(***************************************************************************)
(* What the lifecycle promises of a user's way through its stages, without *)
(* rows, timestamps, transactions and answers of the mothership            *)
(* (src/app/conversion/lifecycle.py:1-16, the table of ADR-008): the rules *)
(* take her up by one stage at a time, and only to a stage whose events    *)
(* are stored; everything else is an override.                             *)
(***************************************************************************)
EXTENDS Naturals

CONSTANTS
  Travellers,   \* the users
  Top           \* the number of stages; the first is where everybody starts

VARIABLES
  stage,      \* by user: where she is
  earned,     \* by user: the stages whose events are stored
  overrides   \* by user: how often an override moved her

jvars == <<stage, earned, overrides>>

JourneyInit ==
  /\ stage = [u \in Travellers |-> 1]
  /\ earned = [u \in Travellers |-> {1}]
  /\ overrides = [u \in Travellers |-> 0]

\* Something is stored that earns u more stages, or none.
Earn(u) ==
  \E more \in SUBSET (1 .. Top) :
    earned' = [earned EXCEPT ![u] = @ \union more]

Store(u) == Earn(u) /\ UNCHANGED <<stage, overrides>>

\* A rule fires, on an event that may be stored with it.
Climb(u) ==
  /\ Earn(u)
  /\ stage[u] + 1 \in earned'[u]
  /\ stage' = [stage EXCEPT ![u] = @ + 1]
  /\ UNCHANGED overrides

Lift(u) ==
  /\ \E to \in 1 .. Top : stage' = [stage EXCEPT ![u] = to]
  /\ overrides' = [overrides EXCEPT ![u] = @ + 1]
  /\ UNCHANGED earned

JourneyNext == \E u \in Travellers : Store(u) \/ Climb(u) \/ Lift(u)

JourneySpec == JourneyInit /\ [][JourneyNext]_jvars

=============================================================================
