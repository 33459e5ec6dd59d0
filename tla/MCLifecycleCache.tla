-------------------------- MODULE MCLifecycleCache --------------------------
(***************************************************************************)
(* Instances of LifecycleCache for TLC, with the requests of MCLifecycle.  *)
(***************************************************************************)
EXTENDS LifecycleCache, MCLifecycle

=============================================================================
