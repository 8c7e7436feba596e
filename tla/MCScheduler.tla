---------------------------- MODULE MCScheduler ----------------------------
(***************************************************************************)
(* Instances of Scheduler for TLC.                                         *)
(***************************************************************************)
EXTENDS Scheduler, TLC

Symmetry ==
  Permutations(Automations) \cup Permutations(Ticks) \cup Permutations(Operators)

=============================================================================
