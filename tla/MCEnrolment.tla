---------------------------- MODULE MCEnrolment ----------------------------
(* Small instances of Enrolment for TLC. *)
EXTENDS Enrolment, TLC

(* For the runs that check invariants only. *)
Symmetry ==
  Permutations(Templates) \cup Permutations(Handlers) \cup Permutations(Processes)
=============================================================================
