--------------------------- MODULE MCVerifyJobs ---------------------------
(* Small instances of VerifyJobs for TLC. *)
EXTENDS VerifyJobs, TLC

Symmetry ==
  Permutations(Jobs) \cup Permutations(Handlers) \cup Permutations(Workers)
=============================================================================
