------------------------- MODULE MCLivenessChallenge -------------------------
(* The instances of LivenessChallenge for TLC: constants are set in the .cfg
   files.  They need no symmetry, which the liveness property would not allow. *)
EXTENDS LivenessChallenge
=============================================================================
