---------------------------- MODULE JobContract ----------------------------
(***************************************************************************)
(* What the verification queue promises about each job, without saying how *)
(* jobs are stored, batched or processed: a job is accepted once, claimed  *)
(* once, and then answered or lost; a queued job is never lost, an answer  *)
(* is never taken back and no job is queued a second time.                 *)
(***************************************************************************)
CONSTANT Jobs
VARIABLE phase

Phases == {"new", "queued", "claimed", "answered", "lost"}

Init == phase = [j \in Jobs |-> "new"]

Accept(j) == phase[j] = "new"    /\ phase' = [phase EXCEPT ![j] = "queued"]
Claim(j)  == phase[j] = "queued" /\ phase' = [phase EXCEPT ![j] = "claimed"]

(* Claimed jobs leave together when the batch or the process holding them
   ends: those of A answered, those of L without an answer. *)
Finish(A, L) ==
  /\ A \cap L = {}
  /\ \A j \in A \cup L : phase[j] = "claimed"
  /\ phase' = [j \in Jobs |-> IF j \in A THEN "answered"
                              ELSE IF j \in L THEN "lost" ELSE phase[j]]

Next ==
  \/ \E j \in Jobs : Accept(j) \/ Claim(j)
  \/ \E A, L \in SUBSET Jobs : Finish(A, L)

Spec == Init /\ [][Next]_phase
=============================================================================
