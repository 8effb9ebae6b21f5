----------------------------- MODULE Autoscaler -----------------------------
(***************************************************************************)
(* autoscaler/autoscaler.py: a loop that reads the number of workers from  *)
(* Docker and the load of the queue from Prometheus, decides how many      *)
(* workers there should be, and tells Docker, with a pause between two     *)
(* changes.  A reading that fails is replaced by a default, a command that *)
(* fails is taken for done.                                                *)
(*                                                                         *)
(* One action is one turn of the loop; the load changes in between.  Turns *)
(* that end in `continue` do not sleep; those in the time of one pause are *)
(* one turn here, which makes no difference because they change nothing    *)
(* but a counter that is past its limit.                                   *)
(***************************************************************************)
EXTENDS Integers

CONSTANTS Loads,          \* [delay, length]: queue delay in ms, jobs pending
          Pause,          \* seconds from one turn to the next, at least 5
          MaxScaleMishaps

MinWorkers == 2
MaxWorkers == 8
MinStableWorkers == 4
ScaleOutCooldown == 10
ScaleInCooldown == 90
MinUptimeBeforeScaleIn == 60
ScaleInGracePeriod == 120
LowCycles == 5            \* low readings in a row before workers are removed

ASSUME ScaleAssumption ==
  /\ Loads \subseteq [delay : Nat, length : Nat]
  /\ Pause \in 5 .. ScaleInGracePeriod
  /\ MaxScaleMishaps \in Nat

VARIABLES load,
          workers,      \* containers that run
          lowCount,     \* low_delay_counter, up to LowCycles
          since,        \* now - last_scale_time, up to ScaleInGracePeriod
          calm,         \* turns in a row at which the load was low
          steady,       \* seconds since the number of workers changed
          scaleMishaps

scaleVars == <<load, workers, lowCount, since, calm, steady, scaleMishaps>>

ScaleTypeOK ==
  /\ load \in Loads
  /\ workers \in MinWorkers .. MaxWorkers
  /\ lowCount \in 0 .. LowCycles /\ calm \in 0 .. LowCycles
  /\ since \in 0 .. ScaleInGracePeriod /\ steady \in 0 .. ScaleInGracePeriod
  /\ scaleMishaps \in 0 .. MaxScaleMishaps

ScaleInit ==
  /\ load \in Loads
  /\ workers \in MinWorkers .. MaxWorkers
  /\ lowCount = 0 /\ calm = 0
  /\ since = ScaleInGracePeriod /\ steady = ScaleInGracePeriod
  /\ scaleMishaps = 0

-----------------------------------------------------------------------------
AtMost(x, limit) == IF x < limit THEN x ELSE limit
AtLeast(x, limit) == IF x > limit THEN x ELSE limit

High(delay, length) == delay > 200 \/ length > 20
Extreme(delay, length) == delay > 1000 \/ length > 50
Low(delay, length) == delay < 20 /\ length < 2

(* Mutant of CountLow: a reading that is not low does not start over. *)
CountLowKept(delay, length) ==
  IF Low(delay, length) THEN AtMost(lowCount + 1, LowCycles) ELSE lowCount

CountLow(delay, length) ==
  IF Low(delay, length) THEN AtMost(lowCount + 1, LowCycles) ELSE 0

(* decide_scale, given the counter it leaves. *)
DecideScale(current, delay, length, count) ==
  IF Extreme(delay, length) THEN AtMost(current + 2, MaxWorkers)
  ELSE IF High(delay, length) THEN AtMost(current + 1, MaxWorkers)
  ELSE IF current <= MinStableWorkers THEN current
  ELSE IF count >= LowCycles THEN AtLeast(current - 1, MinWorkers)
  ELSE current

(* The pauses between two changes of the number of workers. *)
Due(desired, current) ==
  \/ desired > current /\ since > ScaleOutCooldown
  \/ /\ desired < current
     /\ since >= ScaleInGracePeriod
     /\ since > ScaleInCooldown /\ since > MinUptimeBeforeScaleIn

Elapsed(time) == AtMost(time + Pause, ScaleInGracePeriod)

ScaleMishap ==
  /\ scaleMishaps < MaxScaleMishaps
  /\ scaleMishaps' = scaleMishaps + 1

(* Mutant of ScaleWorkers: every turn sets last_scale_time. *)
ScaleWorkersRestarting(desired, current, done) ==
  /\ workers' = (IF Due(desired, current) /\ done THEN desired ELSE workers)
  /\ since' = Pause

(* scale_workers takes the number as it was decided. *)
ScaleWorkers(desired, current, done) ==
  IF Due(desired, current)
    THEN /\ workers' = (IF done THEN desired ELSE workers)
         /\ since' = Pause
    ELSE since' = Elapsed(since) /\ UNCHANGED workers

(* One turn of the loop with what it read. *)
Turn(current, delay, length, done) ==
  LET count == CountLow(delay, length)
      desired == DecideScale(current, delay, length, count)
  IN /\ lowCount' = count
     /\ ScaleWorkers(desired, current, done)
     /\ calm' = IF Low(load.delay, load.length)
                  THEN AtMost(calm + 1, LowCycles) ELSE 0
     /\ steady' = IF workers' # workers THEN Pause ELSE Elapsed(steady)
     /\ UNCHANGED load

(* Failures: docker ps (the default is MinWorkers), either query (the default
   is zero) or both, and docker compose scale. *)
FailedTurn ==
  /\ ScaleMishap
  /\ \/ Turn(MinWorkers, load.delay, load.length, TRUE)
     \/ \E delay \in {0, load.delay}, length \in {0, load.length} :
          Turn(workers, delay, length, TRUE)
     \/ Turn(workers, load.delay, load.length, FALSE)

Cycle ==
  \/ Turn(workers, load.delay, load.length, TRUE) /\ UNCHANGED scaleMishaps
  \/ FailedTurn

LoadChanges ==
  /\ \E other \in Loads \ {load} : load' = other
  /\ UNCHANGED <<workers, lowCount, since, calm, steady, scaleMishaps>>

ScaleNext == Cycle \/ LoadChanges
ScaleSpec == ScaleInit /\ [][ScaleNext]_scaleVars /\ WF_scaleVars(Cycle)

-----------------------------------------------------------------------------
(* Unless a reading or a command fails, workers are removed one at a time,
   after the load was low for LowCycles turns in a row, never within the
   grace period after the last change of their number, and not below the
   stable minimum. *)
ShrinkExplained ==
  [][workers' < workers =>
       \/ scaleMishaps' > 0
       \/ /\ workers' = workers - 1 /\ workers' >= MinStableWorkers
          /\ calm' = LowCycles /\ steady >= ScaleInGracePeriod]_scaleVars

(* Under a load that stays high the workers reach their maximum, under one
   that stays low they go back to the stable minimum, whatever happened
   before. *)
StaysHigh == <>[]High(load.delay, load.length)
StaysLow == <>[]Low(load.delay, load.length)
Converges ==
  /\ StaysHigh => <>[](workers = MaxWorkers)
  /\ StaysLow => <>[](workers <= MinStableWorkers)
=============================================================================
