----------------------------- MODULE ServiceProofs -----------------------------
(* Proofs about the parts around the queue: the autoscaler, for any loads, any
   pause and any number of failures, the legacy routes, for any number of
   submissions, limits and troubles, and the verdict of a challenge, for streams
   of any length and frames of any faces.  The last section carries the types,
   and those of VerificationProofs, over to the specification that TLC runs. *)
EXTENDS MCService, VerificationProofs, WellFoundedInduction, TLAPS

-----------------------------------------------------------------------------
(* The autoscaler.  Without a failure its own counter and clock are the calm
   and the steadiness of what it controls. *)

ScaleInv ==
  /\ ScaleTypeOK
  /\ scaleMishaps = 0 => lowCount = calm /\ since = steady

LEMMA ScaleInitInv == ScaleInit => ScaleInv
  BY ScaleAssumption
  DEF ScaleInit, ScaleInv, ScaleTypeOK, LowCycles, ScaleInGracePeriod

LEMMA CountBounded ==
  ASSUME lowCount \in 0 .. LowCycles, NEW delay, NEW length
  PROVE  CountLow(delay, length) \in 0 .. LowCycles
  BY DEF CountLow, AtMost, LowCycles

LEMMA DecideBounded ==
  ASSUME NEW current \in MinWorkers .. MaxWorkers, NEW delay, NEW length, NEW count
  PROVE  DecideScale(current, delay, length, count) \in MinWorkers .. MaxWorkers
  BY DEF DecideScale, AtMost, AtLeast, MinWorkers, MaxWorkers, MinStableWorkers

LEMMA ElapsedBounded ==
  ASSUME NEW time \in 0 .. ScaleInGracePeriod
  PROVE  Elapsed(time) \in 0 .. ScaleInGracePeriod
  BY ScaleAssumption DEF Elapsed, AtMost, ScaleInGracePeriod

LEMMA TurnType ==
  ASSUME ScaleTypeOK, NEW current \in MinWorkers .. MaxWorkers, NEW delay,
         NEW length, NEW done, Turn(current, delay, length, done)
  PROVE  /\ load' \in Loads /\ workers' \in MinWorkers .. MaxWorkers
         /\ lowCount' \in 0 .. LowCycles /\ calm' \in 0 .. LowCycles
         /\ since' \in 0 .. ScaleInGracePeriod
         /\ steady' \in 0 .. ScaleInGracePeriod
<1> DEFINE count == CountLow(delay, length)
           desired == DecideScale(current, delay, length, count)
<1>1. /\ lowCount' = count /\ load' = load
      /\ ScaleWorkers(desired, current, done)
      /\ calm' = (IF Low(load.delay, load.length)
                    THEN AtMost(calm + 1, LowCycles) ELSE 0)
      /\ steady' = IF workers' # workers THEN Pause ELSE Elapsed(steady)
  BY DEF Turn
<1>2. count \in 0 .. LowCycles
  BY CountBounded DEF ScaleTypeOK
<1>3. desired \in MinWorkers .. MaxWorkers
  BY DecideBounded
<1>4. calm' \in 0 .. LowCycles
  BY <1>1 DEF AtMost, LowCycles, ScaleTypeOK
<1>5. Pause \in 0 .. ScaleInGracePeriod
  BY ScaleAssumption DEF ScaleInGracePeriod
<1>6. /\ Elapsed(since) \in 0 .. ScaleInGracePeriod
      /\ Elapsed(steady) \in 0 .. ScaleInGracePeriod
  BY ElapsedBounded DEF ScaleTypeOK
<1> HIDE DEF count, desired
<1>7. /\ workers' \in MinWorkers .. MaxWorkers
      /\ since' \in 0 .. ScaleInGracePeriod
  BY <1>1, <1>3, <1>5, <1>6 DEF ScaleWorkers, ScaleTypeOK
<1> QED BY <1>1, <1>2, <1>4, <1>5, <1>6, <1>7 DEF ScaleTypeOK

(* A turn that read the truth and whose command was carried out. *)
LEMMA TrueTurn ==
  ASSUME ScaleInv, scaleMishaps = 0, Turn(workers, load.delay, load.length, TRUE)
  PROVE  /\ lowCount' = calm' /\ since' = steady'
         /\ workers' < workers =>
              /\ workers' = workers - 1 /\ workers' >= MinStableWorkers
              /\ calm' = LowCycles /\ steady >= ScaleInGracePeriod
<1> DEFINE count == CountLow(load.delay, load.length)
           desired == DecideScale(workers, load.delay, load.length, count)
<1>1. /\ lowCount' = count
      /\ ScaleWorkers(desired, workers, TRUE)
      /\ calm' = (IF Low(load.delay, load.length)
                    THEN AtMost(calm + 1, LowCycles) ELSE 0)
      /\ steady' = IF workers' # workers THEN Pause ELSE Elapsed(steady)
  BY DEF Turn
<1>2. /\ lowCount = calm /\ since = steady /\ workers \in MinWorkers .. MaxWorkers
      /\ lowCount \in 0 .. LowCycles
  BY DEF ScaleInv, ScaleTypeOK
<1>3. count = calm' /\ count \in 0 .. LowCycles
  BY <1>1, <1>2, CountBounded DEF CountLow
<1>4. desired \in MinWorkers .. MaxWorkers
  BY <1>2, DecideBounded
<1>5. desired < workers =>
        desired = workers - 1 /\ desired >= MinStableWorkers /\ count >= LowCycles
  BY <1>2 DEF DecideScale, AtMost, AtLeast, MinWorkers, MaxWorkers,
              MinStableWorkers
<1> HIDE DEF count, desired
<1>6. CASE Due(desired, workers)
  <2>1. workers' = desired /\ since' = Pause
    BY <1>1, <1>6 DEF ScaleWorkers
  <2>2. desired # workers
    BY <1>2, <1>4, <1>6 DEF Due, MinWorkers, MaxWorkers
  <2>3. desired < workers => since >= ScaleInGracePeriod
    BY <1>2, <1>4, <1>6 DEF Due, MinWorkers, MaxWorkers
  <2>4. desired < workers => count = LowCycles
    BY <1>3, <1>5 DEF LowCycles
  <2> QED BY <1>1, <1>2, <1>3, <1>5, <2>1, <2>2, <2>3, <2>4
<1>7. CASE ~Due(desired, workers)
  <2>1. workers' = workers /\ since' = Elapsed(since)
    BY <1>1, <1>7 DEF ScaleWorkers
  <2>2. ~(workers' < workers)
    BY <1>2, <2>1 DEF MinWorkers, MaxWorkers
  <2> QED BY <1>1, <1>2, <1>3, <2>1, <2>2
<1> QED BY <1>6, <1>7

LEMMA ScaleStep == ScaleInv /\ [ScaleNext]_scaleVars => ScaleInv'
<1> SUFFICES ASSUME ScaleInv, [ScaleNext]_scaleVars PROVE ScaleInv'
  OBVIOUS
<1>1. scaleMishaps \in 0 .. MaxScaleMishaps /\ MaxScaleMishaps \in Nat
      /\ workers \in MinWorkers .. MaxWorkers
  BY ScaleAssumption DEF ScaleInv, ScaleTypeOK
<1>2. CASE /\ Turn(workers, load.delay, load.length, TRUE)
           /\ UNCHANGED scaleMishaps
  <2>1. ScaleTypeOK'
    BY <1>1, <1>2, TurnType DEF ScaleInv, ScaleTypeOK
  <2>2. scaleMishaps' = 0 => lowCount' = calm' /\ since' = steady'
    BY <1>2, TrueTurn
  <2> QED BY <2>1, <2>2 DEF ScaleInv
<1>3. CASE FailedTurn
  <2>1. PICK current, delay, length, done :
          current \in MinWorkers .. MaxWorkers /\ Turn(current, delay, length, done)
    <3>1. MinWorkers \in MinWorkers .. MaxWorkers
      BY DEF MinWorkers, MaxWorkers
    <3>2. \/ Turn(MinWorkers, load.delay, load.length, TRUE)
          \/ \E delay, length : Turn(workers, delay, length, TRUE)
          \/ Turn(workers, load.delay, load.length, FALSE)
      BY <1>3 DEF FailedTurn
    <3> QED BY <1>1, <3>1, <3>2
  <2>2. scaleMishaps' \in 0 .. MaxScaleMishaps /\ scaleMishaps' # 0
    BY <1>1, <1>3 DEF FailedTurn, ScaleMishap
  <2> QED BY <2>1, <2>2, TurnType DEF ScaleInv, ScaleTypeOK
<1>4. CASE LoadChanges
  BY <1>4 DEF LoadChanges, ScaleInv, ScaleTypeOK
<1>5. CASE UNCHANGED scaleVars
  BY <1>5 DEF scaleVars, ScaleInv, ScaleTypeOK
<1> QED BY <1>2, <1>3, <1>4, <1>5 DEF ScaleNext, Cycle

(* The number of workers, the counter and the clocks of autoscaler.py stay
   within their limits, whatever the loop reads and whatever fails. *)
THEOREM ScaleTypeCorrect == ScaleSpec => []ScaleTypeOK
<1>1. ScaleInv => ScaleTypeOK
  BY DEF ScaleInv
<1> QED BY <1>1, ScaleInitInv, ScaleStep, PTL DEF ScaleSpec

(* decide_scale and scale_workers remove workers one at a time, after a load
   low long enough and a pause long enough, above the stable minimum: for any
   loads, and for any number of failures up to the first that lies. *)
THEOREM ShrinkIsExplained == ScaleSpec => ShrinkExplained
<1>1. ScaleInv /\ [ScaleNext]_scaleVars =>
        [workers' < workers =>
           \/ scaleMishaps' > 0
           \/ /\ workers' = workers - 1 /\ workers' >= MinStableWorkers
              /\ calm' = LowCycles /\ steady >= ScaleInGracePeriod]_scaleVars
  <2> SUFFICES ASSUME ScaleInv, ScaleNext, workers' < workers, ~(scaleMishaps' > 0)
               PROVE  /\ workers' = workers - 1 /\ workers' >= MinStableWorkers
                      /\ calm' = LowCycles /\ steady >= ScaleInGracePeriod
    OBVIOUS
  <2>1. scaleMishaps \in Nat /\ workers \in Int
    BY ScaleAssumption DEF ScaleInv, ScaleTypeOK, MinWorkers, MaxWorkers
  <2>2. ~FailedTurn
    <3>1. FailedTurn => ScaleMishap
      BY DEF FailedTurn
    <3> QED BY <2>1, <3>1 DEF ScaleMishap
  <2>3. ~LoadChanges
    BY <2>1 DEF LoadChanges
  <2>4. /\ Turn(workers, load.delay, load.length, TRUE)
        /\ scaleMishaps' = scaleMishaps
    BY <2>2, <2>3 DEF ScaleNext, Cycle
  <2> QED BY <2>1, <2>4, TrueTurn
<1> QED BY <1>1, ScaleInitInv, ScaleStep, PTL DEF ScaleSpec, ShrinkExplained
-----------------------------------------------------------------------------
(* The legacy routes.  Where a submission can be, by its route and by whether
   it counted itself active. *)

Fits(kind, step, held) ==
  /\ step \in {"gate", "inflight", "reserve", "zero"} => ~held
  /\ step = "release" => held
  /\ step = "inflight" => kind = "async"
  /\ kind = "base64" => ~held /\ step \notin {"reserve", "zero"}

Keys == {"verify", "verify_async"}

RouteTypes ==
  /\ submitted \in [Submissions -> Submission]
  /\ at \in [Submissions -> Steps]
  /\ reply \in [Submissions -> {Nobody, "pending", "refused", "limited", "failed"}]
  /\ slot \in [Submissions -> BOOLEAN]
  /\ inSystem \in Int
  /\ rate \in [Keys -> Nat] /\ window \in [Keys -> BOOLEAN]
  /\ routeLapses \in Nat /\ routeMishaps \in Nat

Places == \A s \in Submissions : Fits(submitted[s].kind, at[s], slot[s])

(* The counter is bounded by the slots that will be given back and those that
   failures cost from above, by the slots owed from below until an expiry. *)
Counts ==
  /\ inSystem <= Cardinality(Living) + routeMishaps
  /\ routeMishaps = 0 /\ inSystem < 0 =>
       \E s \in Submissions : at[s] = "zero"
  /\ routeLapses = 0 =>
       /\ inSystem >= Cardinality(Owing)
       /\ Cardinality(Active) <= MaxActive
       /\ \A s \in Submissions : at[s] # "zero"

RouteInv == RouteTypes /\ Places /\ Counts /\ WindowSet

LEMMA OwingFinite ==
  /\ IsFiniteSet(Owing) /\ IsFiniteSet(Living) /\ IsFiniteSet(Active)
  /\ Living \subseteq Owing /\ Active \subseteq Owing
  /\ Cardinality(Owing) \in Nat /\ Cardinality(Living) \in Nat
  /\ Cardinality(Active) \in Nat
<1>1. Owing \subseteq Submissions /\ Living \subseteq Owing /\ Active \subseteq Owing
  BY DEF Owing, Living, Active
<1> QED BY <1>1, FS_Subset, FS_CardinalityType, RouteAssumption

LEMMA RouteInitInv == RouteInit => RouteInv
<1> SUFFICES ASSUME RouteInit PROVE RouteInv
  OBVIOUS
<1>1. submitted \in [Submissions -> Submission]
  BY DEF RouteInit
<1>2. \A s \in Submissions : at[s] = Route[submitted[s].kind][1] /\ ~slot[s]
  BY DEF RouteInit
<1>3. \A s \in Submissions : submitted[s].kind \in {"file", "async", "base64"}
  BY <1>1 DEF Submission, Route
<1>4. \A s \in Submissions :
        at[s] = (IF submitted[s].kind = "base64" THEN "rate" ELSE "gate")
  BY <1>2, <1>3 DEF Route
<1>5. at \in [Submissions -> Steps]
  BY <1>4 DEF RouteInit, Steps
<1>6. RouteTypes
  BY <1>1, <1>5 DEF RouteInit, RouteTypes, Keys
<1>7. Places
  BY <1>2, <1>4 DEF Places, Fits
<1>8. /\ Owing = {} /\ Living = {} /\ Active = {} /\ inSystem = 0
      /\ MaxActive \in Nat /\ routeMishaps = 0
  BY <1>2, RouteAssumption DEF Owing, Living, Active, RouteInit
<1>9. Counts
  BY <1>4, <1>8, FS_EmptySet DEF Counts
<1>10. WindowSet
  <2>1. Locked = {}
    BY DEF RouteInit, Locked
  <2> QED BY <1>8, <2>1, FS_EmptySet DEF WindowSet
<1> QED BY <1>6, <1>7, <1>9, <1>10 DEF RouteInv

(* A step that neither counts nor gives a slot back. *)
LEMMA QuietCounts ==
  ASSUME RouteTypes, Counts, inSystem' = inSystem,
         routeLapses' \in Nat, routeLapses' >= routeLapses,
         routeMishaps' \in Nat, routeMishaps' >= routeMishaps,
         Owing' \subseteq Owing, Active' \subseteq Active,
         \/ Living' = Living
         \/ /\ routeMishaps' = routeMishaps + 1
            /\ \E s \in Submissions : Living' = Living \ {s},
         \A s \in Submissions : at'[s] = "zero" => at[s] = "zero",
         routeMishaps' = 0 =>
           \A s \in Submissions : at[s] = "zero" => at'[s] = "zero"
  PROVE  Counts'
<1>1. /\ Cardinality(Owing') <= Cardinality(Owing)
      /\ Cardinality(Active') <= Cardinality(Active)
      /\ Cardinality(Owing') \in Nat /\ Cardinality(Active') \in Nat
  BY OwingFinite, FS_Subset, FS_CardinalityType
<1>2. /\ Cardinality(Owing) \in Nat /\ Cardinality(Active) \in Nat
      /\ inSystem \in Int /\ MaxActive \in Nat
      /\ routeLapses \in Nat /\ routeMishaps \in Nat
  BY OwingFinite, RouteAssumption DEF RouteTypes
<1>3. inSystem' <= Cardinality(Living)' + routeMishaps'
  <2>1. Cardinality(Living) \in Nat
    BY OwingFinite
  <2>2. CASE Living' = Living
    BY <1>2, <2>1, <2>2 DEF Counts
  <2>3. ASSUME NEW s \in Submissions, Living' = Living \ {s},
               routeMishaps' = routeMishaps + 1
        PROVE  inSystem' <= Cardinality(Living)' + routeMishaps'
    <3>1. /\ Cardinality(Living') \in Nat
          /\ Cardinality(Living') >= Cardinality(Living) - 1
      BY <2>1, <2>3, OwingFinite, FS_RemoveElement, FS_CardinalityType
    <3> QED BY <1>2, <2>1, <2>3, <3>1 DEF Counts
  <2> QED BY <2>2, <2>3
<1>4. routeMishaps' = 0 /\ inSystem' < 0 =>
        \E s \in Submissions : at'[s] = "zero"
  BY <1>2 DEF Counts
<1>5. routeLapses' = 0 =>
        /\ inSystem' >= Cardinality(Owing)'
        /\ Cardinality(Active)' <= MaxActive
        /\ \A s \in Submissions : at'[s] # "zero"
  BY <1>1, <1>2 DEF Counts
<1> QED BY <1>3, <1>4, <1>5 DEF Counts

(* A submission that goes from one step to another, or ends, without a call
   to the counter. *)
LEMMA GoesOn ==
  ASSUME RouteInv, NEW s \in Submissions, NEW to \in Steps,
         UNCHANGED <<submitted, slot, inSystem, routeLapses>>,
         at[s] \notin {"end", "dead"}, to # "zero",
         at' = [at EXCEPT ![s] = to],
         \/ reply' = reply
         \/ \E code \in {"pending", "refused", "limited", "failed"} :
              reply' = [reply EXCEPT ![s] = code],
         routeMishaps' \in {routeMishaps, routeMishaps + 1},
         Fits(submitted[s].kind, to, slot[s]),
         (to \in {"end", "dead"} /\ slot[s]) \/ at[s] = "zero" =>
           routeMishaps' = routeMishaps + 1
  PROVE  Places' /\ Counts'
<1>1. /\ at \in [Submissions -> Steps] /\ slot \in [Submissions -> BOOLEAN]
      /\ routeLapses \in Nat /\ routeMishaps \in Nat
  BY DEF RouteInv, RouteTypes
<1>2. at'[s] = to /\ \A t \in Submissions \ {s} : at'[t] = at[t]
  BY <1>1
<1>3. Places'
  BY <1>2 DEF RouteInv, Places
<1>4. \A t \in Submissions : reply'[t] = Nobody => reply[t] = Nobody
  BY RouteAssumption DEF RouteInv, RouteTypes
<1>5. Owing' \subseteq Owing /\ Active' \subseteq Active
  BY <1>2, <1>4 DEF Owing, Living, Active
<1>6. \/ Living' = Living
      \/ routeMishaps' = routeMishaps + 1 /\ Living' = Living \ {s}
  <2>1. CASE to \in {"end", "dead"} /\ slot[s]
    BY <1>2, <2>1 DEF Owing, Living
  <2>2. CASE ~(to \in {"end", "dead"} /\ slot[s])
    BY <1>2, <2>2 DEF Owing, Living
  <2> QED BY <2>1, <2>2
<1>7. routeMishaps' = 0 =>
        \A t \in Submissions : at[t] = "zero" => at'[t] = "zero"
  BY <1>1, <1>2
<1>8. \A t \in Submissions : at'[t] = "zero" => at[t] = "zero"
  BY <1>2
<1> QED BY <1>1, <1>3, <1>5, <1>6, <1>7, <1>8, QuietCounts DEF RouteInv

(* A step locks no counter, or one at the cost of a failure. *)
LEMMA FewLocked ==
  ASSUME WindowSet, routeMishaps \in Nat,
         \/ Locked' \subseteq Locked /\ routeMishaps' \in {routeMishaps, routeMishaps + 1}
         \/ /\ \E key \in Keys : Locked' \subseteq Locked \cup {key}
            /\ routeMishaps' = routeMishaps + 1
  PROVE  WindowSet'
<1>1. IsFiniteSet(Locked) /\ Cardinality(Locked) \in Nat
  <2>1. IsFiniteSet({"verify"})
    BY FS_Singleton
  <2>2. IsFiniteSet({"verify"} \cup {"verify_async"})
    BY <2>1, FS_AddElement
  <2>3. Locked \subseteq {"verify"} \cup {"verify_async"}
    BY DEF Locked
  <2> QED BY <2>2, <2>3, FS_Subset, FS_CardinalityType
<1>2. CASE Locked' \subseteq Locked /\ routeMishaps' \in {routeMishaps, routeMishaps + 1}
  <2>1. Cardinality(Locked') <= Cardinality(Locked) /\ Cardinality(Locked') \in Nat
    BY <1>1, <1>2, FS_Subset, FS_CardinalityType
  <2> QED BY <1>1, <1>2, <2>1 DEF WindowSet
<1>3. ASSUME NEW key \in Keys, Locked' \subseteq Locked \cup {key},
             routeMishaps' = routeMishaps + 1
      PROVE  WindowSet'
  <2> DEFINE More == Locked \cup {key}
  <2>1. IsFiniteSet(More)
        /\ Cardinality(More) = IF key \in Locked THEN Cardinality(Locked)
                               ELSE Cardinality(Locked) + 1
    BY <1>1, FS_AddElement
  <2> HIDE DEF More
  <2>2. Locked' \subseteq More
    BY <1>3 DEF More
  <2>3. Cardinality(Locked') <= Cardinality(More) /\ Cardinality(Locked') \in Nat
    BY <2>1, <2>2, FS_Subset, FS_CardinalityType
  <2> QED BY <1>1, <1>3, <2>1, <2>3 DEF WindowSet
<1> QED BY <1>2, <1>3

(* A step that leaves the rate counters alone, and at most one request away
   from the expiry it was about to set. *)
LEMMA WindowKept ==
  ASSUME RouteInv, UNCHANGED <<submitted, rate, window>>,
         routeMishaps' \in {routeMishaps, routeMishaps + 1},
         \/ \A t \in Submissions : at[t] = "expire" => at'[t] = "expire"
         \/ /\ routeMishaps' = routeMishaps + 1
            /\ \E s \in Submissions :
                 \A t \in Submissions \ {s} : at[t] = "expire" => at'[t] = "expire"
  PROVE  WindowSet'
<1>1. routeMishaps \in Nat /\ WindowSet
  BY DEF RouteInv, RouteTypes
<1>2. \A t \in Submissions : RateKey(t)' = RateKey(t) /\ RateKey(t) \in Keys
  BY DEF RateKey, Keys
<1>3. CASE \A t \in Submissions : at[t] = "expire" => at'[t] = "expire"
  <2>1. Locked' \subseteq Locked
    BY <1>2, <1>3 DEF Locked
  <2> QED BY <1>1, <2>1, FewLocked
<1>4. ASSUME NEW s \in Submissions, routeMishaps' = routeMishaps + 1,
             \A t \in Submissions \ {s} : at[t] = "expire" => at'[t] = "expire"
      PROVE  WindowSet'
  <2>1. Locked' \subseteq Locked \cup {RateKey(s)}
    BY <1>2, <1>4 DEF Locked
  <2> QED BY <1>1, <1>2, <1>4, <2>1, FewLocked
<1> QED BY <1>3, <1>4

-----------------------------------------------------------------------------
(* The order of the checks. *)

LEMMA Position ==
  ASSUME NEW kind \in DOMAIN Route, NEW k \in DOMAIN Route[kind]
  PROVE  (CHOOSE j \in DOMAIN Route[kind] : Route[kind][j] = Route[kind][k]) = k
<1>1. \A i, j \in DOMAIN Route[kind] : Route[kind][i] = Route[kind][j] => i = j
  BY DEF Route
<1> QED BY <1>1

LEMMA Follows ==
  ASSUME NEW kind \in DOMAIN Route, NEW step, NEW held,
         step \in {"gate", "inflight", "reserve", "rate", "validate", "row"},
         Fits(kind, step, held)
  PROVE  \E k \in DOMAIN Route[kind] :
           /\ Route[kind][k] = step
           /\ Route[kind][k + 1] \in
                {"gate", "inflight", "reserve", "rate", "validate", "row", "upload"}
           /\ Fits(kind, Route[kind][k + 1], step = "reserve" \/ held)
<1>1. CASE kind = "file"
  <2> DEFINE route == Route.file
  <2>1. /\ DOMAIN route = 1 .. 6
        /\ route[1] = "gate" /\ route[2] = "reserve" /\ route[3] = "rate"
        /\ route[4] = "validate" /\ route[5] = "row" /\ route[6] = "upload"
    BY DEF Route
  <2>2. Route[kind] = route
    BY <1>1
  <2> HIDE DEF route
  <2>3. CASE step = "gate"
    BY <1>1, <2>1, <2>2, <2>3 DEF Fits
  <2>4. CASE step = "reserve"
    BY <1>1, <2>1, <2>2, <2>4 DEF Fits
  <2>5. CASE step \in {"rate", "validate", "row"}
    BY <1>1, <2>1, <2>2, <2>5 DEF Fits
  <2> QED BY <1>1, <2>3, <2>4, <2>5 DEF Fits
<1>2. CASE kind = "async"
  <2> DEFINE route == Route.async
  <2>1. /\ DOMAIN route = 1 .. 7
        /\ route[1] = "gate" /\ route[2] = "inflight" /\ route[3] = "reserve"
        /\ route[4] = "rate" /\ route[5] = "validate" /\ route[6] = "row"
        /\ route[7] = "upload"
    BY DEF Route
  <2>2. Route[kind] = route
    BY <1>2
  <2> HIDE DEF route
  <2>3. CASE step \in {"gate", "inflight"}
    BY <1>2, <2>1, <2>2, <2>3 DEF Fits
  <2>4. CASE step = "reserve"
    BY <1>2, <2>1, <2>2, <2>4 DEF Fits
  <2>5. CASE step = "rate"
    BY <1>2, <2>1, <2>2, <2>5 DEF Fits
  <2>6. CASE step = "validate"
    BY <1>2, <2>1, <2>2, <2>6 DEF Fits
  <2>7. CASE step = "row"
    BY <1>2, <2>1, <2>2, <2>7 DEF Fits
  <2> QED BY <2>3, <2>4, <2>5, <2>6, <2>7
<1>3. CASE kind = "base64"
  <2> DEFINE route == Route.base64
  <2>1. /\ DOMAIN route = 1 .. 5
        /\ route[1] = "rate" /\ route[2] = "gate" /\ route[3] = "validate"
        /\ route[4] = "row" /\ route[5] = "upload"
    BY DEF Route
  <2>2. Route[kind] = route
    BY <1>3
  <2> HIDE DEF route
  <2>3. step \in {"rate", "gate", "validate", "row"}
    BY <1>3 DEF Fits
  <2> QED BY <1>3, <2>1, <2>2, <2>3 DEF Fits
<1> QED BY <1>1, <1>2, <1>3 DEF Route

LEMMA Proceeds ==
  ASSUME RouteTypes, NEW s \in Submissions, NEW step, NEW held,
         step \in {"gate", "inflight", "reserve", "rate", "validate", "row"},
         Fits(submitted[s].kind, step, held), Proceed(s, step)
  PROVE  /\ reply' = reply
         /\ \E to \in {"gate", "inflight", "reserve", "rate", "validate", "row",
                       "upload"} :
              /\ at' = [at EXCEPT ![s] = to]
              /\ Fits(submitted[s].kind, to, step = "reserve" \/ held)
<1> DEFINE kind == submitted[s].kind
           i == CHOOSE k \in DOMAIN Route[kind] : Route[kind][k] = step
<1>1. kind \in DOMAIN Route
  BY DEF RouteTypes, Submission
<1>2. reply' = reply /\ at' = [at EXCEPT ![s] = Route[kind][i + 1]]
  BY DEF Proceed
<1>3. PICK k \in DOMAIN Route[kind] :
           /\ Route[kind][k] = step
           /\ Route[kind][k + 1] \in
                {"gate", "inflight", "reserve", "rate", "validate", "row", "upload"}
           /\ Fits(kind, Route[kind][k + 1], step = "reserve" \/ held)
  BY <1>1, Follows
<1>4. i = k
  BY <1>1, <1>3, Position
<1> QED BY <1>2, <1>3, <1>4

LEMMA Concludes ==
  ASSUME RouteTypes, NEW s \in Submissions, NEW code, Conclude(s, code, slot[s]),
         Fits(submitted[s].kind, at[s], slot[s])
  PROVE  /\ reply' = [reply EXCEPT ![s] = code]
         /\ \E to \in {"release", "end"} :
              /\ at' = [at EXCEPT ![s] = to] /\ (to = "end" => ~slot[s])
              /\ Fits(submitted[s].kind, to, slot[s])
<1>1. slot[s] \in BOOLEAN
  BY DEF RouteTypes
<1> QED BY <1>1 DEF Conclude, Fits

-----------------------------------------------------------------------------
(* The steps. *)

Codes == {"pending", "refused", "limited", "failed"}

(* What the steps of a submission's handler between its calls to the counter
   have in common. *)
Moved(s) ==
  /\ UNCHANGED <<submitted, slot, inSystem, routeLapses>>
  /\ at[s] \notin {"end", "dead"}
  /\ reply' = reply \/ \E code \in Codes : reply' = [reply EXCEPT ![s] = code]
  /\ routeMishaps' \in {routeMishaps, routeMishaps + 1}
  /\ \E to \in Steps \ {"zero"} :
       /\ at' = [at EXCEPT ![s] = to]
       /\ Fits(submitted[s].kind, to, slot[s])
       /\ (to \in {"end", "dead"} /\ slot[s]) \/ at[s] = "zero" =>
            routeMishaps' = routeMishaps + 1

LEMMA MovedCounts ==
  ASSUME RouteInv, NEW s \in Submissions, Moved(s)
  PROVE  /\ Places' /\ Counts'
         /\ at' \in [Submissions -> Steps]
         /\ reply' \in [Submissions -> Codes \cup {Nobody}]
         /\ routeLapses' \in Nat /\ routeMishaps' \in Nat
<1>1. PICK to \in Steps \ {"zero"} :
        /\ at' = [at EXCEPT ![s] = to]
        /\ Fits(submitted[s].kind, to, slot[s])
        /\ (to \in {"end", "dead"} /\ slot[s]) \/ at[s] = "zero" =>
             routeMishaps' = routeMishaps + 1
  BY DEF Moved
<1>2. Places' /\ Counts'
  BY <1>1, GoesOn DEF Moved, Codes
<1>3. /\ at' \in [Submissions -> Steps]
      /\ reply' \in [Submissions -> Codes \cup {Nobody}]
      /\ routeLapses' \in Nat /\ routeMishaps' \in Nat
  BY <1>1 DEF Moved, RouteInv, RouteTypes, Codes
<1> QED BY <1>2, <1>3

LEMMA MovedInv ==
  ASSUME RouteInv, NEW s \in Submissions, Moved(s), UNCHANGED <<rate, window>>,
         at[s] = "expire" => routeMishaps' = routeMishaps + 1
  PROVE  RouteInv'
<1>1. \A t \in Submissions \ {s} : at'[t] = at[t]
  BY DEF Moved, RouteInv, RouteTypes
<1>2. WindowSet'
  <2>1. CASE at[s] = "expire"
    BY <1>1, <2>1, WindowKept DEF Moved
  <2>2. CASE at[s] # "expire"
    BY <1>1, <2>2, WindowKept DEF Moved
  <2> QED BY <2>1, <2>2
<1>3. RouteTypes'
  BY MovedCounts DEF RouteInv, RouteTypes, Moved, Codes
<1> QED BY <1>2, <1>3, MovedCounts DEF RouteInv

LEMMA ProceedsMoved ==
  ASSUME RouteInv, NEW s \in Submissions, NEW step,
         step \in {"gate", "inflight", "rate", "validate", "row"},
         at[s] = step \/ (at[s] = "expire" /\ step = "rate"), Proceed(s, step),
         UNCHANGED <<submitted, slot, inSystem, routeLapses, routeMishaps>>
  PROVE  Moved(s)
<1>1. Fits(submitted[s].kind, step, slot[s]) /\ slot[s] \in BOOLEAN
  BY DEF RouteInv, RouteTypes, Places, Fits
<1>2. /\ reply' = reply
      /\ \E to \in {"gate", "inflight", "reserve", "rate", "validate", "row",
                    "upload"} :
           /\ at' = [at EXCEPT ![s] = to]
           /\ Fits(submitted[s].kind, to, step = "reserve" \/ slot[s])
  BY <1>1, Proceeds DEF RouteInv
<1>3. PICK to \in {"gate", "inflight", "reserve", "rate", "validate", "row",
                   "upload"} :
        at' = [at EXCEPT ![s] = to] /\ Fits(submitted[s].kind, to, slot[s])
  BY <1>1, <1>2
<1>4. to \in Steps \ {"zero", "end", "dead"}
  BY DEF Steps
<1> QED BY <1>2, <1>3, <1>4 DEF Moved

LEMMA ConcludesMoved ==
  ASSUME RouteInv, NEW s \in Submissions, NEW code \in Codes,
         at[s] \notin {"zero", "end", "dead"}, Conclude(s, code, slot[s]),
         UNCHANGED <<submitted, slot, inSystem, routeLapses>>,
         routeMishaps' \in {routeMishaps, routeMishaps + 1}
  PROVE  Moved(s)
<1>1. Fits(submitted[s].kind, at[s], slot[s])
  BY DEF RouteInv, Places
<1>2. /\ reply' = [reply EXCEPT ![s] = code]
      /\ \E to \in {"release", "end"} :
           /\ at' = [at EXCEPT ![s] = to] /\ (to = "end" => ~slot[s])
           /\ Fits(submitted[s].kind, to, slot[s])
  BY <1>1, Concludes DEF RouteInv
<1>3. {"release", "end"} \subseteq Steps \ {"zero"}
  BY DEF Steps
<1> QED BY <1>2, <1>3 DEF Moved

LEMMA HandlerInv ==
  ASSUME RouteInv, NEW s \in Submissions,
         \/ Gate(s) \/ Inflight(s) \/ Validate(s) \/ CreateRow(s)
         \/ UploadPhoto(s) \/ EnqueueJob(s) \/ ProcessDies(s) \/ ReleaseFails(s)
  PROVE  RouteInv'
<1> USE DEF counters, NoRouteMishap, Codes
<1>0. slot[s] \in BOOLEAN /\ Fits(submitted[s].kind, at[s], slot[s])
  BY DEF RouteInv, RouteTypes, Places
<1>1. CASE Gate(s)
  BY <1>1, ProceedsMoved, ConcludesMoved, MovedInv DEF Gate
<1>2. CASE Inflight(s)
  <2>1. ~slot[s]
    BY <1>0, <1>2 DEF Inflight, Fits
  <2> QED BY <1>0, <1>2, <2>1, ProceedsMoved, ConcludesMoved, MovedInv
          DEF Inflight
<1>3. CASE Validate(s)
  BY <1>3, ProceedsMoved, ConcludesMoved, MovedInv DEF Validate
<1>4. CASE CreateRow(s)
  <2>1. /\ UNCHANGED <<submitted, slot, inSystem, rate, window, routeLapses>>
        /\ at[s] = "row"
    BY <1>4 DEF CreateRow
  <2>2. \/ \E code \in Codes : Conclude(s, code, slot[s])
        \/ Proceed(s, "row") /\ UNCHANGED routeMishaps
    BY <1>4 DEF CreateRow
  <2>3. routeMishaps' \in {routeMishaps, routeMishaps + 1}
    BY <1>4 DEF CreateRow, RouteMishap
  <2> QED BY <2>1, <2>2, <2>3, ProceedsMoved, ConcludesMoved, MovedInv
<1>5. CASE UploadPhoto(s)
  <2>1. CASE /\ at' = [at EXCEPT ![s] = "enqueue"]
             /\ UNCHANGED <<reply, row, routeMishaps>>
    <3>1. Moved(s)
      <4>1. /\ "enqueue" \in Steps \ {"zero"}
            /\ Fits(submitted[s].kind, "enqueue", slot[s]) /\ at[s] = "upload"
        BY <1>0, <1>5 DEF UploadPhoto, Fits, Steps
      <4> QED BY <1>5, <2>1, <4>1 DEF UploadPhoto, Moved
    <3> QED BY <1>5, <3>1, MovedInv DEF UploadPhoto
  <2>2. CASE GivesUp(s)
    BY <1>5, <2>2, ConcludesMoved, MovedInv
    DEF UploadPhoto, RouteMishap, GivesUp
  <2> QED BY <1>5, <2>1, <2>2 DEF UploadPhoto
<1>6. CASE EnqueueJob(s)
  <2>1. \E code \in Codes : Conclude(s, code, slot[s])
    BY <1>6 DEF EnqueueJob, GivesUp
  <2>2. /\ routeMishaps' \in {routeMishaps, routeMishaps + 1}
        /\ UNCHANGED <<submitted, slot, inSystem, rate, window, routeLapses>>
        /\ at[s] = "enqueue"
    BY <1>6 DEF EnqueueJob, GivesUp, RouteMishap
  <2> QED BY <2>1, <2>2, ConcludesMoved, MovedInv
<1>7. CASE ProcessDies(s)
  <2>1. Moved(s)
    BY <1>0, <1>7 DEF ProcessDies, RouteMishap, Moved, Fits, Steps
  <2> QED BY <1>7, <2>1, MovedInv DEF ProcessDies, RouteMishap
<1>8. CASE ReleaseFails(s)
  <2>1. Moved(s)
    BY <1>0, <1>8 DEF ReleaseFails, RouteMishap, Moved, Fits, Steps
  <2> QED BY <1>8, <2>1, MovedInv DEF ReleaseFails
<1> QED BY <1>1, <1>2, <1>3, <1>4, <1>5, <1>6, <1>7, <1>8

(* A failed call may lock the counter of its request. *)
LEMMA FailedRate ==
  ASSUME RouteInv, NEW s \in Submissions, Moved(s), routeMishaps' = routeMishaps + 1,
         rate' \in [Keys -> Nat], window' \in [Keys -> BOOLEAN],
         \A other \in Keys \ {RateKey(s)} :
           rate'[other] = rate[other] /\ window'[other] = window[other]
  PROVE  RouteInv'
<1>1. /\ RateKey(s) \in Keys /\ WindowSet /\ routeMishaps \in Nat
      /\ \A t \in Submissions \ {s} : at'[t] = at[t]
      /\ \A t \in Submissions : RateKey(t)' = RateKey(t)
  BY DEF RouteInv, RouteTypes, Moved, RateKey, Keys
<1>2. Locked' \subseteq Locked \cup {RateKey(s)}
  <2> SUFFICES ASSUME NEW other \in Keys, other \in Locked', other # RateKey(s)
               PROVE  other \in Locked
    BY DEF Locked, Keys
  <2> QED BY <1>1 DEF Locked
<1>3. WindowSet'
  BY <1>1, <1>2, FewLocked
<1>4. RouteTypes'
  BY MovedCounts DEF RouteInv, RouteTypes, Moved, Codes
<1> QED BY <1>3, <1>4, MovedCounts DEF RouteInv

LEMMA RateInv ==
  ASSUME RouteInv, NEW s \in Submissions, CountRate(s) \/ SetExpiry(s)
  PROVE  RouteInv'
<1> DEFINE key == RateKey(s)
<1>1. /\ key \in Keys /\ rate \in [Keys -> Nat] /\ window \in [Keys -> BOOLEAN]
      /\ routeMishaps \in Nat /\ at \in [Submissions -> Steps]
      /\ slot[s] \in BOOLEAN /\ Fits(submitted[s].kind, at[s], slot[s])
  BY DEF RateKey, Keys, RouteInv, RouteTypes, Places
<1> HIDE DEF key
<1>2. CASE CountRate(s)
  <2> DEFINE count == rate[key] + 1
  <2>1. /\ at[s] = "rate" /\ count \in Nat
        /\ UNCHANGED <<submitted, slot, inSystem, window, routeLapses>>
    BY <1>1, <1>2 DEF CountRate
  <2>2. CASE /\ rate' = [rate EXCEPT ![key] = count]
             /\ at' = [at EXCEPT ![s] = "expire"] /\ UNCHANGED reply
             /\ UNCHANGED routeMishaps
    <3>1. Moved(s)
      <4>1. /\ "expire" \in Steps \ {"zero"}
            /\ Fits(submitted[s].kind, "expire", slot[s])
        BY <1>1, <2>1 DEF Fits, Steps
      <4> QED BY <2>1, <2>2, <4>1 DEF Moved
    <3>2. WindowSet'
      <4>1. /\ at'[s] = "expire" /\ \A t \in Submissions : RateKey(t)' = RateKey(t)
            /\ \A t \in Submissions : at[t] = "expire" => at'[t] = "expire"
        BY <1>1, <2>1, <2>2 DEF RateKey
      <4>2. ASSUME NEW other \in Keys, other \in Locked' PROVE other \in Locked
        <5>1. other # key
          BY <4>1, <4>2 DEF Locked, key
        <5>2. rate'[other] = rate[other]
          BY <1>1, <2>2, <5>1
        <5> QED BY <2>1, <4>1, <4>2, <5>2 DEF Locked
      <4>3. Locked' \subseteq Locked
        BY <4>2 DEF Locked, Keys
      <4> QED BY <1>1, <2>2, <4>3, FewLocked DEF RouteInv
    <3>3. RouteTypes'
      BY <1>1, <2>1, <2>2, <3>1, MovedCounts DEF RouteInv, RouteTypes, Codes
    <3> QED BY <3>1, <3>2, <3>3, MovedCounts DEF RouteInv
  <2>3. CASE /\ rate' = [rate EXCEPT ![key] = count] /\ count # 1
             /\ \/ Conclude(s, "limited", slot[s])
                \/ Proceed(s, "rate")
             /\ UNCHANGED routeMishaps
    <3>1. Moved(s)
      BY <2>1, <2>3, ProceedsMoved, ConcludesMoved DEF Codes
    <3>2. \A t \in Submissions : at[t] = "expire" => at'[t] = "expire"
      BY <1>1, <2>1, <3>1 DEF Moved
    <3>3. WindowSet'
      <4>1. \A t \in Submissions : RateKey(t)' = RateKey(t)
        BY <2>1 DEF RateKey
      <4>2. \A other \in Keys : rate'[other] > 0 => rate[other] > 0
        BY <1>1, <2>1, <2>3
      <4>3. Locked' \subseteq Locked
        BY <2>1, <3>2, <4>1, <4>2 DEF Locked, Keys
      <4> QED BY <1>1, <2>3, <4>3, FewLocked DEF RouteInv
    <3>4. RouteTypes'
      BY <1>1, <2>1, <2>3, <3>1, MovedCounts DEF RouteInv, RouteTypes, Codes
    <3> QED BY <3>1, <3>3, <3>4, MovedCounts DEF RouteInv
  <2>4. CASE /\ RouteMishap /\ Conclude(s, "failed", slot[s])
             /\ rate' \in {rate, [rate EXCEPT ![key] = count]}
    <3>1. Moved(s) /\ routeMishaps' = routeMishaps + 1
      BY <2>1, <2>4, ConcludesMoved DEF RouteMishap, Codes
    <3>2. /\ rate' \in [Keys -> Nat] /\ window' \in [Keys -> BOOLEAN]
          /\ UNCHANGED window
          /\ \A other \in Keys \ {key} : rate'[other] = rate[other]
      BY <1>1, <2>1, <2>4
    <3> QED BY <3>1, <3>2, FailedRate DEF key
  <2> QED BY <1>2, <2>2, <2>3, <2>4 DEF CountRate, OpensWindow, key
<1>3. CASE SetExpiry(s)
  <2>1. /\ at[s] = "expire"
        /\ UNCHANGED <<submitted, slot, inSystem, rate, routeLapses>>
    BY <1>3 DEF SetExpiry
  <2>2. CASE /\ window' = [window EXCEPT ![key] = TRUE]
             /\ Proceed(s, "rate") /\ UNCHANGED routeMishaps
    <3>1. Moved(s)
      BY <2>1, <2>2, ProceedsMoved
    <3>2. WindowSet'
      <4>1. /\ \A t \in Submissions : RateKey(t)' = RateKey(t)
            /\ \A t \in Submissions \ {s} : at'[t] = at[t]
        BY <1>1, <2>1, <3>1 DEF Moved, RateKey
      <4>2. ASSUME NEW other \in Keys, other \in Locked' PROVE other \in Locked
        <5>1. other # key /\ window'[other] = window[other]
          BY <1>1, <2>2, <4>2 DEF Locked
        <5> QED BY <2>1, <4>1, <4>2, <5>1 DEF Locked, key
      <4>3. Locked' \subseteq Locked
        BY <4>2 DEF Locked, Keys
      <4> QED BY <1>1, <2>2, <4>3, FewLocked DEF RouteInv
    <3>3. RouteTypes'
      BY <1>1, <2>1, <2>2, <3>1, MovedCounts DEF RouteInv, RouteTypes, Codes
    <3> QED BY <3>1, <3>2, <3>3, MovedCounts DEF RouteInv
  <2>3. CASE /\ RouteMishap /\ Conclude(s, "failed", slot[s])
             /\ window' \in {window, [window EXCEPT ![key] = TRUE]}
    <3>1. Moved(s) /\ routeMishaps' = routeMishaps + 1
      BY <2>1, <2>3, ConcludesMoved DEF RouteMishap, Codes
    <3>2. /\ rate' \in [Keys -> Nat] /\ window' \in [Keys -> BOOLEAN]
          /\ \A other \in Keys \ {key} :
               rate'[other] = rate[other] /\ window'[other] = window[other]
      BY <1>1, <2>1, <2>3
    <3> QED BY <3>1, <3>2, FailedRate DEF key
  <2> QED BY <1>3, <2>2, <2>3 DEF SetExpiry, key
<1> QED BY <1>2, <1>3

(* The calls to the counter. *)
LEMMA ReserveInv ==
  ASSUME RouteInv, NEW s \in Submissions, Reserve(s) PROVE RouteInv'
<1>1. /\ at[s] = "reserve" /\ ~slot[s]
      /\ Fits(submitted[s].kind, at[s], slot[s]) /\ Fits(submitted[s].kind, at[s], FALSE)
      /\ slot \in [Submissions -> BOOLEAN] /\ at \in [Submissions -> Steps]
      /\ reply \in [Submissions -> Codes \cup {Nobody}]
      /\ inSystem \in Int /\ routeMishaps \in Nat /\ routeLapses \in Nat
      /\ MaxActive \in Nat
  BY RouteAssumption
  DEF Reserve, RouteInv, RouteTypes, Places, Fits, Codes
<1>2. UNCHANGED <<submitted, rate, window, routeLapses>>
  BY DEF Reserve
<1>3. CASE /\ inSystem' = inSystem + 1
           /\ slot' = [slot EXCEPT ![s] = TRUE]
           /\ IF Admits(inSystem + 1)
                THEN Proceed(s, "reserve") ELSE Conclude(s, "limited", TRUE)
           /\ UNCHANGED routeMishaps
  <2>1. \E to \in Steps \ {"zero", "end", "dead", "reserve"} :
          /\ at' = [at EXCEPT ![s] = to]
          /\ Fits(submitted[s].kind, to, TRUE)
          /\ IF Admits(inSystem + 1)
               THEN reply' = reply
               ELSE reply' = [reply EXCEPT ![s] = "limited"]
    <3>1. CASE Admits(inSystem + 1)
      <4>1. /\ reply' = reply
            /\ \E to \in {"gate", "inflight", "reserve", "rate", "validate", "row",
                          "upload"} :
                 /\ at' = [at EXCEPT ![s] = to]
                 /\ Fits(submitted[s].kind, to, "reserve" = "reserve" \/ FALSE)
        BY <1>1, <1>3, <3>1, Proceeds DEF RouteInv
      <4>2. PICK to \in {"gate", "inflight", "reserve", "rate", "validate", "row",
                         "upload"} :
              at' = [at EXCEPT ![s] = to] /\ Fits(submitted[s].kind, to, TRUE)
        BY <4>1
      <4>3. to \in Steps \ {"zero", "end", "dead", "reserve"}
        BY <4>2 DEF Fits, Steps
      <4> QED BY <3>1, <4>1, <4>2, <4>3
    <3>2. CASE ~Admits(inSystem + 1)
      <4>1. at' = [at EXCEPT ![s] = "release"] /\ reply' = [reply EXCEPT ![s] = "limited"]
        BY <1>3, <3>2 DEF Conclude
      <4>2. "release" \in Steps \ {"zero", "end", "dead", "reserve"}
            /\ Fits(submitted[s].kind, "release", TRUE)
        BY <1>1 DEF Fits, Steps
      <4> QED BY <3>2, <4>1, <4>2
    <3> QED BY <3>1, <3>2
  <2>2. PICK to \in Steps \ {"zero", "end", "dead", "reserve"} :
          /\ at' = [at EXCEPT ![s] = to]
          /\ Fits(submitted[s].kind, to, TRUE)
          /\ IF Admits(inSystem + 1)
               THEN reply' = reply
               ELSE reply' = [reply EXCEPT ![s] = "limited"]
    BY <2>1
  <2>3. /\ at'[s] = to /\ slot'[s]
        /\ \A t \in Submissions \ {s} : at'[t] = at[t] /\ slot'[t] = slot[t]
    BY <1>1, <1>3, <2>2
  <2>4. RouteTypes'
    BY <1>1, <1>2, <1>3, <2>2 DEF RouteInv, RouteTypes, Codes
  <2>5. Places'
    BY <1>2, <2>2, <2>3 DEF RouteInv, Places
  <2>6. /\ Owing' = Owing \cup {s} /\ s \notin Owing
        /\ Living' = Living \cup {s} /\ s \notin Living
    BY <1>1, <2>3 DEF Owing, Living
  <2>7. /\ Cardinality(Owing)' = Cardinality(Owing) + 1
        /\ Cardinality(Living)' = Cardinality(Living) + 1
    BY <2>6, OwingFinite, FS_AddElement
  <2>8. \A t \in Submissions : at'[t] = "zero" <=> at[t] = "zero"
    BY <1>1, <2>3
  <2>9. /\ inSystem' <= Cardinality(Living)' + routeMishaps'
        /\ routeMishaps' = 0 /\ inSystem' < 0 =>
             \E t \in Submissions : at'[t] = "zero"
    BY <1>1, <1>3, <2>7, <2>8, OwingFinite DEF RouteInv, Counts
  <2>10. routeLapses' = 0 =>
          /\ inSystem' >= Cardinality(Owing)'
          /\ Cardinality(Active)' <= MaxActive
          /\ \A t \in Submissions : at'[t] # "zero"
    <3> SUFFICES ASSUME routeLapses = 0
                 PROVE  /\ inSystem' >= Cardinality(Owing)'
                        /\ Cardinality(Active)' <= MaxActive
      BY <1>2, <2>8 DEF RouteInv, Counts
    <3>1. inSystem' >= Cardinality(Owing)'
      BY <1>1, <1>3, <2>7, OwingFinite DEF RouteInv, Counts
    <3>2. CASE Admits(inSystem + 1)
      <4>1. /\ IsFiniteSet(Owing') /\ Active' \subseteq Owing'
            /\ Cardinality(Owing') \in Nat
        BY SMTT(30), <2>6, <2>7, OwingFinite, FS_AddElement DEF Owing, Living, Active
      <4>2. Cardinality(Active') <= Cardinality(Owing') /\ Cardinality(Active') \in Nat
        BY <4>1, FS_Subset, FS_CardinalityType
      <4>3. inSystem' <= MaxActive
        BY <1>3, <3>2 DEF Admits
      <4> QED BY <1>1, <1>3, <3>1, <4>1, <4>2, <4>3
    <3>3. CASE ~Admits(inSystem + 1)
      <4>1. Active' \subseteq Active
        <5>1. reply'[s] # Nobody
          BY <1>1, <2>2, <3>3, RouteAssumption
        <5>2. \A t \in Submissions \ {s} : reply'[t] = reply[t]
          BY <1>1, <2>2, <3>3
        <5> QED BY <2>3, <5>1, <5>2 DEF Active, Living, Owing
      <4>2. /\ Cardinality(Active') <= Cardinality(Active)
            /\ Cardinality(Active') \in Nat
        BY <4>1, OwingFinite, FS_Subset, FS_CardinalityType
      <4>3. Cardinality(Active) <= MaxActive
        BY DEF RouteInv, Counts
      <4> QED BY <1>1, <3>1, <4>2, <4>3, OwingFinite
    <3> QED BY <3>2, <3>3
  <2>11. WindowSet'
    BY <1>1, <1>2, <1>3, <2>3, WindowKept
  <2> QED BY <2>4, <2>5, <2>9, <2>10, <2>11 DEF RouteInv, Counts
<1>4. CASE /\ RouteMishap
           /\ inSystem' \in {inSystem, inSystem + 1}
           /\ Conclude(s, "failed", FALSE)
           /\ UNCHANGED slot
  <2>1. /\ routeMishaps' = routeMishaps + 1
        /\ at' = [at EXCEPT ![s] = "end"] /\ reply' = [reply EXCEPT ![s] = "failed"]
    BY <1>4 DEF RouteMishap, Conclude
  <2>2. at'[s] = "end" /\ \A t \in Submissions \ {s} : at'[t] = at[t]
    BY <1>1, <2>1
  <2>3. RouteTypes'
    BY <1>1, <1>2, <1>4, <2>1 DEF RouteInv, RouteTypes, Codes, Steps
  <2>4. Places'
    BY <1>1, <1>2, <1>4, <2>2 DEF RouteInv, Places, Fits
  <2>5. Owing' = Owing /\ Living' = Living
    BY <1>1, <1>4, <2>2 DEF Owing, Living
  <2>6. Active' \subseteq Active
    <3>1. \A t \in Submissions \ {s} : reply'[t] = reply[t]
      BY <1>1, <2>1
    <3>2. s \notin Active' /\ \A t \in Active' : t \in Submissions \ {s}
      BY <2>2 DEF Active, Living, Owing
    <3> QED BY <2>2, <2>5, <3>1, <3>2 DEF Active
  <2>7. /\ Cardinality(Active') <= Cardinality(Active)
        /\ Cardinality(Active') \in Nat
    BY <2>6, OwingFinite, FS_Subset, FS_CardinalityType
  <2>8. Counts'
    <3>1. routeLapses' = 0 =>
            /\ inSystem' >= Cardinality(Owing)'
            /\ Cardinality(Active)' <= MaxActive
            /\ \A t \in Submissions : at'[t] # "zero"
      BY <1>1, <1>2, <1>4, <2>2, <2>5, <2>7, OwingFinite DEF RouteInv, Counts
    <3>2. inSystem' <= Cardinality(Living)' + routeMishaps' /\ routeMishaps' # 0
      BY <1>1, <1>4, <2>1, <2>5, OwingFinite DEF RouteInv, Counts
    <3> QED BY <3>1, <3>2 DEF Counts
  <2>9. WindowSet'
    BY <1>1, <1>2, <2>1, WindowKept
  <2> QED BY <2>3, <2>4, <2>8, <2>9 DEF RouteInv
<1> QED BY <1>3, <1>4 DEF Reserve

LEMMA ReleaseInv ==
  ASSUME RouteInv, NEW s \in Submissions, Release(s) PROVE RouteInv'
<1> DEFINE to == IF inSystem - 1 < 0 THEN "zero" ELSE "end"
<1>1. /\ at[s] = "release" /\ slot[s]
      /\ Fits(submitted[s].kind, at[s], slot[s])
      /\ slot \in [Submissions -> BOOLEAN] /\ at \in [Submissions -> Steps]
      /\ inSystem \in Int /\ routeMishaps \in Nat /\ routeLapses \in Nat
      /\ MaxActive \in Nat
  BY RouteAssumption DEF Release, RouteInv, RouteTypes, Places, Fits
<1>2. /\ UNCHANGED <<submitted, reply, rate, window, routeLapses, routeMishaps>>
      /\ inSystem' = inSystem - 1 /\ slot' = [slot EXCEPT ![s] = FALSE]
      /\ at' = [at EXCEPT ![s] = to]
  BY DEF Release, NoRouteMishap
<1>3. /\ at'[s] = to /\ ~slot'[s] /\ to \in {"zero", "end"}
      /\ \A t \in Submissions \ {s} : at'[t] = at[t] /\ slot'[t] = slot[t]
  BY <1>1, <1>2
<1>4. RouteTypes'
  BY <1>1, <1>2 DEF RouteInv, RouteTypes, Steps
<1>5. Places'
  <2>1. Fits(submitted[s].kind, to, FALSE)
    BY <1>1 DEF Fits
  <2>2. slot'[s] = FALSE
    BY <1>1, <1>2
  <2> QED BY <1>2, <1>3, <2>1, <2>2 DEF RouteInv, Places
<1>6. /\ Owing' = Owing \ {s} /\ s \in Owing
      /\ Living' = Living \ {s} /\ s \in Living
  BY <1>1, <1>3 DEF Owing, Living
<1>7. /\ Cardinality(Owing)' = Cardinality(Owing) - 1
      /\ Cardinality(Living)' = Cardinality(Living) - 1
  BY <1>6, OwingFinite, FS_RemoveElement
<1>8. Active' \subseteq Active
  BY <1>2, <1>3, <1>6 DEF Active
<1>9. Cardinality(Active') <= Cardinality(Active) /\ Cardinality(Active') \in Nat
  BY <1>8, OwingFinite, FS_Subset, FS_CardinalityType
<1>10. Cardinality(Owing) \in Nat \ {0}
  BY <1>6, OwingFinite, FS_EmptySet
<1>11. /\ inSystem' <= Cardinality(Living)' + routeMishaps'
       /\ routeMishaps' = 0 /\ inSystem' < 0 =>
            \E t \in Submissions : at'[t] = "zero"
  BY <1>1, <1>2, <1>3, <1>7, OwingFinite DEF RouteInv, Counts
<1>12. routeLapses' = 0 =>
         /\ inSystem' >= Cardinality(Owing)'
         /\ Cardinality(Active)' <= MaxActive
         /\ \A t \in Submissions : at'[t] # "zero"
  <2> SUFFICES ASSUME routeLapses = 0
               PROVE  /\ inSystem' >= Cardinality(Owing)'
                      /\ Cardinality(Active)' <= MaxActive
                      /\ \A t \in Submissions : at'[t] # "zero"
    BY <1>2
  <2>1. inSystem >= Cardinality(Owing) /\ Cardinality(Active) <= MaxActive
    BY DEF RouteInv, Counts
  <2>2. to = "end"
    BY <1>1, <1>10, <2>1
  <2>3. \A t \in Submissions : at'[t] # "zero"
    BY <1>3, <2>2 DEF RouteInv, Counts
  <2> QED BY <1>1, <1>2, <1>7, <1>9, <1>10, <2>1, <2>3, OwingFinite
<1>13. WindowSet'
  BY <1>1, <1>2, <1>3, WindowKept
<1> QED BY <1>4, <1>5, <1>11, <1>12, <1>13 DEF RouteInv, Counts

LEMMA SetZeroInv ==
  ASSUME RouteInv, NEW s \in Submissions, SetZero(s) PROVE RouteInv'
<1>1. /\ at[s] = "zero" /\ at' = [at EXCEPT ![s] = "end"] /\ inSystem' = 0
      /\ UNCHANGED <<submitted, reply, slot, rate, window, routeLapses,
                     routeMishaps>>
  BY DEF SetZero, NoRouteMishap
<1>2. /\ at \in [Submissions -> Steps] /\ routeMishaps \in Nat
      /\ routeLapses # 0
      /\ Fits(submitted[s].kind, at[s], slot[s])
  BY <1>1 DEF RouteInv, RouteTypes, Places, Counts
<1>3. at'[s] = "end" /\ \A t \in Submissions \ {s} : at'[t] = at[t]
  BY <1>1, <1>2
<1>4. RouteTypes'
  BY <1>1, <1>2 DEF RouteInv, RouteTypes, Steps
<1>5. Places'
  BY <1>1, <1>2, <1>3 DEF RouteInv, Places, Fits
<1>6. Owing' = Owing /\ Living' = Living
  BY <1>1, <1>2, <1>3 DEF Owing, Living, Fits
<1>7. Counts'
  BY <1>1, <1>2, <1>6, OwingFinite DEF Counts
<1>8. WindowSet'
  BY <1>1, <1>2, <1>3, WindowKept
<1> QED BY <1>4, <1>5, <1>7, <1>8 DEF RouteInv

(* The steps that leave every handler where it is. *)
LEMMA AsideInv ==
  ASSUME RouteInv, UNCHANGED <<submitted, at, reply, slot, inSystem>>,
         routeLapses' \in {routeLapses, routeLapses + 1},
         routeMishaps' \in {routeMishaps, routeMishaps + 1},
         rate' \in [Keys -> Nat], window' \in [Keys -> BOOLEAN],
         \A key \in Keys :
           rate'[key] > 0 /\ ~window'[key] => rate[key] > 0 /\ ~window[key]
  PROVE  RouteInv'
<1>1. RouteTypes'
  BY DEF RouteInv, RouteTypes
<1>2. Places'
  BY DEF RouteInv, Places
<1>3. routeMishaps \in Nat /\ routeLapses \in Nat
  BY DEF RouteInv, RouteTypes
<1>4. Owing' = Owing /\ Living' = Living /\ Active' = Active
  BY DEF Owing, Living, Active
<1>5. Counts'
  BY <1>3, <1>4, QuietCounts DEF RouteInv
<1>6. WindowSet'
  <2>1. \A t \in Submissions : RateKey(t)' = RateKey(t)
    BY DEF RateKey
  <2>2. Locked' \subseteq Locked
    BY <2>1 DEF Locked, Keys
  <2> QED BY <1>3, <2>2, FewLocked DEF RouteInv
<1> QED BY <1>1, <1>2, <1>5, <1>6 DEF RouteInv

LEMMA LapseInv ==
  ASSUME RouteInv, CounterLapses PROVE RouteInv'
<1>1. /\ inSystem' = 0 /\ routeLapses' = routeLapses + 1
      /\ UNCHANGED <<submitted, at, reply, slot, rate, window, routeMishaps>>
      /\ routeLapses \in Nat
  BY DEF CounterLapses, RouteLapse, RouteInv, RouteTypes
<1>2. RouteTypes' /\ Places'
  BY <1>1 DEF RouteInv, RouteTypes, Places
<1>3. Owing' = Owing /\ Living' = Living
  BY <1>1 DEF Owing, Living
<1>4. Counts'
  BY <1>1, <1>3, OwingFinite DEF Counts, RouteInv, RouteTypes
<1>5. WindowSet'
  BY <1>1, WindowKept
<1> QED BY <1>2, <1>4, <1>5 DEF RouteInv

LEMMA RouteStep == RouteInv /\ [RouteNext]_routeVars => RouteInv'
<1> SUFFICES ASSUME RouteInv, [RouteNext]_routeVars PROVE RouteInv'
  OBVIOUS
<1> USE DEF counters, NoRouteMishap
<1>1. rate \in [Keys -> Nat] /\ window \in [Keys -> BOOLEAN]
  BY DEF RouteInv, RouteTypes
<1>2. ASSUME NEW s \in Submissions, Serve(s) PROVE RouteInv'
  BY <1>2, HandlerInv, RateInv, ReserveInv, ReleaseInv, SetZeroInv DEF Serve
<1>3. ASSUME NEW s \in Submissions, Work(s) \/ WorkerLoses(s) PROVE RouteInv'
  <2>1. /\ UNCHANGED <<submitted, at, reply, slot, inSystem, rate, window,
                       routeLapses>>
        /\ routeMishaps' \in {routeMishaps, routeMishaps + 1}
    BY <1>3 DEF Work, WorkerClaims, WorkerAnswers, WorkerLoses, RouteMishap
  <2> QED BY <1>1, <2>1, AsideInv
<1>4. ASSUME NEW s \in Submissions,
             AskResult(s) \/ AskStatus(s) \/ WaitJob(s) \/ StreamJob(s)
      PROVE  RouteInv'
  <2>1. UNCHANGED <<submitted, at, reply, slot, inSystem, rate, window,
                    routeLapses, routeMishaps>>
    BY <1>4 DEF AskResult, AskStatus, WaitJob, StreamJob, Hear
  <2> QED BY <1>1, <2>1, AsideInv
<1>5. ASSUME NEW s \in Submissions, EnvelopeLapses(s) PROVE RouteInv'
  <2>1. /\ UNCHANGED <<submitted, at, reply, slot, inSystem, rate, window,
                       routeMishaps>>
        /\ routeLapses' = routeLapses + 1
    BY <1>5 DEF EnvelopeLapses, RouteLapse
  <2> QED BY <1>1, <2>1, AsideInv
<1>6. ASSUME NEW key \in Keys, WindowEnds(key) PROVE RouteInv'
  <2>1. /\ UNCHANGED <<submitted, at, reply, slot, inSystem, routeLapses,
                       routeMishaps>>
        /\ window' = [window EXCEPT ![key] = FALSE]
        /\ rate' = [rate EXCEPT ![key] = 0]
    BY <1>6 DEF WindowEnds
  <2>2. /\ rate' \in [Keys -> Nat] /\ window' \in [Keys -> BOOLEAN]
        /\ \A other \in Keys :
             rate'[other] > 0 /\ ~window'[other] =>
               rate[other] > 0 /\ ~window[other]
    BY <1>1, <2>1
  <2> QED BY <2>1, <2>2, AsideInv
<1>7. CASE UNCHANGED routeVars
  BY <1>1, <1>7, AsideInv DEF routeVars
<1>8. CASE RouteNext
  <2>1. CASE CounterLapses
    BY <2>1, LapseInv
  <2>2. ASSUME NEW s \in Submissions, ProcessDies(s) \/ ReleaseFails(s)
        PROVE  RouteInv'
    BY <2>2, HandlerInv
  <2> QED BY <1>2, <1>3, <1>4, <1>5, <1>6, <1>8, <2>1, <2>2
          DEF RouteNext, Keys
<1> QED BY <1>7, <1>8

(* try_reserve_slot and decrement_active of backpressure.py keep a counter that
   can be trusted, for any number of submissions, any limit and any troubles:
   never more active requests than the limit until it expires under them, at
   most one too many for every failure, and back at zero once nobody owes a
   slot and nothing failed. *)
THEOREM SlotsKept == RouteSpec => []SlotsAccounted
<1>1. RouteInv => SlotsAccounted
  <2> SUFFICES ASSUME RouteInv PROVE SlotsAccounted
    OBVIOUS
  <2>1. inSystem \in Int /\ Living \subseteq Owing
    BY OwingFinite DEF RouteInv, RouteTypes
  <2>2. routeLapses = 0 =>
          Cardinality(Active) <= MaxActive /\ Cardinality(Owing) <= inSystem
    BY <2>1, OwingFinite DEF RouteInv, Counts
  <2>3. inSystem <= Cardinality(Living) + routeMishaps
    BY DEF RouteInv, Counts
  <2>4. (Owing = {} /\ routeMishaps = 0
           /\ \A s \in Submissions : at[s] # "zero") => inSystem = 0
    BY <2>1, <2>3, FS_EmptySet DEF RouteInv, Counts
  <2> QED BY <2>2, <2>3, <2>4 DEF SlotsAccounted
<1> QED BY <1>1, RouteInitInv, RouteStep, PTL DEF RouteSpec

(* RateLimiter.check locks a client out for longer than a window at one counter
   for every failure between its calls, and otherwise never, for any number of
   requests at once. *)
THEOREM WindowIsSet == RouteSpec => []WindowSet
<1>1. RouteInv => WindowSet
  BY DEF RouteInv
<1> QED BY <1>1, RouteInitInv, RouteStep, PTL DEF RouteSpec

-----------------------------------------------------------------------------
(* Induction up to a bound.  The theorems of the library take a predicate as
   an operator; here it is a set of numbers, and the least one that is not in
   it exists because < is well-founded on Nat. *)

LEMMA LeastNumber ==
  ASSUME NEW S \in SUBSET Nat, S # {}
  PROVE  \E n \in S : \A m \in S : n <= m
<1>1. IsWellFoundedOn(OpToRel(<, Nat), Nat)
  BY NatLessThanWellFounded, Zenon
<1>2. PICK n \in S : \A m \in S : ~(<<m, n>> \in OpToRel(<, Nat))
  BY <1>1, WFMin, Zenon
<1>3. \A m \in S : m \in Nat /\ n \in Nat /\ ~(m < n)
  BY <1>2 DEF OpToRel
<1> QED BY <1>3

LEMMA Induction ==
  ASSUME NEW n \in Nat, NEW S, 0 \in S, \A i \in 1 .. n : i - 1 \in S => i \in S
  PROVE  0 .. n \subseteq S
<1> SUFFICES ASSUME NEW k \in 0 .. n, k \notin S PROVE FALSE
  OBVIOUS
<1> DEFINE Beyond == {i \in 0 .. n : i \notin S}
<1>1. Beyond \in SUBSET Nat /\ Beyond # {}
  OBVIOUS
<1>2. PICK m \in Beyond : \A i \in Beyond : m <= i
  BY <1>1, LeastNumber
<1>3. m \in 1 .. n /\ m - 1 \in 0 .. n /\ m - 1 \notin Beyond
  BY <1>2
<1> QED BY <1>2, <1>3

(* A loop over 1 .. n that keeps its state in S, by its states in order. *)
Loop(f, n, S, start, step) ==
  /\ f \in [0 .. n -> S] /\ f[0] = start
  /\ \A i \in 1 .. n : f[i] = step[i][f[i - 1]]

LEMMA LoopRuns ==
  ASSUME NEW n \in Nat, NEW S, NEW start \in S, NEW step \in [1 .. n -> [S -> S]]
  PROVE  \E f : Loop(f, n, S, start, step)
<1> DEFINE Runs(m) ==
      \E f \in [0 .. m -> S] :
        f[0] = start /\ \A i \in 1 .. m : f[i] = step[i][f[i - 1]]
           P == {m \in 0 .. n : Runs(m)}
<1>1. Runs(0)
  <2>1. PICK f \in [0 .. 0 -> S] : f[0] = start
    <3> DEFINE g == [i \in 0 .. 0 |-> start]
    <3>1. g \in [0 .. 0 -> S] /\ g[0] = start
      OBVIOUS
    <3> HIDE DEF g
    <3> QED BY <3>1
  <2>2. \A i \in 1 .. 0 : f[i] = step[i][f[i - 1]]
    OBVIOUS
  <2> HIDE DEF P
  <2> QED BY <2>1, <2>2
<1>2. ASSUME NEW m \in 1 .. n, Runs(m - 1) PROVE Runs(m)
  <2>1. PICK g \in [0 .. m - 1 -> S] :
          g[0] = start /\ \A i \in 1 .. m - 1 : g[i] = step[i][g[i - 1]]
    BY <1>2
  <2> DEFINE f == [i \in 0 .. m |-> IF i = m THEN step[m][g[m - 1]] ELSE g[i]]
  <2>2. f \in [0 .. m -> S]
    <3>1. g[m - 1] \in S /\ step[m] \in [S -> S]
      BY <2>1
    <3>2. \A i \in 0 .. m : i # m => i \in 0 .. m - 1
      OBVIOUS
    <3> QED BY <2>1, <3>1, <3>2
  <2>3. f[0] = start
    BY <2>1
  <2>4. ASSUME NEW i \in 1 .. m PROVE f[i] = step[i][f[i - 1]]
    <3>1. f[i - 1] = g[i - 1]
      OBVIOUS
    <3>2. CASE i = m
      BY <3>1, <3>2
    <3>3. CASE i # m
      <4>1. i \in 1 .. m - 1 /\ f[i] = g[i]
        BY <3>3
      <4> QED BY <2>1, <3>1, <4>1
    <3> QED BY <3>2, <3>3
  <2> HIDE DEF f
  <2> QED BY <2>2, <2>3, <2>4
<1> HIDE DEF Runs
<1>3. 0 \in P /\ \A m \in 1 .. n : m - 1 \in P => m \in P
  BY <1>1, <1>2
<1>4. 0 .. n \subseteq P
  BY <1>3, Induction
<1>5. Runs(n)
  BY <1>4
<1> QED BY <1>5 DEF Runs, Loop

-----------------------------------------------------------------------------
(* The face that is followed in a frame. *)

(* A largest value has a first place. *)
LEMMA FirstLargest ==
  ASSUME NEW n \in Nat, NEW value, NEW I \in SUBSET (1 .. n), I # {},
         \A i \in I : value[i] \in Int
  PROVE  \E i \in I : \A k \in I :
           value[k] < value[i] \/ (value[k] = value[i] /\ i <= k)
<1> DEFINE First(J, i) ==
             i \in J /\ \A k \in J :
               value[k] < value[i] \/ (value[k] = value[i] /\ i <= k)
           Has(m) == \A J \in SUBSET (1 .. m) :
             J # {} /\ (\A i \in J : value[i] \in Int) => \E i : First(J, i)
           P == {m \in 0 .. n : Has(m)}
<1>1. Has(0)
  OBVIOUS
<1>2. ASSUME NEW m \in 1 .. n, Has(m - 1) PROVE Has(m)
  <2> SUFFICES ASSUME NEW J \in SUBSET (1 .. m), J # {}, \A i \in J : value[i] \in Int
               PROVE  \E i : First(J, i)
    OBVIOUS
  <2> DEFINE K == J \ {m}
  <2>1. K \in SUBSET (1 .. m - 1)
    OBVIOUS
  <2>2. CASE K = {}
    <3>1. J = {m}
      BY <2>2
    <3>2. m \in Nat /\ value[m] \in Int
      BY <3>1
    <3>3. First(J, m)
      BY <3>1, <3>2
    <3> QED BY <3>3
  <2>3. CASE K # {}
    <3>1. PICK i : First(K, i)
      BY <1>2, <2>1, <2>3
    <3>2. i \in 1 .. m - 1 /\ i \in J /\ value[i] \in Int
      BY <2>1, <3>1
    <3>3. CASE m \in J /\ value[m] > value[i]
      <4>1. First(J, m)
        BY <3>1, <3>2, <3>3
      <4> QED BY <4>1
    <3>4. CASE ~(m \in J /\ value[m] > value[i])
      <4>1. First(J, i)
        BY <3>1, <3>2, <3>4
      <4> QED BY <4>1
    <3> QED BY <3>3, <3>4
  <2> QED BY <2>2, <2>3
<1> HIDE DEF Has
<1>3. 0 \in P /\ \A m \in 1 .. n : m - 1 \in P => m \in P
  BY <1>1, <1>2
<1>4. 0 .. n \subseteq P
  BY <1>3, Induction
<1>5. Has(n)
  BY <1>4
<1> QED BY <1>5 DEF Has

(* What the loop keeps while it finds the leaders of the groups: no leader
   overlaps an earlier one, and every detection so far is a leader or overlaps
   one before it. *)
Separate(frame, leaders) ==
  \A k, l \in leaders : k < l => ~Overlap(frame[l].box, frame[k].box)

Covering(frame, leaders, m) ==
  \A i \in (1 .. m) \ leaders :
    \E k \in leaders : k < i /\ Overlap(frame[i].box, frame[k].box)

LEMMA LeadersAre ==
  ASSUME NEW frame \in Seq(Faces)
  PROVE  /\ Leaders(frame) \subseteq 1 .. Len(frame)
         /\ Separate(frame, Leaders(frame))
         /\ Covering(frame, Leaders(frame), Len(frame))
<1>1. PICK n \in Nat : n = Len(frame)
  OBVIOUS
<1>2. PICK S : S = SUBSET (1 .. n)
  OBVIOUS
<1>3. PICK step \in [1 .. n -> [S -> S]] :
        \A i \in 1 .. n, found \in S :
          step[i][found] =
            IF \E k \in found : Overlap(frame[i].box, frame[k].box)
              THEN found ELSE found \cup {i}
  <2> DEFINE s == [i \in 1 .. n |-> [found \in S |->
                     IF \E k \in found : Overlap(frame[i].box, frame[k].box)
                       THEN found ELSE found \cup {i}]]
  <2>1. s \in [1 .. n -> [S -> S]]
    BY <1>2
  <2> QED BY <2>1
<1>4. PICK among \in [0 .. n -> S] :
        among[0] = {} /\ \A i \in 1 .. n : among[i] = step[i][among[i - 1]]
  <2>1. {} \in S
    BY <1>2
  <2>2. \E f : Loop(f, n, S, {}, step)
    BY <2>1, LoopRuns
  <2> QED BY <2>2 DEF Loop
<1> DEFINE Finds(f) ==
      f = [i \in 0 .. n |->
             IF i = 0 THEN {}
             ELSE IF \E k \in f[i - 1] : Overlap(frame[i].box, frame[k].box)
               THEN f[i - 1] ELSE f[i - 1] \cup {i}]
<1>5. Finds(among)
  <2>1. ASSUME NEW i \in 0 .. n, i # 0
        PROVE  /\ i \in 1 .. n /\ among[i - 1] \in S
               /\ among[i] = step[i][among[i - 1]]
    BY <1>4, <2>1
  <2>2. \A i \in 0 .. n :
          among[i] = IF i = 0 THEN {}
                     ELSE IF \E k \in among[i - 1] : Overlap(frame[i].box, frame[k].box)
                       THEN among[i - 1] ELSE among[i - 1] \cup {i}
    BY <1>3, <1>4, <2>1
  <2> QED BY <1>4, <2>2
<1>6. PICK found : found = CHOOSE f : Finds(f)
  OBVIOUS
<1>7. Finds(found)
  BY <1>5, <1>6
<1>8. Leaders(frame) = found[n]
  BY <1>1, <1>6 DEF Leaders
<1>9. \A i \in 0 .. n :
        found[i] = IF i = 0 THEN {}
                   ELSE IF \E k \in found[i - 1] : Overlap(frame[i].box, frame[k].box)
                     THEN found[i - 1] ELSE found[i - 1] \cup {i}
  BY <1>7
<1>10. 0 \in 0 .. n /\ \A i \in 1 .. n : i \in 0 .. n /\ i # 0
  OBVIOUS
<1>11. /\ found[0] = {}
      /\ \A i \in 1 .. n :
           found[i] = IF \E k \in found[i - 1] : Overlap(frame[i].box, frame[k].box)
                        THEN found[i - 1] ELSE found[i - 1] \cup {i}
  BY <1>9, <1>10
<1> HIDE DEF Finds
<1> DEFINE Keeps(i) == /\ found[i] \subseteq 1 .. i
                       /\ Separate(frame, found[i])
                       /\ Covering(frame, found[i], i)
<1>12. PICK P : P = {i \in 0 .. n : Keeps(i)}
  OBVIOUS
<1>13. 0 \in P
  BY <1>11, <1>12 DEF Separate, Covering
<1>14. ASSUME NEW i \in 1 .. n, i - 1 \in P PROVE i \in P
  <2>1. PICK old : old = found[i - 1]
    OBVIOUS
  <2>2. /\ old \subseteq 1 .. i - 1
        /\ Separate(frame, old) /\ Covering(frame, old, i - 1)
    BY <1>12, <1>14, <2>1
  <2>3. PICK new : new = found[i]
    OBVIOUS
  <2>4. CASE \E k \in old : Overlap(frame[i].box, frame[k].box)
    <3>1. new = old
      BY <1>11, <2>1, <2>3, <2>4
    <3>2. new \subseteq 1 .. i /\ Separate(frame, new)
      BY <2>2, <3>1
    <3>3. Covering(frame, new, i)
      <4>1. PICK k \in old : Overlap(frame[i].box, frame[k].box)
        BY <2>4
      <4>2. k < i
        BY <2>2
      <4> QED BY <2>2, <3>1, <4>1, <4>2 DEF Covering
    <3> QED BY <1>12, <2>3, <3>2, <3>3
  <2>5. CASE ~\E k \in old : Overlap(frame[i].box, frame[k].box)
    <3>1. new = old \cup {i}
      BY <1>11, <2>1, <2>3, <2>5
    <3>2. new \subseteq 1 .. i
      BY <2>2, <3>1
    <3>3. Separate(frame, new)
      <4> SUFFICES ASSUME NEW k \in new, NEW l \in new, k < l
                   PROVE  ~Overlap(frame[l].box, frame[k].box)
        BY DEF Separate
      <4>1. k \in old
        BY <2>2, <3>1
      <4> QED BY <2>2, <2>5, <3>1, <4>1 DEF Separate
    <3>4. Covering(frame, new, i)
      <4>1. (1 .. i) \ new \subseteq (1 .. i - 1) \ old
        BY <3>1
      <4> QED BY <2>2, <3>1, <4>1 DEF Covering
    <3> QED BY <1>12, <2>3, <3>2, <3>3, <3>4
  <2> QED BY <2>4, <2>5
<1>15. 0 .. n \subseteq P
  BY <1>13, <1>14, Induction
<1>16. Keeps(n)
  BY <1>12, <1>15
<1> QED BY <1>1, <1>8, <1>16

LEMMA FaceFields ==
  ASSUME NEW face \in Faces
  PROVE  /\ face.box \in Int \X Int \X Int \X Int
         /\ face.confidence \in Int
         /\ face.ear # NoEar => face.ear \in Nat
         /\ face.yaw \in Int /\ face.pitch \in Int /\ face.mouth \in Int
         /\ face.passive \in Int
BY DEF Faces

LEMMA AreaNat ==
  ASSUME NEW box \in Int \X Int \X Int \X Int PROVE Area(box) \in Nat
<1>1. Positive(box[3] - box[1]) \in Nat /\ Positive(box[4] - box[2]) \in Nat
  BY DEF Positive
<1>2. \A a, b \in Nat : a * b \in Nat
  OBVIOUS
<1> QED BY <1>1, <1>2 DEF Area

(* The leaders whose groups a detection could join. *)
Joined(frame, leaders, i) ==
  {k \in leaders : k < i /\ Overlap(frame[i].box, frame[k].box)}

(* The groups of select_main_face are one per face seen: their leaders do not
   overlap, and every detection is in exactly one of them, for any detections. *)
THEOREM GroupsPartition ==
  ASSUME NEW frame \in Seq(Faces)
  PROVE  /\ \A k, l \in Leaders(frame) :
              k < l => ~Overlap(frame[l].box, frame[k].box)
         /\ \A i \in DOMAIN frame :
              \E leader \in Leaders(frame) :
                \A other \in Leaders(frame) :
                  i \in Group(frame, other) <=> other = leader
<1>1. PICK n \in Nat : n = Len(frame) /\ DOMAIN frame = 1 .. n
  OBVIOUS
<1>2. PICK leaders \in SUBSET (1 .. n) : leaders = Leaders(frame)
  BY <1>1, LeadersAre
<1>3. Separate(frame, leaders) /\ Covering(frame, leaders, n)
  BY <1>1, <1>2, LeadersAre
<1>4. ASSUME NEW i \in 1 .. n
      PROVE  \E leader \in leaders :
               \A other \in leaders : i \in Group(frame, other) <=> other = leader
  <2>1. CASE i \in leaders
    <3>1. \A other \in leaders : i \in Group(frame, other) <=> other = i
      BY <1>2, <2>1 DEF Group
    <3> QED BY <2>1, <3>1
  <2>2. CASE i \notin leaders
    <3>1. PICK joins : joins = Joined(frame, Leaders(frame), i)
      OBVIOUS
    <3>2. joins \in SUBSET Nat /\ joins # {} /\ joins \subseteq leaders
      <4>1. \E k \in leaders : k < i /\ Overlap(frame[i].box, frame[k].box)
        BY <1>3, <2>2 DEF Covering
      <4>2. joins # {} /\ joins \subseteq leaders
        BY <1>2, <3>1, <4>1 DEF Joined
      <4> QED BY <4>2
    <3>3. \E k \in joins : \A m \in joins : k <= m
      BY <3>2, LeastNumber
    <3>4. Min(joins) \in joins
      BY <3>3 DEF Min
    <3>5. ASSUME NEW other \in leaders
          PROVE  i \in Group(frame, other) <=> other = Min(joins)
      <4>1. i # other /\ i \in DOMAIN frame \ Leaders(frame)
        BY <1>1, <1>2, <2>2
      <4>2. i \in Group(frame, other) <=>
              other = Min(Joined(frame, Leaders(frame), i))
        BY <4>1, Zenon DEF Group, Joined
      <4> QED BY <3>1, <4>2
    <3> QED BY <3>2, <3>4, <3>5
  <2> QED BY <2>1, <2>2
<1>5. \A k, l \in leaders : k < l => ~Overlap(frame[l].box, frame[k].box)
  BY <1>3 DEF Separate
<1>6. \A k, l \in Leaders(frame) : k < l => ~Overlap(frame[l].box, frame[k].box)
  BY <1>2, <1>5
<1>7. ASSUME NEW i \in DOMAIN frame
      PROVE  \E leader \in Leaders(frame) :
               \A other \in Leaders(frame) :
                 i \in Group(frame, other) <=> other = leader
  <2>1. i \in 1 .. n
    BY <1>1
  <2>2. PICK leader \in leaders :
          \A other \in leaders : i \in Group(frame, other) <=> other = leader
    BY <1>4, <2>1, Zenon
  <2>3. \A other \in Leaders(frame) : i \in Group(frame, other) <=> other = leader
    BY <1>2, <2>2
  <2> QED BY <1>2, <2>2, <2>3
<1> QED BY <1>6, <1>7

(* _composite_score *)
Weight(face) == face.confidence * Area(face.box)

(* select_main_face follows a detection that represents its group, and every
   other detection is represented by one at least as confident of its own
   group that does not outweigh it. *)
THEOREM MainFaceStands ==
  ASSUME NEW frame \in Seq(Faces), frame # <<>>
  PROVE  \E main \in DOMAIN frame :
           /\ SelectMainFace(frame) = frame[main]
           /\ \A leader \in Leaders(frame) : \E k \in Group(frame, leader) :
                /\ \A i \in Group(frame, leader) :
                     frame[i].confidence <= frame[k].confidence
                /\ Weight(frame[k]) <= Weight(frame[main])
<1> DEFINE Confidence(i) == frame[i].confidence
           Represents(leader) == Best(Group(frame, leader), Confidence)
           Composite(leader) ==
             Confidence(Represents(leader)) * Area(frame[Represents(leader)].box)
<1>1. PICK n \in Nat : n = Len(frame) /\ DOMAIN frame = 1 .. n
  OBVIOUS
<1>2. \A i \in 1 .. n : frame[i] \in Faces
  BY <1>1, ElementIn
<1>3. Leaders(frame) \subseteq 1 .. n /\ Leaders(frame) # {}
  <2>1. 1 \in 1 .. n
    BY <1>1
  <2> QED BY <1>1, <2>1, LeadersAre DEF Covering
<1>4. ASSUME NEW leader \in Leaders(frame)
      PROVE  /\ Represents(leader) \in Group(frame, leader)
             /\ Represents(leader) \in 1 .. n
             /\ \A i \in Group(frame, leader) :
                  frame[i].confidence <= frame[Represents(leader)].confidence
  <2>1. PICK group : group = Group(frame, leader)
    OBVIOUS
  <2>2. group \in SUBSET (1 .. n) /\ group # {}
    BY <1>1, <1>3, <2>1 DEF Group
  <2>3. PICK value : value = [i \in 1 .. n |-> frame[i].confidence]
    OBVIOUS
  <2>4. \A i \in group : value[i] = frame[i].confidence /\ value[i] \in Int
    BY <1>2, <2>2, <2>3, FaceFields
  <2>5. \E i \in group : \A k \in group :
          value[k] < value[i] \/ (value[k] = value[i] /\ i <= k)
    BY <2>2, <2>4, FirstLargest
  <2>6. Represents(leader) =
          CHOOSE i \in group : \A k \in group :
            frame[k].confidence < frame[i].confidence
              \/ (frame[k].confidence = frame[i].confidence /\ i <= k)
    BY <2>1 DEF Best
  <2>7. \E i \in group : \A k \in group :
            frame[k].confidence < frame[i].confidence
              \/ (frame[k].confidence = frame[i].confidence /\ i <= k)
    BY <2>4, <2>5
  <2>8. PICK r : r = Represents(leader)
    OBVIOUS
  <2>9. r \in group /\ \A k \in group :
          frame[k].confidence < frame[r].confidence
            \/ (frame[k].confidence = frame[r].confidence /\ r <= k)
    BY <2>6, <2>7, <2>8
  <2>10. \A k \in group : frame[k].confidence <= frame[r].confidence
    <3> SUFFICES ASSUME NEW k \in group
                 PROVE  frame[k].confidence <= frame[r].confidence
      OBVIOUS
    <3>1. frame[k].confidence \in Int /\ frame[r].confidence \in Int
      BY <2>4, <2>9
    <3>2. frame[k].confidence < frame[r].confidence
            \/ frame[k].confidence = frame[r].confidence
      BY <2>9
    <3> QED BY <3>1, <3>2
  <2> HIDE DEF Represents
  <2> QED BY <2>1, <2>2, <2>8, <2>9, <2>10
<1>5. PICK chosen : chosen = Best(Leaders(frame), Composite)
  OBVIOUS
<1>6. PICK value : value = [i \in Leaders(frame) |-> Composite(i)]
  OBVIOUS
<1>7. ASSUME NEW i \in Leaders(frame)
      PROVE  value[i] = Composite(i) /\ value[i] \in Int
  <2>1. frame[Represents(i)] \in Faces
    BY <1>2, <1>4
  <2>2. /\ frame[Represents(i)].confidence \in Int
        /\ frame[Represents(i)].box \in Int \X Int \X Int \X Int
    BY <2>1, FaceFields
  <2>3. Area(frame[Represents(i)].box) \in Int
    BY <2>2, AreaNat
  <2> HIDE DEF Represents
  <2>4. Composite(i) \in Int
    BY <2>2, <2>3
  <2> HIDE DEF Composite
  <2> QED BY <1>6, <2>4
<1>8. chosen \in Leaders(frame) /\ \A k \in Leaders(frame) : value[k] <= value[chosen]
  <2> HIDE DEF Composite
  <2>1. \E i \in Leaders(frame) : \A k \in Leaders(frame) :
          value[k] < value[i] \/ (value[k] = value[i] /\ i <= k)
    BY <1>3, <1>7, FirstLargest
  <2>2. \E i \in Leaders(frame) : \A k \in Leaders(frame) :
          Composite(k) < Composite(i) \/ (Composite(k) = Composite(i) /\ i <= k)
    BY <1>7, <2>1
  <2>3. /\ chosen \in Leaders(frame)
        /\ \A k \in Leaders(frame) :
             Composite(k) < Composite(chosen)
               \/ (Composite(k) = Composite(chosen) /\ chosen <= k)
    BY <1>5, <2>2 DEF Best
  <2>4. \A k \in Leaders(frame) :
          value[k] < value[chosen] \/ value[k] = value[chosen]
    BY <1>7, <2>3
  <2> QED BY <1>7, <2>3, <2>4
<1>9. \A i \in Leaders(frame) : value[i] = Weight(frame[Represents(i)])
  BY <1>7 DEF Weight
<1>10. SelectMainFace(frame) = frame[Represents(chosen)]
  BY <1>5 DEF SelectMainFace
<1> HIDE DEF Represents, Composite
<1>11. \A leader \in Leaders(frame) :
         Weight(frame[Represents(leader)]) <= Weight(frame[Represents(chosen)])
  BY <1>8, <1>9
<1>12. Represents(chosen) \in DOMAIN frame
  BY <1>1, <1>4, <1>8
<1> QED BY <1>4, <1>10, <1>11, <1>12

(* It is one of the faces the detector found. *)
LEMMA SelectedIsFace ==
  ASSUME NEW frame \in Seq(Faces), frame # <<>>
  PROVE  SelectMainFace(frame) \in Faces
BY MainFaceStands, ElementIn

-----------------------------------------------------------------------------
(* The signals of a stream. *)

LEMMA LoopStays ==
  ASSUME NEW n \in Nat, NEW S, NEW f, f[0] \in S,
         \A i \in 1 .. n : f[i - 1] \in S => f[i] \in S
  PROVE  f[n] \in S
<1> DEFINE In == {i \in 0 .. n : f[i] \in S}
<1>1. 0 \in In /\ \A i \in 1 .. n : i - 1 \in In => i \in In
  OBVIOUS
<1>2. 0 .. n \subseteq In
  BY <1>1, Induction
<1> QED BY <1>2

LEMMA EarsType ==
  ASSUME NEW stream \in Seq(Faces) PROVE Ears(stream) \in Seq(Nat)
<1>1. PICK n \in Nat : n = Len(stream) /\ DOMAIN stream = 1 .. n
  OBVIOUS
<1>2. \A i \in 1 .. n : stream[i].ear # NoEar => stream[i].ear \in Nat
  BY <1>1, ElementIn, FaceFields
<1>3. PICK S : S = Seq(Nat)
  OBVIOUS
<1>4. /\ <<>> \in S
      /\ \A i \in 1 .. n, s \in S :
           stream[i].ear # NoEar => Append(s, stream[i].ear) \in S
  BY <1>2, <1>3
<1>5. PICK step \in [1 .. n -> [S -> S]] :
        \A i \in 1 .. n, s \in S :
          step[i][s] = IF stream[i].ear = NoEar THEN s ELSE Append(s, stream[i].ear)
  <2> DEFINE g == [i \in 1 .. n |-> [s \in S |->
                     IF stream[i].ear = NoEar THEN s ELSE Append(s, stream[i].ear)]]
  <2>1. g \in [1 .. n -> [S -> S]]
    BY <1>4
  <2> QED BY <2>1
<1>6. PICK among \in [0 .. n -> S] :
        among[0] = <<>> /\ \A i \in 1 .. n : among[i] = step[i][among[i - 1]]
  <2>1. \E f : Loop(f, n, S, <<>>, step)
    BY <1>4, LoopRuns
  <2> QED BY <2>1 DEF Loop
<1> DEFINE Gathers(f) ==
      f = [i \in 0 .. n |->
             IF i = 0 THEN <<>>
             ELSE IF stream[i].ear = NoEar THEN f[i - 1]
             ELSE Append(f[i - 1], stream[i].ear)]
<1>7. Gathers(among)
  <2>1. ASSUME NEW i \in 0 .. n, i # 0
        PROVE  /\ i \in 1 .. n /\ among[i - 1] \in S
               /\ among[i] = step[i][among[i - 1]]
    BY <1>6, <2>1
  <2>2. \A i \in 0 .. n :
          among[i] = IF i = 0 THEN <<>>
                     ELSE IF stream[i].ear = NoEar THEN among[i - 1]
                     ELSE Append(among[i - 1], stream[i].ear)
    BY <1>5, <1>6, <2>1
  <2> QED BY <1>6, <2>2
<1>8. PICK ears : ears = CHOOSE f : Gathers(f)
  OBVIOUS
<1>9. Gathers(ears)
  BY <1>7, <1>8
<1>10. Ears(stream) = ears[n]
  BY <1>1, <1>8 DEF Ears
<1>11. \A i \in 0 .. n :
         ears[i] = IF i = 0 THEN <<>>
                   ELSE IF stream[i].ear = NoEar THEN ears[i - 1]
                   ELSE Append(ears[i - 1], stream[i].ear)
  BY <1>9
<1>12. 0 \in 0 .. n /\ \A i \in 1 .. n : i \in 0 .. n /\ i # 0
  OBVIOUS
<1> HIDE DEF Gathers
<1>13. ears[0] \in S /\ \A i \in 1 .. n : ears[i - 1] \in S => ears[i] \in S
  BY <1>4, <1>11, <1>12
<1>14. ears[n] \in S
  BY <1>13, LoopStays
<1> QED BY <1>3, <1>10, <1>14

LEMMA TotalType ==
  ASSUME NEW values \in Seq(Int) PROVE Total(values) \in Int
<1>1. PICK n \in Nat : n = Len(values) /\ DOMAIN values = 1 .. n
  OBVIOUS
<1>2. PICK S : S = Int
  OBVIOUS
<1>3. PICK step \in [1 .. n -> [S -> S]] :
        \A i \in 1 .. n, x \in S : step[i][x] = x + values[i]
  <2> DEFINE g == [i \in 1 .. n |-> [x \in S |-> x + values[i]]]
  <2>1. \A i \in 1 .. n : values[i] \in Int
    BY <1>1
  <2>2. g \in [1 .. n -> [S -> S]]
    BY <1>2, <2>1
  <2> QED BY <2>2
<1>4. PICK sums \in [0 .. n -> S] :
        sums[0] = 0 /\ \A i \in 1 .. n : sums[i] = step[i][sums[i - 1]]
  <2>1. 0 \in S
    BY <1>2
  <2>2. \E f : Loop(f, n, S, 0, step)
    BY <2>1, LoopRuns
  <2> QED BY <2>2 DEF Loop
<1> DEFINE Adds(f) ==
      f = [i \in 0 .. n |-> IF i = 0 THEN 0 ELSE f[i - 1] + values[i]]
<1>5. Adds(sums)
  <2>1. ASSUME NEW i \in 0 .. n, i # 0 PROVE sums[i] = sums[i - 1] + values[i]
    <3>1. i \in 1 .. n /\ sums[i - 1] \in S /\ sums[i] = step[i][sums[i - 1]]
      BY <1>4, <2>1
    <3> QED BY <1>3, <3>1
  <2>2. \A i \in 0 .. n : sums[i] = IF i = 0 THEN 0 ELSE sums[i - 1] + values[i]
    BY <1>4, <2>1
  <2> QED BY <1>4, <2>2
<1>6. PICK upTo : upTo = CHOOSE f : Adds(f)
  OBVIOUS
<1>7. Adds(upTo)
  BY <1>5, <1>6
<1>8. Total(values) = upTo[n]
  BY <1>1, <1>6 DEF Total
<1>9. \A i \in 0 .. n : upTo[i] = IF i = 0 THEN 0 ELSE upTo[i - 1] + values[i]
  BY <1>7
<1>10. 0 \in 0 .. n /\ \A i \in 1 .. n : i \in 0 .. n /\ i # 0 /\ values[i] \in Int
  BY <1>1
<1> HIDE DEF Adds
<1>11. upTo[0] = 0 /\ \A i \in 1 .. n : upTo[i] = upTo[i - 1] + values[i]
  BY <1>9, <1>10
<1>12. upTo[0] \in S /\ \A i \in 1 .. n : upTo[i - 1] \in S => upTo[i] \in S
  <2>1. ASSUME NEW i \in 1 .. n, upTo[i - 1] \in Int PROVE upTo[i] \in Int
    <3>1. values[i] \in Int /\ upTo[i] = upTo[i - 1] + values[i]
      BY <1>10, <1>11
    <3> QED BY <2>1, <3>1
  <2> QED BY <1>2, <1>11, <2>1
<1>13. upTo[n] \in S
  BY <1>12, LoopStays
<1> QED BY <1>2, <1>8, <1>13

LEMMA SignalTypes ==
  ASSUME NEW stream \in Seq(Faces)
  PROVE  /\ Yaws(stream) \in Seq(Int) /\ Pitches(stream) \in Seq(Int)
         /\ Mouths(stream) \in Seq(Int) /\ Passives(stream) \in Seq(Int)
<1>1. PICK n \in Nat : n = Len(stream) /\ DOMAIN stream = 1 .. n
  OBVIOUS
<1>2. \A i \in 1 .. n :
        /\ stream[i].yaw \in Int /\ stream[i].pitch \in Int
        /\ stream[i].mouth \in Int /\ stream[i].passive \in Int
  BY <1>1, ElementIn, FaceFields
<1>3. /\ Yaws(stream) = [i \in 1 .. n |-> stream[i].yaw]
      /\ Pitches(stream) = [i \in 1 .. n |-> stream[i].pitch]
      /\ Mouths(stream) = [i \in 1 .. n |-> stream[i].mouth]
      /\ Passives(stream) = [i \in 1 .. n |-> stream[i].passive]
  BY <1>1 DEF Yaws, Pitches, Mouths, Passives
<1>4. \A f : f \in [1 .. n -> Int] => f \in Seq(Int)
  OBVIOUS
<1> QED BY <1>2, <1>3, <1>4

(* A value away from the mean of the first three is away from one of them. *)
LEMMA AwayFromOne ==
  ASSUME NEW values \in Seq(Int), Len(values) >= 4, NEW i \in DOMAIN values,
         NEW least \in Int
  PROVE  LET distance == 3 * values[i] - Baseline3(values) IN
           /\ distance \in Int
           /\ distance >= 3 * least =>
                \E k \in DOMAIN values : values[i] - values[k] >= least
           /\ distance <= -(3 * least) =>
                \E k \in DOMAIN values : values[k] - values[i] >= least
<1>1. {1, 2, 3} \subseteq DOMAIN values
  OBVIOUS
<1>2. PICK x, a, b, c \in Int :
        x = values[i] /\ a = values[1] /\ b = values[2] /\ c = values[3]
  BY <1>1
<1>3. 3 * values[i] - Baseline3(values) = 3 * x - (a + b + c)
  BY <1>2 DEF Baseline3
<1>4. 3 * x - (a + b + c) >= 3 * least =>
        x - a >= least \/ x - b >= least \/ x - c >= least
  OBVIOUS
<1>5. 3 * x - (a + b + c) <= -(3 * least) =>
        a - x >= least \/ b - x >= least \/ c - x >= least
  OBVIOUS
<1>6. 3 * x - (a + b + c) \in Int
  OBVIOUS
<1> QED BY <1>1, <1>2, <1>3, <1>4, <1>5, <1>6

LEMMA LeavingIsApart ==
  ASSUME NEW values \in Seq(Int), Len(values) >= 4, NEW least \in Int,
         NEW i \in DOMAIN values,
         Magnitude(3 * values[i] - Baseline3(values)) >= 3 * least
  PROVE  Apart(values, least)
<1> DEFINE distance == 3 * values[i] - Baseline3(values)
<1>1. /\ distance \in Int
      /\ distance >= 3 * least =>
           \E k \in DOMAIN values : values[i] - values[k] >= least
      /\ distance <= -(3 * least) =>
           \E k \in DOMAIN values : values[k] - values[i] >= least
  BY AwayFromOne
<1>2. distance >= 3 * least \/ distance <= -(3 * least)
  <2> HIDE DEF distance
  <2>1. Magnitude(distance) >= 3 * least
    BY DEF distance
  <2> QED BY <1>1, <2>1 DEF Magnitude
<1> QED BY <1>1, <1>2 DEF Apart

LEMMA PerformedIsGesture ==
  ASSUME NEW stream \in Seq(Faces), NEW action \in Gestures, Performed(stream, action)
  PROVE  Gesture(stream, action)
<1>1. /\ Yaws(stream) \in Seq(Int) /\ Pitches(stream) \in Seq(Int)
      /\ Mouths(stream) \in Seq(Int)
  BY SignalTypes
<1>2. CASE action = "blink"
  <2>1. DetectBlink(stream)
    BY <1>2 DEF Performed, Turns
  <2>2. PICK ears \in Seq(Nat) : ears = Ears(stream)
    BY EarsType
  <2>3. PICK i \in DOMAIN ears :
          /\ Len(ears) >= 4 /\ Baseline3(ears) > 0
          /\ 100 * 3 * ears[i] <= (100 - EarDip) * Baseline3(ears)
          /\ 2 * (100 * 3 * ears[Len(ears)]) >= (200 - EarDip) * Baseline3(ears)
    BY <2>1, <2>2 DEF DetectBlink
  <2>4. {1, 2, 3, Len(ears)} \subseteq DOMAIN ears
    <3>1. Len(ears) >= 4
      BY <2>3
    <3>2. PICK n \in Nat : n = Len(ears) /\ DOMAIN ears = 1 .. n
      OBVIOUS
    <3> QED BY <3>1, <3>2
  <2>5. PICK base \in Int : base = Baseline3(ears)
    BY <2>4 DEF Baseline3
  <2>6. PICK low \in Nat, last \in Nat : low = ears[i] /\ last = ears[Len(ears)]
    BY <2>4
  <2>7. base > 0 /\ 300 * low <= 70 * base /\ 600 * last >= 170 * base
    <3>1. /\ base > 0 /\ 100 * 3 * low <= (100 - 30) * base
          /\ 2 * (100 * 3 * last) >= (200 - 30) * base
      BY <2>3, <2>5, <2>6, Zenon DEF EarDip
    <3> QED BY <3>1
  <2>8. last > 0 /\ 17 * low <= 14 * last
    BY <2>7
  <2>9. \E k \in DOMAIN ears :
          ears[Len(ears)] > 0 /\ 17 * ears[k] <= 14 * ears[Len(ears)]
    BY <2>6, <2>8
  <2> QED BY <1>2, <2>2, <2>9 DEF Gesture, Turns
<1>3. CASE action \in Turns
  <2>1. DetectTurn(stream)
    BY <1>3 DEF Performed, Turns
  <2>2. PICK i \in DOMAIN Yaws(stream) :
          /\ Len(Yaws(stream)) >= 4
          /\ Magnitude(3 * Yaws(stream)[i] - Baseline3(Yaws(stream))) >= 3 * YawMin
    BY <2>1 DEF DetectTurn, Leaves
  <2>3. Apart(Yaws(stream), YawMin)
    BY <1>1, <2>2, LeavingIsApart DEF YawMin
  <2> QED BY <1>3, <2>3 DEF Gesture, Turns
<1>4. CASE action = "nod"
  <2>1. DetectNod(stream)
    BY <1>4 DEF Performed, Turns
  <2>2. PICK i \in DOMAIN Pitches(stream) :
          /\ Len(Pitches(stream)) >= 4
          /\ Magnitude(3 * Pitches(stream)[i] - Baseline3(Pitches(stream)))
               >= 3 * PitchMin
    BY <2>1 DEF DetectNod, Leaves
  <2>3. Apart(Pitches(stream), PitchMin)
    BY <1>1, <2>2, LeavingIsApart DEF PitchMin
  <2> QED BY <1>4, <2>3 DEF Gesture, Turns
<1>5. CASE action = "smile"
  <2>1. DetectSmile(stream)
    BY <1>5 DEF Performed, Turns
  <2>2. PICK i \in DOMAIN Mouths(stream) :
          /\ Len(Mouths(stream)) >= 4
          /\ 3 * Mouths(stream)[i] - Baseline3(Mouths(stream)) >= 3 * SmileDelta
    BY <2>1 DEF DetectSmile, Leaves
  <2>3. \E k \in DOMAIN Mouths(stream) :
          Mouths(stream)[i] - Mouths(stream)[k] >= SmileDelta
    BY <1>1, <2>2, AwayFromOne DEF SmileDelta
  <2> QED BY <1>5, <2>3 DEF Gesture, Turns, Apart
<1> QED BY <1>2, <1>3, <1>4, <1>5 DEF Gestures

(* The passive model's share of the score cannot be made up for: with all of
   the actions done and the stream consistent it has still to reach 53%. *)
LEMMA PassiveShare ==
  ASSUME NEW stream \in Seq(Faces), NEW wanted, Cardinality(wanted) \in Nat,
         Len(stream) >= MinFrames, \A a \in wanted : Performed(stream, a),
         ScoreReaches(stream, wanted, LiveThreshold)
  PROVE  2 * Total(Passives(stream)) > 100 * Len(stream)
<1>1. PICK total \in Int : total = Total(Passives(stream))
  BY SignalTypes, TotalType
<1>2. PICK frames \in Nat \ {0} : frames = Len(stream)
  BY VerdictAssumption
<1>3. PICK done \in Nat : done = Cardinality(wanted)
  OBVIOUS
<1>4. PICK of \in Nat \ {0} : of = Larger(1, done) /\ done <= of
  <2>1. Larger(1, done) \in Nat \ {0} /\ done <= Larger(1, done)
    BY DEF Larger
  <2> QED BY <2>1
<1>5. {a \in wanted : Performed(stream, a)} = wanted
  OBVIOUS
<1>6. 500 * done * 100 * frames + 300 * total * of + 200 * (100 * frames * of)
        >= 859 * (100 * frames * of)
  <2>1. 500 * done * 100 * frames + 300 * total * of + 200 * (100 * frames * of)
          >= LiveThreshold * (100 * frames * of)
    <3>1. /\ Cardinality({a \in wanted : Performed(stream, a)}) = done
          /\ Larger(1, Cardinality(wanted)) = of
      BY <1>3, <1>4, <1>5, Zenon
    <3> QED BY <1>1, <1>2, <3>1, ZenonT(40) DEF ScoreReaches
  <2> QED BY <2>1 DEF LiveThreshold
<1>7. done * frames <= of * frames
  BY <1>4
<1>8. 300 * (total * of) >= 15900 * (frames * of)
  <2>1. PICK df, ff, tf \in Int :
          df = done * frames /\ ff = frames * of /\ tf = total * of
    OBVIOUS
  <2>2. 50000 * df + 300 * tf + 20000 * ff >= 85900 * ff
    BY <1>6, <2>1
  <2>3. df <= ff
    BY <1>7, <2>1
  <2> QED BY <2>1, <2>2, <2>3
<1>9. (300 * total - 15900 * frames) * of >= 0
  BY <1>8
<1>10. 300 * total - 15900 * frames >= 0
  <2>1. \A x \in Int, k \in Nat \ {0} : x * k >= 0 => x >= 0
    OBVIOUS
  <2> QED BY <1>9, <2>1
<1> QED BY <1>1, <1>2, <1>10

-----------------------------------------------------------------------------
(* The verdict is that of the frames seen for the actions asked. *)

VerdictInv ==
  /\ actions \in SampleActions /\ obs \in Seq(Faces)
  /\ verdict \in {Open, VerifyChallengeStream(obs, actions)}

LEMMA VerdictIs ==
  ASSUME NEW stream \in Seq(Faces), NEW wanted
  PROVE  /\ VerifyChallengeStream(stream, wanted) \in [live : BOOLEAN, reason : Reasons]
         /\ VerifyChallengeStream(stream, wanted).live =>
              /\ Len(stream) >= MinFrames
              /\ \A a \in wanted : Performed(stream, a)
              /\ ScoreReaches(stream, wanted, LiveThreshold)
<1>1. \A live \in BOOLEAN, reason \in Reasons :
        /\ Verdict(live, reason) \in [live : BOOLEAN, reason : Reasons]
        /\ Verdict(live, reason).live = live
  BY DEF Verdict
<1>2. {"ok", "too_few_frames", "consistency_fail", "actions_incomplete",
       "below_threshold"} \subseteq Reasons
  BY DEF Reasons
<1>3. ~(Len(stream) < MinFrames) => Len(stream) >= MinFrames
  BY VerdictAssumption
<1> QED BY <1>1, <1>2, <1>3 DEF VerifyChallengeStream

LEMMA VerdictStep == VerdictInv /\ [VerdictNext]_verdictVars => VerdictInv'
<1> SUFFICES ASSUME VerdictInv, [VerdictNext]_verdictVars PROVE VerdictInv'
  OBVIOUS
<1>1. CASE Judgement
  BY <1>1 DEF Judgement, VerdictInv
<1>2. ASSUME NEW frame \in Frames, ObserveFrame(frame) PROVE VerdictInv'
  <2>1. frame \in Seq(Faces)
    BY VerdictAssumption
  <2>2. obs' \in Seq(Faces)
    <3>1. CASE frame = <<>>
      BY <1>2, <3>1 DEF ObserveFrame, VerdictInv
    <3>2. CASE frame # <<>>
      <4>1. SelectMainFace(frame) \in Faces
        BY <2>1, <3>2, SelectedIsFace
      <4> QED BY <1>2, <3>2, <4>1 DEF ObserveFrame, VerdictInv
    <3> QED BY <3>1, <3>2
  <2> QED BY <1>2, <2>2 DEF ObserveFrame, VerdictInv
<1>3. CASE UNCHANGED verdictVars
  BY <1>3 DEF verdictVars, VerdictInv
<1> QED BY <1>1, <1>2, <1>3 DEF VerdictNext

LEMMA VerdictInitInv == VerdictInit => VerdictInv
BY DEF VerdictInit, VerdictInv

(* The verdict of a challenge has its type; above all, the face followed is
   one that the detector found in the frame. *)
THEOREM VerdictTypeCorrect == VerdictSpec => []VerdictTypeOK
<1>1. VerdictInv => VerdictTypeOK
  BY VerdictIs DEF VerdictInv, VerdictTypeOK, SampleActions
<1> QED BY <1>1, VerdictInitInv, VerdictStep, PTL DEF VerdictSpec

(* A live verdict of verify_challenge_stream took, for every action asked, two
   frames that differ by it and a mean passive score above one half, and no
   turn served two actions: for streams of any length, any frames and any
   faces in them. *)
THEOREM LiveIsEarned == VerdictSpec => []LiveEarned
<1>1. VerdictInv => LiveEarned
  <2> SUFFICES ASSUME VerdictInv, verdict # Open, verdict.live
               PROVE  /\ \A a \in actions : Gesture(obs, a)
                      /\ 2 * Total(Passives(obs)) > 100 * Len(obs)
                      /\ ~(Turns \subseteq actions)
    BY DEF LiveEarned
  <2>1. verdict = VerifyChallengeStream(obs, actions)
    BY DEF VerdictInv
  <2>2. /\ Len(obs) >= MinFrames /\ \A a \in actions : Performed(obs, a)
        /\ ScoreReaches(obs, actions, LiveThreshold)
    BY <2>1, VerdictIs DEF VerdictInv
  <2>3. /\ actions \in SUBSET Gestures /\ Cardinality(actions) \in Nat
        /\ ~(Turns \subseteq actions) /\ obs \in Seq(Faces)
    BY VerdictAssumption DEF VerdictInv, SampleActions
  <2> QED BY <2>2, <2>3, PerformedIsGesture, PassiveShare
<1> QED BY <1>1, VerdictInitInv, VerdictStep, PTL DEF VerdictSpec

-----------------------------------------------------------------------------
(* What the routes keep about a job, and their bound on troubles. *)

JobTypes ==
  /\ row \in [Submissions -> {Nobody, "pending", "failed"}]
  /\ phase \in [Submissions -> Queue!Phases]
  /\ envelope \in [Submissions -> {Nobody, "processing"} \cup Terminal]
  /\ told \in [Submissions -> {Nobody} \cup Terminal]

FewTroubles ==
  routeLapses \in Nat /\ routeMishaps \in Nat /\ Troubles <= MaxRouteTroubles

LEMMA JobInit == RouteInit => JobTypes /\ FewTroubles
<1> SUFFICES ASSUME RouteInit PROVE JobTypes /\ FewTroubles
  OBVIOUS
<1>1. JobTypes
  BY DEF RouteInit, JobTypes, Queue!Init, Queue!Phases
<1>2. FewTroubles
  BY RouteAssumption DEF RouteInit, FewTroubles, Troubles
<1> QED BY <1>1, <1>2

LEMMA FinishType ==
  ASSUME phase \in [Submissions -> Queue!Phases], NEW A, NEW L, Queue!Finish(A, L)
  PROVE  phase' \in [Submissions -> Queue!Phases]
BY DEF Queue!Finish, Queue!Phases

(* The steps of a handler: only the last three touch a job. *)
LEMMA ServeJobs ==
  ASSUME JobTypes, NEW s \in Submissions, Serve(s)
  PROVE  JobTypes'
<1> USE DEF jobVars
<1>1. CASE Gate(s) \/ Inflight(s) \/ Reserve(s) \/ Release(s) \/ SetZero(s)
             \/ CountRate(s) \/ SetExpiry(s) \/ Validate(s)
  <2>1. UNCHANGED <<row, phase, envelope, told>>
    BY <1>1 DEF Gate, Inflight, Reserve, Release, SetZero, CountRate, SetExpiry,
                Validate
  <2> QED BY <2>1 DEF JobTypes
<1>2. CASE CreateRow(s)
  BY <1>2 DEF CreateRow, JobTypes
<1>3. CASE UploadPhoto(s)
  BY <1>3 DEF UploadPhoto, GivesUp, JobTypes
<1>4. CASE EnqueueJob(s)
  <2>1. row' \in [Submissions -> {Nobody, "pending", "failed"}]
    BY <1>4 DEF EnqueueJob, GivesUp, JobTypes
  <2>2. PushAndMark(s) \/ UNCHANGED <<phase, envelope>>
    BY <1>4 DEF EnqueueJob
  <2>3. phase' \in [Submissions -> Queue!Phases]
    BY <2>2 DEF PushAndMark, Queue!Accept, Queue!Phases, JobTypes
  <2>4. envelope' \in [Submissions -> {Nobody, "processing"} \cup Terminal]
    BY <2>2 DEF PushAndMark, JobTypes
  <2>5. UNCHANGED told
    BY <1>4 DEF EnqueueJob
  <2> QED BY <2>1, <2>3, <2>4, <2>5 DEF JobTypes
<1> QED BY <1>1, <1>2, <1>3, <1>4 DEF Serve

LEMMA JobStep == JobTypes /\ [RouteNext]_routeVars => JobTypes'
<1> SUFFICES ASSUME JobTypes, [RouteNext]_routeVars PROVE JobTypes'
  OBVIOUS
<1> USE DEF jobVars
<1>1. ASSUME NEW s \in Submissions, Serve(s) PROVE JobTypes'
  BY <1>1, ServeJobs
<1>2. ASSUME NEW s \in Submissions, WorkerClaims(s) PROVE JobTypes'
  BY <1>2 DEF WorkerClaims, Queue!Claim, Queue!Phases, JobTypes
<1>3. ASSUME NEW s \in Submissions, NEW outcome \in Terminal, WorkerAnswers(s, outcome)
      PROVE  JobTypes'
  <2>1. phase' \in [Submissions -> Queue!Phases]
    BY <1>3, FinishType DEF WorkerAnswers, JobTypes
  <2> QED BY <1>3, <2>1 DEF WorkerAnswers, JobTypes
<1>4. ASSUME NEW s \in Submissions, WorkerLoses(s) PROVE JobTypes'
  <2>1. phase' \in [Submissions -> Queue!Phases]
    BY <1>4, FinishType DEF WorkerLoses, JobTypes
  <2> QED BY <1>4, <2>1 DEF WorkerLoses, JobTypes
<1>5. ASSUME NEW s \in Submissions, NEW status, Hear(s, status) PROVE JobTypes'
  BY <1>5 DEF Hear, JobTypes
<1>6. ASSUME NEW s \in Submissions, EnvelopeLapses(s) PROVE JobTypes'
  BY <1>6 DEF EnvelopeLapses, JobTypes
<1>7. ASSUME NEW s \in Submissions, ProcessDies(s) \/ ReleaseFails(s) PROVE JobTypes'
  BY <1>7 DEF ProcessDies, ReleaseFails, JobTypes
<1>8. CASE CounterLapses
  BY <1>8 DEF CounterLapses, JobTypes
<1>9. ASSUME NEW key, WindowEnds(key) PROVE JobTypes'
  BY <1>9 DEF WindowEnds, JobTypes
<1>10. CASE UNCHANGED routeVars
  BY <1>10 DEF routeVars, JobTypes
<1>11. CASE RouteNext
  <2>1. ASSUME NEW s \in Submissions,
               AskResult(s) \/ AskStatus(s) \/ WaitJob(s) \/ StreamJob(s)
        PROVE  JobTypes'
    BY <1>5, <2>1 DEF AskResult, AskStatus, WaitJob, StreamJob
  <2>2. ASSUME NEW s \in Submissions, Work(s) PROVE JobTypes'
    BY <1>2, <1>3, <2>2 DEF Work
  <2> QED BY <1>1, <1>4, <1>6, <1>7, <1>8, <1>9, <1>11, <2>1, <2>2 DEF RouteNext
<1> QED BY <1>10, <1>11

LEMMA TroublesStep ==
  FewTroubles /\ [RouteNext]_routeVars => FewTroubles'
<1> SUFFICES ASSUME FewTroubles, [RouteNext]_routeVars PROVE FewTroubles'
  OBVIOUS
<1> USE DEF NoRouteMishap
<1> DEFINE AtMostOne ==
      \/ RouteMishap /\ UNCHANGED routeLapses
      \/ RouteLapse
      \/ UNCHANGED <<routeLapses, routeMishaps>>
<1>1. ASSUME NEW s \in Submissions, Serve(s) PROVE AtMostOne
  BY <1>1 DEF Serve, Gate, Inflight, Reserve, Release, SetZero, CountRate,
       SetExpiry, Validate, CreateRow, UploadPhoto, GivesUp, EnqueueJob
<1>2. ASSUME NEW s \in Submissions, Work(s) \/ WorkerLoses(s) PROVE AtMostOne
  BY <1>2 DEF Work, WorkerClaims, WorkerAnswers, WorkerLoses
<1>3. ASSUME NEW s \in Submissions,
             AskResult(s) \/ AskStatus(s) \/ WaitJob(s) \/ StreamJob(s)
      PROVE  AtMostOne
  BY <1>3 DEF AskResult, AskStatus, WaitJob, StreamJob, Hear
<1>4. ASSUME NEW s \in Submissions,
             EnvelopeLapses(s) \/ ProcessDies(s) \/ ReleaseFails(s)
      PROVE  AtMostOne
  BY <1>4 DEF EnvelopeLapses, ProcessDies, ReleaseFails
<1>5. ASSUME NEW key, WindowEnds(key) PROVE AtMostOne
  BY <1>5 DEF WindowEnds
<1>6. ASSUME CounterLapses PROVE AtMostOne
  BY <1>6 DEF CounterLapses
<1>7. ASSUME UNCHANGED routeVars PROVE AtMostOne
  BY <1>7 DEF routeVars
<1>8. AtMostOne
  <2> HIDE DEF AtMostOne
  <2> QED BY <1>1, <1>2, <1>3, <1>4, <1>5, <1>6, <1>7 DEF RouteNext
<1> QED BY <1>8, RouteAssumption DEF FewTroubles, Troubles, RouteMishap, RouteLapse

(* The types of what the legacy routes keep, of the answers they give among
   them: an answer told to a client is never anything but an outcome. *)
THEOREM RouteTypeCorrect == RouteSpec => []RouteTypeOK
<1>1. RouteInv /\ JobTypes /\ FewTroubles => RouteTypeOK
  BY DEF RouteInv, RouteTypes, Keys, JobTypes, FewTroubles, RouteTypeOK
<1>2. JobTypes /\ [RouteNext]_routeVars => JobTypes'
  BY JobStep
<1> QED BY <1>1, <1>2, JobInit, TroublesStep, RouteInitInv, RouteStep, PTL
        DEF RouteSpec

-----------------------------------------------------------------------------
(* The specification that TLC runs: each of its steps is one of the part that
   runs, and leaves the state of the others alone. *)

Initial == BatchInit /\ VerifyInit /\ RouteInit /\ VerdictInit /\ ScaleInit

Composed ==
  /\ [BatchNext]_batchVars /\ [VerifyNext]_verifyVars /\ [RouteNext]_routeVars
  /\ [VerdictNext]_verdictVars /\ [ScaleNext]_scaleVars

LEMMA BatchedStep == ASSUME Batched(BatchNext) PROVE Composed
BY DEF Batched, Composed

LEMMA VerifiedStep == ASSUME Verified(VerifyNext) PROVE Composed
BY DEF Verified, Composed

LEMMA RoutedStep == ASSUME Routed(RouteNext) PROVE Composed
BY DEF Routed, Composed

LEMMA JudgedStep == ASSUME Judged(VerdictNext) PROVE Composed
BY DEF Judged, Composed

LEMMA ScaledStep == ASSUME Scaled(ScaleNext) PROVE Composed
BY DEF Scaled, Composed

LEMMA ServiceStep == [ServiceNext]_serviceVars => Composed
<1> SUFFICES ASSUME [ServiceNext]_serviceVars PROVE Composed
  OBVIOUS
<1>1. CASE Batched(DecodePhoto) \/ Batched(Judge) \/ Batched(DetectBatch)
             \/ Batched(FinishPhoto) \/ Batched(Prepared) \/ Batched(PreparationFails)
  <2>1. Batched(BatchNext)
    BY <1>1 DEF Batched, BatchNext
  <2> QED BY <2>1, BatchedStep
<1>2. ASSUME NEW r \in Requests,
             Verified(Start(r)) \/ Verified(Extract(r)) \/ Verified(Check(r))
               \/ Verified(Search(r)) \/ Verified(SearchFails(r))
      PROVE  Composed
  <2>1. Verified(VerifyNext)
    BY <1>2 DEF Verified, VerifyNext
  <2> QED BY <2>1, VerifiedStep
<1>3. ASSUME NEW log \in tasks, Verified(WriteLog(log)) PROVE Composed
  <2>1. Verified(VerifyNext)
    BY <1>3 DEF Verified, VerifyNext
  <2> QED BY <2>1, VerifiedStep
<1>4. ASSUME NEW image \in Images, Verified(LapseKey(image)) PROVE Composed
  <2>1. Verified(VerifyNext)
    BY <1>4 DEF Verified, VerifyNext
  <2> QED BY <2>1, VerifiedStep
<1>5. CASE Verified(SkipJob) \/ Verified(CheckJob) \/ Verified(JudgeJob)
             \/ Verified(DatabaseFails) \/ Verified(CommitBatch)
             \/ Verified(SessionLost) \/ Verified(Restart)
  <2>1. Verified(VerifyNext)
    BY <1>5 DEF Verified, VerifyNext
  <2> QED BY <2>1, VerifiedStep
<1>6. ASSUME NEW s \in Submissions,
             \/ Routed(Gate(s)) \/ Routed(Inflight(s)) \/ Routed(Reserve(s))
             \/ Routed(Release(s)) \/ Routed(SetZero(s)) \/ Routed(CountRate(s))
             \/ Routed(SetExpiry(s)) \/ Routed(Validate(s)) \/ Routed(CreateRow(s))
             \/ Routed(UploadPhoto(s)) \/ Routed(EnqueueJob(s))
      PROVE  Composed
  <2>1. Routed(Serve(s))
    BY <1>6 DEF Routed, Serve
  <2>2. Routed(RouteNext)
    BY <2>1 DEF Routed, RouteNext
  <2> QED BY <2>2, RoutedStep
<1>7. ASSUME NEW s \in Submissions,
             \/ Routed(WorkerClaims(s))
             \/ \E outcome \in Terminal : Routed(WorkerAnswers(s, outcome))
      PROVE  Composed
  <2>1. Routed(Work(s))
    BY <1>7 DEF Routed, Work
  <2>2. Routed(RouteNext)
    BY <2>1 DEF Routed, RouteNext
  <2> QED BY <2>2, RoutedStep
<1>8. ASSUME NEW s \in Submissions,
             \/ Routed(WorkerLoses(s))
             \/ Routed(AskResult(s)) \/ Routed(AskStatus(s)) \/ Routed(WaitJob(s))
             \/ Routed(StreamJob(s)) \/ Routed(EnvelopeLapses(s))
             \/ Routed(ProcessDies(s)) \/ Routed(ReleaseFails(s))
      PROVE  Composed
  <2>1. Routed(RouteNext)
    BY <1>8 DEF Routed, RouteNext
  <2> QED BY <2>1, RoutedStep
<1>9. ASSUME Routed(CounterLapses)
               \/ \E key \in {"verify", "verify_async"} : Routed(WindowEnds(key))
      PROVE  Composed
  <2>1. Routed(RouteNext)
    BY <1>9 DEF Routed, RouteNext
  <2> QED BY <2>1, RoutedStep
<1>10. CASE Judged(Judgement) \/ \E frame \in Frames : Judged(ObserveFrame(frame))
  <2>1. Judged(VerdictNext)
    BY <1>10 DEF Judged, VerdictNext
  <2> QED BY <2>1, JudgedStep
<1>11. CASE Scaled(Cycle) \/ Scaled(LoadChanges)
  <2>1. Scaled(ScaleNext)
    BY <1>11 DEF Scaled, ScaleNext
  <2> QED BY <2>1, ScaledStep
<1>12. CASE UNCHANGED serviceVars
  BY <1>12 DEF serviceVars, Composed
<1> QED BY <1>1, <1>2, <1>3, <1>4, <1>5, <1>6, <1>7, <1>8, <1>9, <1>10, <1>11,
           <1>12, Zenon DEF ServiceNext

LEMMA PartsHold ==
  ServiceSpec =>
    /\ BatchSpec /\ VerifySpec /\ RouteSpec /\ VerdictSpec
    /\ ScaleInit /\ [][ScaleNext]_scaleVars
<1>1. ServiceInit => Initial
  BY DEF ServiceInit, Initial
<1>2. [ServiceNext]_serviceVars =>
        /\ [BatchNext]_batchVars /\ [VerifyNext]_verifyVars /\ [RouteNext]_routeVars
        /\ [VerdictNext]_verdictVars /\ [ScaleNext]_scaleVars
  BY ServiceStep DEF Composed
<1> QED BY <1>1, <1>2, PTL
     DEF ServiceSpec, Initial, BatchSpec, VerifySpec, RouteSpec, VerdictSpec

(* Whichever part runs, its state stays of its type. *)
THEOREM ServiceTypeCorrect == ServiceSpec => []ServiceTypeOK
<1>1. ScaleInit /\ [][ScaleNext]_scaleVars => []ScaleTypeOK
  <2>1. ScaleInv => ScaleTypeOK
    BY DEF ScaleInv
  <2> QED BY <2>1, ScaleInitInv, ScaleStep, PTL
<1>2. BatchTypeOK /\ VerifyTypeOK /\ RouteTypeOK /\ VerdictTypeOK /\ ScaleTypeOK
        => ServiceTypeOK
  BY DEF ServiceTypeOK
<1> QED BY <1>1, <1>2, PartsHold, BatchTypeCorrect, VerifyTypeCorrect,
           RouteTypeCorrect, VerdictTypeCorrect, PTL
=============================================================================
