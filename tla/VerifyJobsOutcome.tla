-------------------------- MODULE VerifyJobsOutcome --------------------------
(***************************************************************************)
(* What becomes of jobs and photos: proofs that the queue keeps the        *)
(* contract of JobContract, that without mishaps no job is forgotten and   *)
(* no photo stays behind, and that no photo is taken from a worker that    *)
(* still has to decode it.                                                 *)
(***************************************************************************)
EXTENDS VerifyJobsSettling

-----------------------------------------------------------------------------
(* The contract *)

(* A slot that settles nothing has no job at hand beside its batch. *)
Bare == \A p \in Batches : step[p] = "none" => cur[p] = NoJob

LEMMA BareSlot ==
  ASSUME IInv, Bare, NEW p \in Batches, SlotStep(p)
  PROVE  Bare'
  <1>1. ASSUME OnlySlot(p), step'[p] = "none" => cur'[p] = NoJob PROVE Bare'
    BY <1>1 DEF OnlySlot, Bare
  <1>2. ASSUME NEW w \in Workers, DropBatches(w) PROVE Bare'
    BY <1>2 DEF DropBatches, Bare
  <1>3. ASSUME Abandon(p) PROVE Bare'
    BY <1>3 DEF Abandon, Bare, IInv, TypeInv, TypeOK
  <1>4. ASSUME NEW j, NEW s, Publish(p, j, s) PROVE Bare'
    BY <1>4 DEF Publish, Bare, IInv, TypeInv, TypeOK
  <1>5. CASE Collect(p)
    BY <1>5 DEF Collect, StartCollect, Claim, ClaimStale, Filled, Bare, IInv, TypeInv, TypeOK
  <1>6. CASE ExpireFails(p)
    BY <1>2, <1>6 DEF ExpireFails, LoopDies, Batches
  <1>7. CASE Release(p) \/ Notify(p) \/ Discard(p) \/ Cleanup(p)
    BY <1>7 DEF Release, Notify, Discard, Cleanup, Settled, At, Bare, IInv, TypeInv, TypeOK
  <1>8. ASSUME NEW j \in Jobs, Verify(p, j) PROVE Bare'
    BY <1>4, <1>8 DEF Verify, Bare, IInv, TypeInv, TypeOK
  <1>9. ASSUME NEW j \in Jobs,
               Expire(p) \/ Amend(p) \/ DecodeFails(p, j) \/ Reject(p, j) \/ Fail(p, j)
               \/ VerifyFails(p, j)
        PROVE  Bare'
    BY <1>3, <1>4, <1>9 DEF Expire, Amend, DecodeFails, Reject, Fail, VerifyFails, PublishOrAbandon
  <1>10. CASE Expire(p) \/ Amend(p)
    BY <1>3, <1>4, <1>10 DEF Expire, Amend, PublishOrAbandon
  <1>11. CASE \/ \E j \in Jobs : Decode(p, j)
              \/ DecodeEnds(p) \/ Prepare(p) \/ PrepareFails(p) \/ RejectEnds(p) \/ TakePermit(p)
              \/ Encode(p) \/ Search(p) \/ EncodeOrSearchFails(p) \/ FailEnds(p) \/ VerifyEnds(p)
    <2>1. UNCHANGED <<cur, step>>
      BY <1>11 DEF Decode, DecodeEnds, Prepare, PrepareFails, RejectEnds, TakePermit, Encode,
                   Search, EncodeOrSearchFails, FailEnds, VerifyEnds, Move
    <2> QED BY <2>1 DEF Bare
  <1> QED BY <1>5, <1>6, <1>7, <1>8, <1>9, <1>10, <1>11 DEF SlotStep, Settle, Process

LEMMA BareNext ==
  ASSUME IInv, Bare, [Next]_vars
  PROVE  Bare'
  <1>1. ASSUME UNCHANGED slotVars PROVE Bare'
    BY <1>1 DEF slotVars, Bare
  <1>2. ASSUME NEW w \in Workers, DropBatches(w) PROVE Bare'
    BY <1>2 DEF DropBatches, Bare
  <1>3. ASSUME NEW h \in Handlers,
               (\E r \in Routes, j \in Jobs : Begin(h, r, j)) \/ ApiStep(h) \/ ApiCrash(h)
        PROVE  Bare'
    BY <1>1, <1>3 DEF Begin, ApiStep, MeasureQueue, Decide, Upload, UploadFails, Enqueue,
                      EnqueueFails, Undo, ApiCrash
  <1>4. ASSUME NEW w \in Workers, Start(w) \/ ZeroInflight(w) \/ Crash(w) \/ LoopFails(w)
        PROVE  Bare'
    BY <1>1, <1>2, <1>4 DEF Start, ZeroInflight, Crash, LoopFails, LoopDies
  <1>5. ASSUME NEW j \in Jobs, Lapse(j) \/ Sweep(j) PROVE Bare'
    BY <1>1, <1>5 DEF Lapse, Sweep
  <1>6. CASE UNCHANGED vars
    BY <1>1, <1>6 DEF vars
  <1> QED BY <1>3, <1>4, <1>5, <1>6, BareSlot DEF Next

Held(j) == \E p \in Batches : j \in Holds(p)

(* The phase a job is in, read off the sets it belongs to. *)
LEMMA PhaseNow ==
  ASSUME IInv, NEW j \in Jobs
  PROVE  /\ j \notin enqueued => phase[j] = "new"
         /\ j \in answered => phase[j] = "answered"
         /\ j \in Queued => phase[j] = "queued"
         /\ j \in enqueued \ (answered \cup Queued) =>
              phase[j] = IF Held(j) THEN "claimed" ELSE "lost"
  <1>1. answered \subseteq enqueued /\ Queued \subseteq enqueued /\ Queued \cap answered = {}
    BY DEF IInv, Settling, Ownership
  <1> QED BY <1>1 DEF phase, Held

LEMMA PhaseThen ==
  ASSUME IInv', NEW j \in Jobs
  PROVE  /\ j \notin enqueued' => phase'[j] = "new"
         /\ j \in answered' => phase'[j] = "answered"
         /\ j \in Queued' => phase'[j] = "queued"
         /\ j \in enqueued' \ (answered' \cup Queued') =>
              phase'[j] = IF Held(j)' THEN "claimed" ELSE "lost"
  <1>1. answered' \subseteq enqueued' /\ Queued' \subseteq enqueued' /\ Queued' \cap answered' = {}
    BY DEF IInv, Settling, Ownership
  <1> QED BY <1>1 DEF phase, Held

LEMMA PhaseDomain == phase = [j \in Jobs |-> phase[j]] /\ phase' = [j \in Jobs |-> phase'[j]]
  BY DEF phase

(* A step that pushes and pops nothing answers or loses jobs some batch holds. *)
LEMMA PhaseFinish ==
  ASSUME IInv, IInv', UNCHANGED <<queue, enqueued>>, answered \subseteq answered',
         \A j \in answered' \ answered : Held(j),
         \A q \in Batches : Holds(q)' \subseteq Holds(q)
  PROVE  Contract!Next
  <1> DEFINE A == {j \in Jobs : j \in answered' /\ j \notin answered}
             L == {j \in Jobs : phase[j] = "claimed" /\ phase'[j] = "lost"}
  <1>1. Queued' = Queued
    BY DEF Queued
  <1>2. \A j \in Jobs : Held(j)' => Held(j)
    BY DEF Held
  <1>3. \A j \in Jobs : Held(j) => j \in enqueued /\ j \notin Queued
    BY DEF Held, IInv, Ownership, ExclusiveClaim
  <1>4. ASSUME NEW j \in A PROVE phase[j] = "claimed" /\ phase'[j] = "answered"
    <2>1. j \in Jobs /\ j \in answered' /\ j \notin answered /\ Held(j)
      OBVIOUS
    <2> QED BY <1>3, <2>1, PhaseNow, PhaseThen
  <1>5. ASSUME NEW j \in Jobs, j \notin A, j \notin L PROVE phase'[j] = phase[j]
    <2>1. j \in answered' <=> j \in answered
      BY <1>5
    <2>2. CASE j \notin enqueued \/ j \in answered \/ j \in Queued
      BY <1>1, <2>1, <2>2, PhaseNow, PhaseThen
    <2>3. CASE j \in enqueued \ (answered \cup Queued)
      <3>1. /\ phase[j] = IF Held(j) THEN "claimed" ELSE "lost"
            /\ phase'[j] = IF Held(j)' THEN "claimed" ELSE "lost"
        BY <1>1, <2>1, <2>3, PhaseNow, PhaseThen
      <3> QED BY <1>2, <1>5, <3>1
    <2> QED BY <2>2, <2>3
  <1>6. /\ A \cap L = {} /\ \A j \in A \cup L : phase[j] = "claimed"
        /\ \A j \in Jobs : phase'[j] = IF j \in A THEN "answered"
                                      ELSE IF j \in L THEN "lost" ELSE phase[j]
    BY <1>4, <1>5
  <1>7. A \in SUBSET Jobs /\ L \in SUBSET Jobs
    OBVIOUS
  <1> HIDE DEF A, L
  <1>8. Contract!Finish(A, L)
    BY <1>6, PhaseDomain DEF Contract!Finish
  <1> QED BY <1>7, <1>8 DEF Contract!Next

(* Pushing accepts the job. *)
LEMMA PhaseAccept ==
  ASSUME IInv, IInv', NEW i \in Jobs, i \notin enqueued, PushJob(i), UNCHANGED slotVars,
         UNCHANGED answered
  PROVE  Contract!Next
  <1>1. queue \in Seq(Jobs) /\ queue' = Append(queue, i) /\ enqueued' = enqueued \cup {i}
    BY DEF PushJob, IInv, TypeInv, TypeOK
  <1>2. Queued' = Queued \cup {i}
    BY <1>1 DEF Queued
  <1>3. \A j \in Jobs : Held(j)' <=> Held(j)
    BY DEF Held, Holds, slotVars
  <1>4. phase[i] = "new" /\ phase'[i] = "queued"
    BY <1>2, PhaseNow, PhaseThen
  <1>5. ASSUME NEW j \in Jobs \ {i} PROVE phase'[j] = phase[j]
    <2>1. /\ j \in Jobs /\ (j \in enqueued' <=> j \in enqueued) /\ (j \in Queued' <=> j \in Queued)
          /\ (j \in answered' <=> j \in answered)
      BY <1>1, <1>2
    <2> QED BY <1>3, <2>1, PhaseNow, PhaseThen
  <1>6. phase' = [phase EXCEPT ![i] = "queued"]
    BY <1>4, <1>5, PhaseDomain
  <1> QED BY <1>4, <1>6 DEF Contract!Next, Contract!Accept

(* Popping takes the job out of the list into the batch, and moves no other. *)
LEMMA ClaimTakes ==
  ASSUME IInv, Bare, NEW p \in Batches, Claim(p) \/ ClaimStale(p)
  PROVE  /\ OnlySlot(p) /\ UNCHANGED <<enqueued, answered>>
         /\ \E i \in Jobs : /\ i = Popped(p) /\ i \in Queued /\ Queued' = Queued \ {i}
                           /\ Holds(p)' = Holds(p) \cup {i}
  <1>1. /\ queue # <<>> /\ Pop(p) /\ step[p] = "none" /\ cur[p] = NoJob
        /\ UNCHANGED <<enqueued, answered>>
    BY DEF Claim, ClaimStale, CanPop, historyVars, Bare
  <1>2. PICK i \in Jobs : /\ i = Popped(p) /\ i \in Queued /\ i \notin Queued'
                         /\ Queued' \subseteq Queued
    BY <1>1, PopTakes, PopType DEF IInv, TypeInv
  <1>3. Queued \ {i} \subseteq Queued'
    <2>1. queue \in Seq(Jobs) /\ Len(queue) \in Nat \ {0} /\ DOMAIN queue = 1 .. Len(queue)
      BY <1>1 DEF IInv, TypeInv, TypeOK
    <2>2. CASE PopsTail(p)
      <3>1. /\ DOMAIN queue' = 1 .. Len(queue) - 1
            /\ \A k \in DOMAIN queue' : queue'[k] = queue[k]
        BY <1>1, <2>1, <2>2 DEF Pop
      <3>2. i = queue[Len(queue)]
        BY <1>2, <2>2 DEF Popped
      <3> QED BY <2>1, <3>1, <3>2 DEF Queued
    <2>3. CASE ~PopsTail(p)
      <3>1. /\ DOMAIN queue' = 1 .. Len(queue) - 1
            /\ \A k \in DOMAIN queue' : queue'[k] = queue[k + 1]
        BY <1>1, <2>1, <2>3 DEF Pop
      <3>2. i = queue[1]
        BY <1>2, <2>1, <2>3 DEF Popped
      <3>3. ASSUME NEW k \in DOMAIN queue, queue[k] # i PROVE queue[k] \in Queued'
        <4>1. k - 1 \in DOMAIN queue' /\ queue'[k - 1] = queue[k]
          BY <2>1, <3>1, <3>2, <3>3
        <4> QED BY <4>1 DEF Queued
      <3> QED BY <3>3 DEF Queued
    <2> QED BY <2>2, <2>3
  <1>4. OnlySlot(p) /\ Holds(p)' = Holds(p) \cup {i}
    <2>1. CASE Claim(p)
      <3>1. batch'[p] = batch[p] \cup {i} /\ cur'[p] = cur[p]
        BY <1>2, <2>1 DEF Claim, IInv, TypeInv, TypeOK
      <3>2. OnlySlot(p)
        BY <2>1 DEF Claim, OnlySlot, IInv, TypeInv, TypeOK
      <3> QED BY <3>1, <3>2 DEF Holds
    <2>2. CASE ClaimStale(p)
      <3>1. batch'[p] = batch[p] /\ cur'[p] = i
        BY <1>2, <2>2 DEF ClaimStale, IInv, TypeInv, TypeOK
      <3>2. OnlySlot(p)
        BY <2>2 DEF ClaimStale, OnlySlot, IInv, TypeInv, TypeOK
      <3> QED BY <1>1, <1>2, <3>1, <3>2, ConstantsOK DEF Holds
    <2> QED BY <2>1, <2>2
  <1> QED BY <1>1, <1>2, <1>3, <1>4

(* Popping claims the job: nothing else leaves the list or the batch. *)
LEMMA PhaseClaim ==
  ASSUME IInv, IInv', Bare, NEW p \in Batches, Claim(p) \/ ClaimStale(p)
  PROVE  Contract!Next
  <1>1. OnlySlot(p) /\ UNCHANGED <<enqueued, answered>>
    BY ClaimTakes
  <1>2. PICK i \in Jobs : /\ i \in Queued /\ i \notin Queued' /\ Queued' = Queued \ {i}
                         /\ Holds(p)' = Holds(p) \cup {i}
    BY ClaimTakes
  <1>5. /\ Held(i)' /\ \A j \in Jobs \ {i} : Held(j)' <=> Held(j)
    <2>1. \A q \in Batches \ {p} : Holds(q)' = Holds(q)
      BY <1>1, OnlySlotKeeps
    <2>2. i \in Holds(p)' /\ \A j \in Jobs \ {i} : j \in Holds(p)' <=> j \in Holds(p)
      BY <1>2
    <2> QED BY <2>1, <2>2 DEF Held
  <1>6. phase[i] = "queued"
    BY <1>2, PhaseNow
  <1>7. phase'[i] = "claimed"
    <2>1. i \in enqueued' \ (answered' \cup Queued')
      BY <1>1, <1>2 DEF IInv, Ownership, Settling
    <2> QED BY <1>2, <1>5, <2>1, PhaseThen
  <1>8. ASSUME NEW j \in Jobs \ {i} PROVE phase'[j] = phase[j]
    <2>1. /\ j \in Jobs /\ (j \in enqueued' <=> j \in enqueued) /\ (j \in Queued' <=> j \in Queued)
          /\ (j \in answered' <=> j \in answered)
      BY <1>1, <1>2, <1>2
    <2> QED BY <1>5, <2>1, PhaseNow, PhaseThen
  <1>9. phase' = [phase EXCEPT ![i] = "claimed"]
    BY <1>7, <1>8, PhaseDomain
  <1> QED BY <1>2, <1>6, <1>9 DEF Contract!Next, Contract!Claim

(* What a batch does after its pops answers at most the job it is settling. *)
LEMMA PhaseSlot ==
  ASSUME IInv, IInv', Bare, NEW p \in Batches, SlotStep(p)
  PROVE  Contract!Next
  <1>1. ASSUME UNCHANGED <<queue, enqueued, answered>>,
               \A q \in Batches : Holds(q)' \subseteq Holds(q)
        PROVE  Contract!Next
    BY <1>1, PhaseFinish
  <1>2. ASSUME NEW j \in Jobs, j \in Holds(p), UNCHANGED <<queue, enqueued>>,
               answered' = answered \/ answered' = answered \cup {j},
               \A q \in Batches : Holds(q)' \subseteq Holds(q)
        PROVE  Contract!Next
    <2>1. answered \subseteq answered' /\ \A i \in answered' \ answered : Held(i)
      BY <1>2 DEF Held
    <2> QED BY <1>2, <2>1, PhaseFinish
  <1>3. ASSUME OnlySlot(p), Holds(p)' \subseteq Holds(p)
        PROVE  \A q \in Batches : Holds(q)' \subseteq Holds(q)
    BY <1>3, OnlySlotKeeps
  <1>4. ASSUME NEW j \in Jobs, NEW s \in Terminal, PublishOrAbandon(p, j, s), Publishes(p, j)
        PROVE  Contract!Next
    <2>1. j \in Holds(p)
      BY <1>4, ConstantsOK DEF Publishes, Holds, IInv, Shape, ShapeOf
    <2>2. /\ UNCHANGED <<queue, enqueued>>
          /\ answered' = answered \/ answered' = answered \cup {j}
      BY <1>4 DEF PublishOrAbandon, Publish, WriteFails, WriteStatus
    <2>3. OnlySlot(p) /\ Holds(p)' \subseteq Holds(p)
      BY <1>4, PublishShape, AbandonShape DEF PublishOrAbandon, WriteFails, IInv
    <2> QED BY <1>2, <1>3, <2>1, <2>2, <2>3
  <1>5. CASE Collect(p)
    <2>1. CASE StartCollect(p) \/ Filled(p)
      <3>1. UNCHANGED <<queue, enqueued, answered>>
        BY <2>1 DEF StartCollect, Filled, storeVars, historyVars
      <3>2. UNCHANGED <<batch, cur>>
        BY <2>1 DEF StartCollect, Filled
      <3>3. \A q \in Batches : Holds(q)' = Holds(q)
        BY <3>2 DEF Holds
      <3> QED BY <1>1, <3>1, <3>3
    <2> QED BY <1>5, <2>1, PhaseClaim DEF Collect
  <1>6. CASE Expire(p)
    <2>1. cur[p] \in Jobs /\ Publishes(p, cur[p]) /\ Publish(p, cur[p], "expired")
      BY <1>6 DEF Expire, Publishes, IInv, TypeInv, JobAtHand
    <2> QED BY <1>4, <2>1 DEF PublishOrAbandon, Terminal
  <1>7. CASE Amend(p)
    <2>1. cur[p] \in Jobs /\ Publishes(p, cur[p]) /\ PublishOrAbandon(p, cur[p], "error")
      BY <1>7 DEF Amend, Publishes, IInv, TypeInv, JobAtHand
    <2> QED BY <1>4, <2>1 DEF Terminal
  <1>8. CASE ExpireFails(p)
    <2>1. cur[p] \in Jobs /\ cur[p] \in Holds(p)
      BY <1>8, ConstantsOK DEF ExpireFails, IInv, TypeInv, JobAtHand, Holds
    <2>2. /\ UNCHANGED <<queue, enqueued>>
          /\ answered' = answered \/ answered' = answered \cup {cur[p]}
          /\ p[1] \in Workers /\ DropBatches(p[1])
      BY <1>8 DEF ExpireFails, LoopDies, WriteStatus, Batches
    <2>3. \A q \in Batches : Holds(q)' \subseteq Holds(q)
      BY <2>2, DropKeeps DEF IInv
    <2> QED BY <1>2, <2>1, <2>2, <2>3
  <1>9. CASE Release(p) \/ Notify(p) \/ Discard(p) \/ Cleanup(p)
    <2>1. UNCHANGED <<queue, enqueued, answered>>
      BY <1>9 DEF Release, Notify, Discard, Cleanup, storeVars, historyVars
    <2>2. OnlySlot(p) /\ Holds(p)' \subseteq Holds(p)
      BY <1>9, SettledShape DEF IInv
    <2> QED BY <1>1, <1>3, <2>1, <2>2
  <1>10. ASSUME NEW j \in Jobs,
                DecodeFails(p, j) \/ Reject(p, j) \/ Fail(p, j) \/ VerifyFails(p, j)
         PROVE  Contract!Next
    <2>1. Publishes(p, j)
      BY <1>10 DEF Publishes, DecodeFails, Reject, Fail, VerifyFails, At
    <2>2. PublishOrAbandon(p, j, "done") \/ PublishOrAbandon(p, j, "error")
      BY <1>10 DEF DecodeFails, Reject, Fail, VerifyFails
    <2> QED BY <1>4, <2>1, <2>2 DEF Terminal
  <1>11. ASSUME NEW j \in Jobs, Verify(p, j) PROVE Contract!Next
    <2>1. CASE Publish(p, j, "done")
      <3>1. Publishes(p, j)
        BY <1>11 DEF Publishes, Verify, At
      <3> QED BY <1>4, <2>1, <3>1 DEF PublishOrAbandon, Terminal
    <2>2. CASE ~Publish(p, j, "done")
      <3>1. WriteFails(j, "done") /\ step'[p] # "release"
        BY <1>11, <2>2 DEF Verify, IInv, TypeInv, TypeOK
      <3>2. OnlySlot(p) /\ Holds(p)' \subseteq Holds(p) /\ j \in Holds(p)
        BY <1>11, <3>1, AmendShape DEF IInv
      <3>3. /\ UNCHANGED <<queue, enqueued>>
            /\ answered' = answered \/ answered' = answered \cup {j}
        BY <3>1 DEF WriteFails, WriteStatus
      <3> QED BY <1>2, <1>3, <3>2, <3>3
    <2> QED BY <2>1, <2>2
  <1>12. CASE \/ \E j \in Jobs : Decode(p, j)
              \/ DecodeEnds(p) \/ Prepare(p) \/ PrepareFails(p) \/ RejectEnds(p) \/ TakePermit(p)
              \/ Encode(p) \/ Search(p) \/ EncodeOrSearchFails(p) \/ FailEnds(p) \/ VerifyEnds(p)
    <2>1. /\ OnlySlot(p) /\ Holds(p)' = Holds(p)
          /\ UNCHANGED <<storeVars, apiVars, wpc, mishaps, historyVars>>
      BY <1>12, ProcessMoves DEF IInv
    <2>2. UNCHANGED <<queue, enqueued, answered>>
      BY <2>1 DEF storeVars, historyVars
    <2> QED BY <1>1, <1>3, <2>1, <2>2
  <1> QED
    BY <1>5, <1>6, <1>7, <1>8, <1>9, <1>10, <1>11, <1>12 DEF SlotStep, Settle, Process

LEMMA PhaseNext ==
  ASSUME IInv, IInv', Bare, [Next]_vars
  PROVE  [Contract!Next]_phase
  <1>1. ASSUME UNCHANGED <<queue, enqueued, answered>>,
               \A q \in Batches : Holds(q)' \subseteq Holds(q)
        PROVE  Contract!Next
    BY <1>1, PhaseFinish
  <1>2. ASSUME NEW h \in Handlers,
               (\E r \in Routes, j \in Jobs : Begin(h, r, j)) \/ ApiStep(h) \/ ApiCrash(h)
        PROVE  Contract!Next
    <2>1. /\ UNCHANGED slotVars /\ UNCHANGED answered
          /\ \/ UNCHANGED <<queue, enqueued>>
             \/ PushJob(hjob[h]) /\ hpc[h] = "enqueue"
      BY <1>2 DEF Begin, ApiStep, MeasureQueue, Decide, Upload, UploadFails, Enqueue,
                  EnqueueFails, Undo, ApiCrash, storeVars, historyVars, slotVars
    <2>2. \A q \in Batches : Holds(q)' = Holds(q)
      BY <2>1 DEF Holds, slotVars
    <2>3. hpc[h] = "enqueue" => hjob[h] \in Jobs /\ hjob[h] \notin enqueued
      BY DEF IInv, TypeInv, JobAtHand, Ownership
    <2> QED BY <1>1, <2>1, <2>2, <2>3, PhaseAccept
  <1>3. ASSUME NEW w \in Workers, Start(w) \/ ZeroInflight(w) \/ Crash(w) \/ LoopFails(w)
        PROVE  Contract!Next
    <2>1. UNCHANGED <<queue, enqueued, answered>>
      BY <1>3 DEF Start, ZeroInflight, Crash, LoopFails, storeVars, historyVars
    <2>2. CASE Start(w) \/ ZeroInflight(w)
      <3>1. \A q \in Batches : Holds(q)' = Holds(q)
        BY <2>2 DEF Start, ZeroInflight, Holds, slotVars
      <3> QED BY <1>1, <2>1, <3>1
    <2>3. CASE Crash(w) \/ LoopFails(w)
      <3>1. DropBatches(w)
        BY <2>3 DEF Crash, LoopFails, LoopDies
      <3>2. \A q \in Batches : Holds(q)' \subseteq Holds(q)
        BY <3>1, DropKeeps DEF IInv
      <3> QED BY <1>1, <2>1, <3>2
    <2> QED BY <1>3, <2>2, <2>3
  <1>4. CASE (\E j \in Jobs : Lapse(j) \/ Sweep(j)) \/ UNCHANGED vars
    <2>1. UNCHANGED <<queue, enqueued, answered>> /\ UNCHANGED slotVars
      BY <1>4 DEF Lapse, Sweep, vars, storeVars, slotVars, historyVars
    <2>2. \A q \in Batches : Holds(q)' = Holds(q)
      BY <2>1 DEF Holds, slotVars
    <2> QED BY <1>1, <2>1, <2>2
  <1> QED BY <1>2, <1>3, <1>4, PhaseSlot DEF Next

(* The queue of the code keeps the contract of JobContract: every job is
   accepted once, claimed once, and then answered for good or lost with the
   batch that held it; no crash, failed write or lapsed key makes a job come
   back or disappears one that is still queued. *)
THEOREM ImplementsContract == Spec => ContractSpec
  <1>1. Init => Contract!Init /\ Bare
    <2> SUFFICES ASSUME Init PROVE Contract!Init /\ Bare
      OBVIOUS
    <2>1. \A j \in Jobs : phase[j] = "new"
      BY InitInv, PhaseNow DEF Init
    <2>2. Bare
      BY DEF Init, Bare
    <2> QED BY <2>1, <2>2, PhaseDomain DEF Contract!Init
  <1>2. IInv /\ Bare /\ [Next]_vars => Bare'
    BY BareNext
  <1>3. IInv /\ IInv' /\ Bare /\ [Next]_vars => [Contract!Next]_phase
    BY PhaseNext
  <1> QED BY <1>1, <1>2, <1>3, Invariance, PTL DEF Spec, ContractSpec, Contract!Spec

-----------------------------------------------------------------------------
(* Runs without mishaps *)

(* What a batch has done for the job it is settling. *)
Course(p) ==
  /\ bpc[p] \in {"prepare", "encode", "encoding", "search"} => todo[p] = {}
  /\ bpc[p] = "fail" => ready[p] = {}
  /\ step[p] # "amend"
  /\ step[p] = "expire" => Collecting(p)
  /\ (step[p] = "release" /\ Collecting(p)) => answer[cur[p]] = "expired"
  /\ (step[p] = "release" /\ ~Collecting(p)) => cur[p] \in batch[p]
  /\ step[p] = "notify" => cur[p] \in batch[p] \cap released
  /\ step[p] = "discard" => answer[cur[p]] = "expired" /\ cur[p] \in answered \cap released

(* A job is on its way, or everything was done for it. *)
Served(j) ==
  j \in answered \cap released /\ (j \in notified \/ answer[j] = "expired")

Kept(j) ==
  \/ j \in Queued
  \/ \E p \in Batches : j \in Rest(p) \/ j = cur[p]
  \/ Served(j)

(* verify_async uploads last and undoes nothing that went well. *)
Uploads(h) ==
  /\ hpc[h] = "idle" => hjob[h] = NoJob
  /\ hpc[h] # "undo"
  /\ hpc[h] # "idle" => photo[hjob[h]] \in {"none", hroute[h]}
  /\ (hpc[h] \in {"measure", "decide", "upload"} /\ hroute[h] = "verify_async") =>
       photo[hjob[h]] = "none"

PhotoOwned(j) == photo[j] = "verify_async" => ~Unowned(j)

Smooth ==
  /\ \A p \in Batches : Course(p)
  /\ \A j \in enqueued : Kept(j)
  /\ \A h \in Handlers : Uploads(h)
  /\ \A j \in Jobs : PhotoOwned(j)

Grows ==
  /\ answered \subseteq answered' /\ released \subseteq released' /\ notified \subseteq notified'
  /\ \A j \in Jobs : answer[j] = "expired" => answer'[j] = "expired"

(* Other batches do not notice what slot p does. *)
LEMMA CourseOthers ==
  ASSUME IInv, NEW p \in Batches, OnlySlot(p), Grows,
         NEW q \in Batches \ {p}, Course(q)
  PROVE  Course(q)'
  <1>1. /\ bpc'[q] = bpc[q] /\ batch'[q] = batch[q] /\ todo'[q] = todo[q]
        /\ ready'[q] = ready[q] /\ cur'[q] = cur[q] /\ step'[q] = step[q]
    BY DEF OnlySlot
  <1>2. step[q] # "none" => cur[q] \in Jobs
    BY DEF IInv, TypeInv, JobAtHand
  <1>3. Collecting(q)' <=> Collecting(q)
    BY <1>1 DEF Collecting
  <1>4. step[q] \in {"release", "discard"} /\ answer[cur[q]] = "expired" => answer'[cur[q]] = "expired"
    BY <1>2 DEF Grows
  <1> QED BY <1>1, <1>3, <1>4 DEF Course, Grows

(* A step of slot p keeps a job if it keeps those of p's own. *)
LEMMA KeptSlot ==
  ASSUME IInv, NEW p \in Batches, OnlySlot(p), Grows, NEW j \in enqueued, Kept(j),
         j \in Queued => j \in Queued' \/ j \in Rest(p)' \/ j = cur'[p],
         j \in Rest(p) \/ j = cur[p] => j \in Rest(p)' \/ j = cur'[p] \/ Served(j)'
  PROVE  Kept(j)'
  <1>1. j \in Jobs
    BY DEF IInv, TypeInv, TypeOK
  <1>2. CASE j \in Queued
    BY <1>2 DEF Kept
  <1>3. ASSUME NEW q \in Batches, j \in Rest(q) \/ j = cur[q] PROVE Kept(j)'
    <2>1. CASE q = p
      BY <1>3, <2>1 DEF Kept
    <2>2. CASE q # p
      <3>1. Rest(q)' = Rest(q) /\ cur'[q] = cur[q]
        BY <2>2, OnlySlotKeeps
      <3>2. j \in Rest(q)' \/ j = cur'[q]
        BY <1>3, <3>1
      <3> QED BY <3>2 DEF Kept
    <2> QED BY <2>1, <2>2
  <1>4. CASE Served(j)
    <2>1. Served(j)'
      BY <1>1, <1>4 DEF Served, Grows
    <2> QED BY <2>1 DEF Kept
  <1> QED BY <1>2, <1>3, <1>4 DEF Kept

(* A step of slot p that neither uploads nor hands a job over: a photo that
   stays keeps its owner. *)
LEMMA PhotosSlot ==
  ASSUME IInv, Smooth, NEW p \in Batches, OnlySlot(p), UNCHANGED <<hpc, hjob, hroute>>,
         \A j \in Jobs : photo'[j] \in {photo[j], "none"},
         \A j \in Queued : j \in Queued' \/ j \in Holds(p)',
         \A j \in Holds(p) : j \in Holds(p)' \/ photo'[j] = "none"
  PROVE  (\A h \in Handlers : Uploads(h)') /\ (\A j \in Jobs : PhotoOwned(j)')
  <1>1. ASSUME NEW h \in Handlers PROVE Uploads(h)'
    <2>1. hpc[h] # "idle" => hjob[h] \in Jobs
      BY DEF IInv, TypeInv, JobAtHand
    <2>2. Uploads(h)
      BY DEF Smooth
    <2>3. hpc[h] # "idle" => photo'[hjob[h]] \in {photo[hjob[h]], "none"}
      BY <2>1
    <2> QED BY <2>2, <2>3 DEF Uploads
  <1>2. ASSUME NEW j \in Jobs PROVE PhotoOwned(j)'
    <2> SUFFICES ASSUME photo'[j] = "verify_async" PROVE ~Unowned(j)'
      BY DEF PhotoOwned
    <2>1. photo[j] = "verify_async" /\ ~Unowned(j)
      BY DEF Smooth, PhotoOwned
    <2>2. CASE j \in Queued
      BY <2>2 DEF Unowned
    <2>3. ASSUME NEW q \in Batches, j \in Holds(q) PROVE ~Unowned(j)'
      <3>1. CASE q = p
        BY <2>3, <3>1 DEF Unowned
      <3>2. CASE q # p
        BY <2>3, <3>2, OnlySlotKeeps DEF Unowned
      <3> QED BY <3>1, <3>2
    <2>4. ASSUME NEW h \in Handlers, hjob[h] = j PROVE ~Unowned(j)'
      BY <2>4 DEF Unowned
    <2> QED BY <2>1, <2>2, <2>3, <2>4 DEF Unowned
  <1> QED BY <1>1, <1>2

(* A step of slot p, put together. *)
LEMMA SmoothSlot ==
  ASSUME IInv, Smooth, NEW p \in Batches, OnlySlot(p), Grows, Course(p)',
         UNCHANGED <<enqueued, hpc, hjob, hroute>>,
         \A j \in Jobs : photo'[j] \in {photo[j], "none"},
         \A j \in Queued : j \in Queued' \/ j \in Rest(p)' \/ j = cur'[p],
         \A j \in Queued : j \in Queued' \/ j \in Holds(p)',
         \A j \in Holds(p) : j \in Holds(p)' \/ photo'[j] = "none",
         \A j \in Jobs : j \in Rest(p) \/ j = cur[p] => j \in Rest(p)' \/ j = cur'[p] \/ Served(j)'
  PROVE  Smooth'
  <1>1. \A q \in Batches : Course(q)'
    BY CourseOthers DEF Smooth
  <1>2. ASSUME NEW j \in enqueued PROVE Kept(j)'
    <2>1. j \in Jobs /\ Kept(j)
      BY DEF Smooth, IInv, TypeInv, TypeOK
    <2> QED BY <2>1, KeptSlot
  <1>3. (\A h \in Handlers : Uploads(h)') /\ (\A j \in Jobs : PhotoOwned(j)')
    BY PhotosSlot
  <1> QED BY <1>1, <1>2, <1>3 DEF Smooth

LEMMA SmoothCollect ==
  ASSUME IInv, IInv', Bare, Smooth, NEW p \in Batches, Collect(p)
  PROVE  Smooth'
  <1>1. /\ UNCHANGED <<enqueued, answered, released, notified, answer, photo>>
        /\ UNCHANGED <<hpc, hjob, hroute>> /\ step[p] = "none" /\ cur[p] = NoJob
    BY DEF Collect, StartCollect, Claim, ClaimStale, Filled, CanPop, At, storeVars, apiVars,
           historyVars, Bare
  <1>2. Grows
    BY <1>1 DEF Grows
  <1>3. ShapeOf(p) /\ ShapeOf(p)' /\ Course(p)
    BY DEF IInv, Shape, Smooth
  <1>4. \A j \in Jobs : j # NoJob
    BY ConstantsOK
  <1>5. CASE StartCollect(p) \/ Filled(p)
    <2>1. /\ OnlySlot(p) /\ step'[p] = "none" /\ cur'[p] = cur[p] /\ batch'[p] = batch[p]
          /\ ready'[p] = ready[p] /\ UNCHANGED queue
          /\ \/ bpc[p] = "free" /\ bpc'[p] = "claim" /\ todo'[p] = todo[p]
             \/ bpc[p] = "fill" /\ bpc'[p] = "decode" /\ todo'[p] = batch[p]
      BY <1>1, <1>5 DEF StartCollect, Filled, At, OnlySlot, storeVars, IInv, TypeInv, TypeOK
    <2>2. Course(p)' /\ Queued' = Queued
      BY <2>1 DEF Course, Queued
    <2>3. Rest(p) \subseteq Rest(p)' /\ Holds(p)' = Holds(p)
      BY <1>3, <2>1 DEF Rest, LiveReady, Collecting, Holds, ShapeOf
    <2> QED BY <1>1, <1>2, <1>4, <2>1, <2>2, <2>3, SmoothSlot
  <1>6. CASE Claim(p) \/ ClaimStale(p)
    <2>1. PICK i \in Jobs : /\ i = Popped(p) /\ i \in Queued /\ Queued' = Queued \ {i}
                            /\ Holds(p)' = Holds(p) \cup {i} /\ OnlySlot(p)
      BY <1>6, ClaimTakes
    <2>2. /\ bpc[p] \in {"claim", "fill"} /\ todo'[p] = todo[p] /\ ready'[p] = ready[p]
          /\ \/ /\ bpc'[p] = "fill" /\ step'[p] = "none" /\ batch'[p] = batch[p] \cup {i}
                /\ cur'[p] = cur[p]
             \/ bpc'[p] = bpc[p] /\ step'[p] = "expire" /\ batch'[p] = batch[p] /\ cur'[p] = i
      BY <1>1, <1>6, <2>1 DEF Claim, ClaimStale, CanPop, IInv, TypeInv, TypeOK
    <2>3. Course(p)'
      BY <2>2 DEF Course, Collecting
    <2>4. Rest(p) \subseteq Rest(p)' /\ (i \in Rest(p)' \/ i = cur'[p])
      BY <2>2 DEF Rest, LiveReady, Collecting
    <2> QED BY <1>1, <1>2, <1>4, <2>1, <2>3, <2>4, SmoothSlot
  <1> QED BY <1>5, <1>6 DEF Collect

(* The stages of process_batch. *)
LEMMA SmoothMove ==
  ASSUME IInv, Bare, Smooth, NEW p \in Batches,
         \/ \E j \in Jobs : Decode(p, j)
         \/ DecodeEnds(p) \/ Prepare(p) \/ PrepareFails(p) \/ RejectEnds(p) \/ TakePermit(p)
         \/ Encode(p) \/ Search(p) \/ EncodeOrSearchFails(p) \/ FailEnds(p) \/ VerifyEnds(p)
  PROVE  Smooth'
  <1>1. /\ OnlySlot(p) /\ Holds(p)' = Holds(p) /\ step[p] = "none" /\ step'[p] = "none"
        /\ UNCHANGED <<storeVars, apiVars, wpc, mishaps, historyVars>>
    BY ProcessMoves DEF IInv
  <1>2. /\ UNCHANGED <<queue, enqueued, answered, released, notified, answer, photo>>
        /\ UNCHANGED <<hpc, hjob, hroute>> /\ cur[p] = NoJob
    BY <1>1 DEF storeVars, apiVars, historyVars, Bare
  <1>3. Grows /\ Queued' = Queued
    BY <1>2 DEF Grows, Queued
  <1>4. ShapeOf(p) /\ Course(p)
    BY DEF IInv, Shape, Smooth
  <1>5. /\ bpc'[p] \in {"prepare", "encode", "encoding", "search"} => todo'[p] = {}
        /\ bpc'[p] = "fail" => ready'[p] = {}
        /\ Rest(p) \subseteq Rest(p)'
    <2>1. ASSUME NEW pc, NEW t, NEW r, Move(p, pc, t, r)
          PROVE  bpc'[p] = pc /\ todo'[p] = t /\ ready'[p] = r /\ batch'[p] = batch[p]
      BY <2>1 DEF Move, IInv, TypeInv, TypeOK
    <2>2. ASSUME NEW j \in Jobs, Decode(p, j)
          PROVE  /\ bpc[p] = "decode" /\ bpc'[p] = "decode"
                 /\ todo'[p] = todo[p] \ {j} /\ ready'[p] = ready[p] \cup {j}
      BY <2>1, <2>2 DEF Decode, At
    <2>3. CASE \E j \in Jobs : Decode(p, j)
      BY <2>2, <2>3 DEF Rest, LiveReady, Collecting
    <2>4. CASE DecodeEnds(p) \/ RejectEnds(p)
      <3>1. /\ bpc[p] \in {"decode", "reject"} /\ todo[p] = {} /\ todo'[p] = {}
            /\ ready'[p] = ready[p] /\ bpc'[p] \in {"cleanup", "prepare", "encode"}
        BY <2>1, <2>4 DEF DecodeEnds, RejectEnds, At
      <3> QED BY <3>1 DEF Rest, LiveReady, Collecting
    <2>5. CASE Prepare(p)
      <3>1. PICK ok \in SUBSET ready[p] : Move(p, "reject", ready[p] \ ok, ok)
        BY <2>5 DEF Prepare
      <3>2. /\ bpc[p] = "prepare" /\ bpc'[p] = "reject" /\ todo[p] = {}
            /\ todo'[p] \cup ready'[p] = ready[p]
        BY <1>4, <2>1, <2>5, <3>1 DEF Prepare, At, Course
      <3> QED BY <3>2 DEF Rest, LiveReady, Collecting
    <2>6. CASE PrepareFails(p) \/ EncodeOrSearchFails(p)
      <3>1. /\ bpc[p] \in {"prepare", "encoding", "search"} /\ bpc'[p] = "fail" /\ todo[p] = {}
            /\ todo'[p] = ready[p] /\ ready'[p] = {}
        BY <1>4, <2>1, <2>6 DEF PrepareFails, EncodeOrSearchFails, At, Course
      <3> QED BY <3>1 DEF Rest, LiveReady, Collecting
    <2>7. CASE TakePermit(p) \/ Encode(p)
      <3>1. /\ bpc[p] \in {"encode", "encoding"} /\ bpc'[p] \in {"encoding", "search"}
            /\ todo[p] = {} /\ todo'[p] = {} /\ ready'[p] = ready[p]
        BY <1>4, <2>1, <2>7 DEF TakePermit, Encode, At, Course
      <3> QED BY <3>1 DEF Rest, LiveReady, Collecting
    <2>8. CASE Search(p)
      <3>1. /\ bpc[p] = "search" /\ bpc'[p] = "verify"
            /\ todo[p] = {} /\ todo'[p] = ready[p] /\ ready'[p] = ready[p]
        BY <1>4, <2>1, <2>8 DEF Search, At, Course
      <3> QED BY <3>1 DEF Rest, LiveReady, Collecting
    <2>9. CASE FailEnds(p) \/ VerifyEnds(p)
      <3>1. /\ bpc[p] \in {"fail", "verify"} /\ bpc'[p] = "cleanup" /\ todo[p] = {}
            /\ todo'[p] = {} /\ ready'[p] = {} /\ (bpc[p] = "fail" => ready[p] = {})
        BY <1>4, <2>1, <2>9 DEF FailEnds, VerifyEnds, At, Course
      <3> QED BY <3>1 DEF Rest, LiveReady, Collecting
    <2> QED BY <2>3, <2>4, <2>5, <2>6, <2>7, <2>8, <2>9
  <1>6. Course(p)'
    BY <1>1, <1>5 DEF Course
  <1>7. \A j \in Jobs : j # cur[p]
    BY <1>2, ConstantsOK
  <1> QED BY <1>1, <1>2, <1>3, <1>5, <1>6, <1>7, SmoothSlot

(* The answer is written. *)
LEMMA SmoothPublish ==
  ASSUME IInv, Bare, Smooth, NEW p \in Batches, NEW i \in Jobs, NEW s \in Terminal,
         Publish(p, i, s), Publishes(p, i), step[p] = "expire" => s = "expired"
  PROVE  Smooth'
  <1>1. /\ UNCHANGED <<enqueued, released, notified, photo, queue, hpc, hjob, hroute>>
        /\ answered' = answered \cup {i} /\ answer'[i] = s
        /\ \A j \in Jobs \ {i} : answer'[j] = answer[j]
        /\ bpc'[p] = bpc[p] /\ batch'[p] = batch[p] /\ todo'[p] = todo[p] \ {i}
        /\ ready'[p] = ready[p] /\ cur'[p] = i /\ step'[p] = "release"
    BY DEF Publish, WriteStatus, apiVars, IInv, TypeInv, TypeOK
  <1>2. ShapeOf(p) /\ Course(p) /\ CurOf(p) /\ Rest(p) \cap answered = {}
    BY DEF IInv, Shape, Settling, Smooth
  <1>3. i \notin answered
    BY <1>2 DEF Publishes, CurOf, Rest, Course
  <1>4. answer[i] # "expired"
    BY <1>3 DEF IInv, Settling, Terminal
  <1>5. Grows /\ Queued' = Queued
    BY <1>1, <1>4 DEF Grows, Queued
  <1>6. step[p] = "none" => cur[p] = NoJob
    BY DEF Bare
  <1>7. /\ Collecting(p) => step[p] = "expire"
        /\ ~Collecting(p) => step[p] = "none" /\ i \in todo[p] /\ i \in batch[p]
    BY <1>2 DEF Publishes, Collecting, ShapeOf, Course
  <1>8. Course(p)'
    <2>1. Collecting(p)' <=> Collecting(p)
      BY <1>1 DEF Collecting
    <2>2. bpc[p] \in {"prepare", "encode", "encoding", "search"} => todo'[p] = {}
      BY <1>1, <1>2 DEF Course
    <2> QED BY <1>1, <1>2, <1>7, <2>1, <2>2 DEF Course
  <1>9. Rest(p) \subseteq Rest(p)' \cup {i} /\ Holds(p) \subseteq Holds(p)'
    <2>1. cur[p] \in {NoJob, i}
      BY <1>6 DEF Publishes
    <2> QED BY <1>1, <2>1, ConstantsOK DEF Rest, LiveReady, Collecting, Holds
  <1>10. OnlySlot(p)
    BY PublishShape DEF IInv
  <1>11. \A j \in Jobs : j = cur[p] => j = i
    BY <1>6, ConstantsOK DEF Publishes
  <1> QED BY <1>1, <1>5, <1>8, <1>9, <1>10, <1>11, SmoothSlot

(* The unit is given back, the receiver told, the photo removed. *)
LEMMA SmoothSettled ==
  ASSUME IInv, Bare, Smooth, NEW p \in Batches, ~Mishap,
         Release(p) \/ Notify(p) \/ Discard(p) \/ Cleanup(p)
  PROVE  Smooth'
  <1>1. /\ OnlySlot(p) /\ UNCHANGED <<enqueued, answered, answer, queue, hpc, hjob, hroute>>
    <2>1. OnlySlot(p)
      BY SettledShape DEF IInv
    <2>2. UNCHANGED <<enqueued, answered, answer, queue, hpc, hjob, hroute>>
      BY DEF Release, Notify, Discard, Cleanup, storeVars, apiVars, historyVars
    <2> QED BY <2>1, <2>2
  <1>2. ShapeOf(p) /\ Course(p) /\ CurOf(p) /\ Queued' = Queued
    BY <1>1 DEF IInv, Shape, Settling, Smooth, Queued
  <1>3. \A j \in Jobs : j # NoJob
    BY ConstantsOK
  <1>4. step[p] # "none" => cur[p] \in Jobs
    BY DEF IInv, TypeInv, JobAtHand
  <1>5. CASE Release(p)
    <2>1. /\ step[p] = "release" /\ step'[p] = IF Collecting(p) THEN "discard" ELSE "notify"
          /\ released' = released \cup {cur[p]} /\ UNCHANGED <<notified, photo>>
          /\ bpc'[p] = bpc[p] /\ batch'[p] = batch[p] /\ todo'[p] = todo[p]
          /\ ready'[p] = ready[p] /\ cur'[p] = cur[p]
      BY <1>5 DEF Release, IInv, TypeInv, TypeOK
    <2>2. Grows
      BY <1>1, <2>1 DEF Grows
    <2>3. Collecting(p)' <=> Collecting(p)
      BY <2>1 DEF Collecting
    <2>4. Course(p)'
      BY <1>1, <1>2, <2>1, <2>3 DEF Course, CurOf
    <2>5. Rest(p)' = Rest(p) /\ Holds(p)' = Holds(p)
      BY <2>1 DEF Rest, LiveReady, Collecting, Holds
    <2> QED BY <1>1, <1>2, <2>1, <2>2, <2>4, <2>5, SmoothSlot
  <1>6. CASE Notify(p) \/ Discard(p)
    <2>1. /\ step[p] \in {"notify", "discard"} /\ step'[p] = "none" /\ cur'[p] = NoJob
          /\ released' = released /\ notified \subseteq notified'
          /\ bpc'[p] = bpc[p] /\ batch'[p] = batch[p] /\ todo'[p] = todo[p]
          /\ ready'[p] = ready[p]
          /\ step[p] = "notify" => cur[p] \in notified' /\ UNCHANGED photo
      BY <1>6 DEF Notify, Discard, Settled, storeVars, historyVars, IInv, TypeInv, TypeOK
    <2>2. Grows
      BY <1>1, <2>1 DEF Grows
    <2>3. Course(p)'
      BY <1>2, <2>1 DEF Course
    <2>4. ASSUME NEW j \in Jobs, j = cur[p] PROVE Served(j)'
      <3>1. j \in answered \cap released /\ (j \in notified' \/ answer[j] = "expired")
        BY <1>2, <2>1, <2>4 DEF Course, CurOf
      <3> QED BY <1>1, <2>1, <3>1 DEF Served
    <2>5. /\ \A j \in Jobs : photo'[j] \in {photo[j], "none"}
          /\ step[p] = "discard" => photo'[cur[p]] = "none"
      <3>1. CASE step[p] = "notify"
        BY <2>1, <3>1
      <3>2. CASE step[p] = "discard"
        <4>1. RemovePhotos({cur[p]})
          BY <1>6, <3>2 DEF Notify, Discard
        <4>2. photo' = [j \in Jobs |-> IF j \in {cur[p]} THEN "none" ELSE photo[j]]
          BY <4>1 DEF RemovePhotos
        <4> QED BY <1>4, <3>2, <4>2
      <3> QED BY <2>1, <3>1, <3>2
    <2>6. Rest(p)' = Rest(p) /\ \A j \in Holds(p) : j \in Holds(p)' \/ photo'[j] = "none"
      BY <1>2, <2>1, <2>5 DEF Rest, LiveReady, Collecting, Holds, Course
    <2> QED BY <1>1, <1>2, <2>2, <2>3, <2>4, <2>5, <2>6, SmoothSlot
  <1>7. CASE Cleanup(p)
    <2>1. /\ bpc[p] = "cleanup" /\ step[p] = "none" /\ cur[p] = NoJob /\ bpc'[p] = "free"
          /\ UNCHANGED <<cur, step, todo, ready, released, notified>>
          /\ RemovePhotos(batch[p])
      BY <1>7 DEF Cleanup, At, historyVars, Bare, IInv, TypeInv, TypeOK
    <2>2. photo' = [j \in Jobs |-> IF j \in batch[p] THEN "none" ELSE photo[j]]
      BY <2>1 DEF RemovePhotos
    <2>3. batch[p] \subseteq Jobs
      BY DEF IInv, TypeInv, TypeOK
    <2>4. /\ \A j \in Jobs : photo'[j] \in {photo[j], "none"}
          /\ \A j \in batch[p] : photo'[j] = "none"
      BY <2>2, <2>3
    <2>5. Grows /\ Course(p)'
      BY <1>1, <1>2, <2>1 DEF Grows, Course
    <2>6. Rest(p) = {}
      BY <1>2, <2>1 DEF Rest, LiveReady, Collecting, ShapeOf
    <2>7. \A j \in Holds(p) : photo'[j] = "none"
      BY <2>1, <2>4 DEF Holds
    <2> QED BY <1>1, <1>2, <1>3, <2>1, <2>4, <2>5, <2>6, <2>7, SmoothSlot
  <1> QED BY <1>5, <1>6, <1>7

(* Handlers: a job handed over is queued, a photo uploaded is somebody's. *)
LEMMA SmoothApi ==
  ASSUME IInv, IInv', Smooth, NEW h \in Handlers, ~Mishap,
         (\E r \in Routes, j \in Jobs : Begin(h, r, j)) \/ ApiStep(h) \/ ApiCrash(h)
  PROVE  Smooth'
  <1>1. /\ UNCHANGED slotVars /\ UNCHANGED <<answered, released, notified>>
        /\ \/ UNCHANGED <<queue, answer, enqueued>>
           \/ PushJob(hjob[h]) /\ hpc[h] = "enqueue"
    BY DEF Begin, ApiStep, MeasureQueue, Decide, Upload, UploadFails, Enqueue, EnqueueFails, Undo,
           ApiCrash, storeVars, historyVars, slotVars
  <1>2. hpc[h] # "idle" => hjob[h] \in Jobs /\ hjob[h] # NoJob
    BY ConstantsOK DEF IInv, TypeInv, JobAtHand
  <1>3. hpc[h] = "enqueue" => hjob[h] \notin enqueued
    BY DEF IInv, Ownership
  <1>4. \A j \in enqueued : j \in Jobs /\ answer'[j] = answer[j]
    BY <1>1, <1>2, <1>3 DEF PushJob, IInv, TypeInv, TypeOK
  <1>5. Queued \subseteq Queued' /\ enqueued' \subseteq enqueued \cup Queued'
    <2>1. CASE UNCHANGED <<queue, answer, enqueued>>
      BY <2>1 DEF Queued
    <2>2. CASE PushJob(hjob[h]) /\ hpc[h] = "enqueue"
      <3>1. queue' = Append(queue, hjob[h]) /\ queue \in Seq(Jobs) /\ enqueued' = enqueued \cup {hjob[h]}
        BY <2>2 DEF PushJob, IInv, TypeInv, TypeOK
      <3>2. Queued' = Queued \cup {hjob[h]}
        BY <1>2, <2>2, <3>1 DEF Queued
      <3> QED BY <3>1, <3>2
    <2> QED BY <1>1, <2>1, <2>2
  <1>6. ASSUME NEW p \in Batches PROVE Course(p)'
    <2>1. step[p] # "none" => cur[p] \in enqueued
      BY ConstantsOK DEF IInv, TypeInv, JobAtHand, Ownership, Holds
    <2>2. step[p] # "none" => answer'[cur[p]] = answer[cur[p]]
      BY <1>4, <2>1
    <2>3. Course(p) /\ (Collecting(p)' <=> Collecting(p))
      BY <1>1 DEF Smooth, slotVars, Collecting
    <2>4. UNCHANGED <<bpc, batch, todo, ready, cur, step, answered, released>>
      BY <1>1 DEF slotVars
    <2> QED BY <2>2, <2>3, <2>4 DEF Course
  <1>7. ASSUME NEW j \in enqueued' PROVE Kept(j)'
    <2>1. \A p \in Batches : Rest(p)' = Rest(p) /\ cur'[p] = cur[p]
      BY <1>1 DEF slotVars, Rest, LiveReady, Collecting
    <2>2. CASE j \in Queued'
      BY <2>2 DEF Kept
    <2>3. CASE j \in enqueued
      <3>1. Kept(j) /\ answer'[j] = answer[j]
        BY <1>4, <2>3 DEF Smooth
      <3> QED BY <1>1, <1>5, <2>1, <3>1 DEF Kept, Served
    <2> QED BY <1>5, <2>2, <2>3
  <1>8. Uploads(h)
    BY DEF Smooth
  <1>9. ASSUME NEW g \in Handlers, g # h, hpc[g] # "idle"
        PROVE  hjob[g] \in Jobs /\ hjob[g] # hjob[h]
    BY <1>9, ConstantsOK DEF IInv, TypeInv, JobAtHand, Ownership
  <1>10. \A j \in Jobs : j # NoJob
    BY ConstantsOK
  <1>11. ASSUME /\ \A g \in Handlers \ {h} : /\ hpc'[g] = hpc[g] /\ hjob'[g] = hjob[g]
                                             /\ hroute'[g] = hroute[g],
                \A j \in Jobs \ {hjob[h]} : photo'[j] = photo[j],
                Uploads(h)',
                \A j \in Jobs : j = hjob[h] => PhotoOwned(j)'
         PROVE  (\A g \in Handlers : Uploads(g)') /\ (\A j \in Jobs : PhotoOwned(j)')
    <2>1. ASSUME NEW g \in Handlers PROVE Uploads(g)'
      <3>1. CASE g = h
        BY <1>11, <3>1
      <3>2. CASE g # h
        <4>1. /\ hpc'[g] = hpc[g] /\ hjob'[g] = hjob[g] /\ hroute'[g] = hroute[g] /\ Uploads(g)
              /\ hpc[g] # "idle" => photo'[hjob[g]] = photo[hjob[g]]
          BY <1>9, <1>11, <3>2 DEF Smooth
        <4> QED BY <4>1 DEF Uploads
      <3> QED BY <3>1, <3>2
    <2>2. ASSUME NEW j \in Jobs PROVE PhotoOwned(j)'
      <3>1. CASE j = hjob[h]
        BY <1>11, <3>1
      <3>2. CASE j # hjob[h]
        <4>1. photo'[j] = photo[j] /\ PhotoOwned(j)
          BY <1>11, <3>2 DEF Smooth
        <4>2. \A p \in Batches : Holds(p)' = Holds(p)
          BY <1>1 DEF slotVars, Holds
        <4>3. \A g \in Handlers : hjob[g] = j => hjob'[g] = j
          BY <1>11, <3>2
        <4> QED BY <1>5, <4>1, <4>2, <4>3 DEF PhotoOwned, Unowned
      <3> QED BY <3>1, <3>2
    <2> QED BY <2>1, <2>2
  <1>12. (\A g \in Handlers : Uploads(g)') /\ (\A j \in Jobs : PhotoOwned(j)')
    <2>1. ASSUME NEW r \in Routes, NEW j \in Jobs, Begin(h, r, j)
          PROVE  (\A g \in Handlers : Uploads(g)') /\ (\A i \in Jobs : PhotoOwned(i)')
      <3>1. /\ hpc[h] = "idle" /\ hpc'[h] \in {"measure", "upload"} /\ hjob'[h] = j
            /\ photo[j] = "none" /\ UNCHANGED photo
            /\ \A g \in Handlers \ {h} : hpc'[g] = hpc[g] /\ hjob'[g] = hjob[g] /\ hroute'[g] = hroute[g]
        BY <2>1 DEF Begin, Fresh, storeVars, IInv, TypeInv, TypeOK
      <3>2. Uploads(h)'
        BY <1>10, <3>1 DEF Uploads
      <3>3. hjob[h] \notin Jobs
        BY <1>8, <1>10, <3>1 DEF Uploads
      <3> QED BY <1>11, <3>1, <3>2, <3>3
    <2>2. CASE MeasureQueue(h) \/ Decide(h)
      <3>1. /\ hpc[h] \in {"measure", "decide"} /\ UNCHANGED <<photo, hroute>>
            /\ \A g \in Handlers \ {h} : hpc'[g] = hpc[g] /\ hjob'[g] = hjob[g] /\ hroute'[g] = hroute[g]
            /\ \/ /\ hpc'[h] \in {"decide", "upload", "enqueue"} /\ hjob'[h] = hjob[h]
                  /\ hpc'[h] = "upload" => hroute[h] = "verify_async"
               \/ hpc'[h] = "idle" /\ hjob'[h] = NoJob
        BY <2>2 DEF MeasureQueue, Decide, Goto, Leave, storeVars, IInv, TypeInv, TypeOK
      <3>2. Uploads(h)'
        BY <1>8, <3>1 DEF Uploads
      <3>3. \A j \in Jobs : j = hjob[h] => PhotoOwned(j)'
        BY <1>8, <3>1 DEF Uploads, PhotoOwned
      <3> QED BY <1>11, <3>1, <3>2, <3>3
    <2>3. CASE Upload(h)
      <3>1. /\ hpc[h] = "upload" /\ photo' = [photo EXCEPT ![hjob[h]] = hroute[h]]
            /\ UNCHANGED <<hjob, hroute>>
            /\ \A g \in Handlers \ {h} : hpc'[g] = hpc[g]
            /\ hpc'[h] = IF hroute[h] = "verify_async" THEN "enqueue" ELSE "measure"
        BY <2>3 DEF Upload, Goto, IInv, TypeInv, TypeOK
      <3>2. /\ photo'[hjob[h]] = hroute[h]
            /\ \A j \in Jobs \ {hjob[h]} : photo'[j] = photo[j]
        BY <1>2, <3>1 DEF IInv, TypeInv, TypeOK
      <3>3. Uploads(h)'
        BY <1>2, <3>1, <3>2 DEF Uploads
      <3>4. \A j \in Jobs : j = hjob[h] => PhotoOwned(j)'
        BY <3>1 DEF PhotoOwned, Unowned
      <3> QED BY <1>11, <3>1, <3>2, <3>3, <3>4
    <2>4. CASE Enqueue(h)
      <3>1. /\ hpc[h] = "enqueue" /\ UNCHANGED photo /\ PushJob(hjob[h])
            /\ \A g \in Handlers \ {h} : hpc'[g] = hpc[g] /\ hjob'[g] = hjob[g] /\ hroute'[g] = hroute[g]
            /\ hpc'[h] = "idle" /\ hjob'[h] = NoJob
        BY <2>4 DEF Enqueue, Leave, IInv, TypeInv, TypeOK
      <3>2. Uploads(h)'
        BY <3>1 DEF Uploads
      <3>3. ASSUME NEW j \in Jobs, j = hjob[h] PROVE j \in Queued'
        <4>1. queue' = Append(queue, j) /\ queue \in Seq(Jobs)
          BY <3>1, <3>3 DEF PushJob, IInv, TypeInv, TypeOK
        <4>2. Len(queue') \in DOMAIN queue' /\ queue'[Len(queue')] = j
          BY <4>1
        <4> QED BY <4>2 DEF Queued
      <3>4. \A j \in Jobs : j = hjob[h] => PhotoOwned(j)'
        BY <3>3 DEF PhotoOwned, Unowned
      <3> QED BY <1>11, <3>1, <3>2, <3>4
    <2>5. ~UploadFails(h) /\ ~EnqueueFails(h) /\ ~ApiCrash(h) /\ ~Undo(h)
      BY <1>8 DEF UploadFails, EnqueueFails, ApiCrash, Undo, Uploads
    <2> QED BY <2>1, <2>2, <2>3, <2>4, <2>5 DEF ApiStep
  <1> QED BY <1>6, <1>7, <1>12 DEF Smooth

(* A step that changes neither handlers nor batches, and takes at most photos. *)
LEMMA SmoothOther ==
  ASSUME IInv, Smooth, UNCHANGED slotVars, UNCHANGED <<hpc, hjob, hroute>>,
         UNCHANGED <<queue, answer, enqueued, answered, released, notified>>,
         \A j \in Jobs : photo'[j] \in {photo[j], "none"}
  PROVE  Smooth'
  <1>1. /\ Queued' = Queued
        /\ \A p \in Batches : Rest(p)' = Rest(p) /\ Holds(p)' = Holds(p) /\ cur'[p] = cur[p]
    BY DEF Queued, slotVars, Rest, LiveReady, Collecting, Holds
  <1>2. ASSUME NEW p \in Batches PROVE Course(p)'
    <2>1. Course(p) /\ (Collecting(p)' <=> Collecting(p))
      BY DEF Smooth, slotVars, Collecting
    <2> QED BY <2>1 DEF slotVars, Course
  <1>3. ASSUME NEW j \in enqueued' PROVE Kept(j)'
    BY <1>1 DEF Smooth, Kept, Served
  <1>4. ASSUME NEW h \in Handlers PROVE Uploads(h)'
    <2>1. hpc[h] # "idle" => photo'[hjob[h]] \in {photo[hjob[h]], "none"}
      BY DEF IInv, TypeInv, JobAtHand
    <2> QED BY <2>1 DEF Smooth, Uploads
  <1>5. ASSUME NEW j \in Jobs PROVE PhotoOwned(j)'
    <2>1. Unowned(j)' <=> Unowned(j)
      BY <1>1 DEF Unowned
    <2> QED BY <2>1 DEF Smooth, PhotoOwned
  <1> QED BY <1>2, <1>3, <1>4, <1>5 DEF Smooth

LEMMA SmoothStep ==
  ASSUME IInv, IInv', Bare, Smooth, [Next]_vars, ~Mishap
  PROVE  Smooth'
  <1>1. ASSUME NEW h \in Handlers,
               (\E r \in Routes, j \in Jobs : Begin(h, r, j)) \/ ApiStep(h) \/ ApiCrash(h)
        PROVE  Smooth'
    BY <1>1, SmoothApi
  <1>2. ASSUME NEW w \in Workers, Start(w) \/ ZeroInflight(w) \/ Crash(w) \/ LoopFails(w)
        PROVE  Smooth'
    <2>1. Start(w) \/ ZeroInflight(w)
      BY <1>2 DEF Crash, LoopFails
    <2>2. /\ UNCHANGED slotVars /\ UNCHANGED <<hpc, hjob, hroute>>
          /\ UNCHANGED <<queue, answer, photo, enqueued, answered, released, notified>>
      BY <2>1 DEF Start, ZeroInflight, storeVars, apiVars, slotVars, historyVars
    <2> QED BY <2>2, SmoothOther
  <1>3. ASSUME NEW j \in Jobs, Lapse(j) \/ Sweep(j) PROVE Smooth'
    <2>1. Sweep(j)
      BY <1>3 DEF Lapse
    <2>2. /\ UNCHANGED slotVars /\ UNCHANGED <<hpc, hjob, hroute>>
          /\ UNCHANGED <<queue, answer, enqueued, answered, released, notified>>
          /\ \A i \in Jobs : photo'[i] \in {photo[i], "none"}
      BY <2>1 DEF Sweep, apiVars, slotVars, historyVars, IInv, TypeInv, TypeOK
    <2> QED BY <2>2, SmoothOther
  <1>4. CASE UNCHANGED vars
    BY <1>4, SmoothOther DEF vars, storeVars, apiVars, slotVars, historyVars
  <1>5. ASSUME NEW p \in Batches, SlotStep(p) PROVE Smooth'
    <2>1. ASSUME NEW j \in Jobs, NEW s \in Terminal, PublishOrAbandon(p, j, s), Publishes(p, j),
                 step[p] # "expire"
          PROVE  Smooth'
      BY <2>1, SmoothPublish DEF PublishOrAbandon, WriteFails
    <2>2. CASE Collect(p)
      BY <2>2, SmoothCollect
    <2>3. CASE Expire(p)
      <3>1. cur[p] \in Jobs /\ Publishes(p, cur[p]) /\ Publish(p, cur[p], "expired")
        BY <2>3 DEF Expire, Publishes, IInv, TypeInv, JobAtHand
      <3> QED BY <3>1, SmoothPublish DEF Terminal
    <2>4. ~ExpireFails(p) /\ ~Amend(p)
      BY DEF ExpireFails, Amend, Smooth, Course
    <2>5. CASE Release(p) \/ Notify(p) \/ Discard(p) \/ Cleanup(p)
      BY <2>5, SmoothSettled
    <2>6. ASSUME NEW j \in Jobs,
                 DecodeFails(p, j) \/ Reject(p, j) \/ Fail(p, j) \/ VerifyFails(p, j)
          PROVE  Smooth'
      <3>1. Publishes(p, j) /\ step[p] = "none"
        BY <2>6 DEF Publishes, DecodeFails, Reject, Fail, VerifyFails, At
      <3>2. PublishOrAbandon(p, j, "done") \/ PublishOrAbandon(p, j, "error")
        BY <2>6 DEF DecodeFails, Reject, Fail, VerifyFails
      <3> QED BY <2>1, <3>1, <3>2 DEF Terminal
    <2>7. ASSUME NEW j \in Jobs, Verify(p, j) PROVE Smooth'
      <3>1. Publishes(p, j) /\ step[p] = "none" /\ Publish(p, j, "done")
        BY <2>7 DEF Publishes, Verify, At, WriteFails
      <3> QED BY <2>1, <3>1 DEF PublishOrAbandon, Terminal
    <2>8. CASE \/ \E j \in Jobs : Decode(p, j)
               \/ DecodeEnds(p) \/ Prepare(p) \/ PrepareFails(p) \/ RejectEnds(p) \/ TakePermit(p)
               \/ Encode(p) \/ Search(p) \/ EncodeOrSearchFails(p) \/ FailEnds(p) \/ VerifyEnds(p)
      BY <2>8, SmoothMove
    <2> QED
      BY <1>5, <2>2, <2>3, <2>4, <2>5, <2>6, <2>7, <2>8 DEF SlotStep, Settle, Process
  <1> QED BY <1>1, <1>2, <1>3, <1>4, <1>5 DEF Next

(* The invariant of this module: without mishaps everything runs smoothly. *)
OutcomeInv == IInv /\ Bare /\ (mishaps = 0 => Smooth)

(* Mishaps are counted and never forgotten. *)
LEMMA MishapsCounted ==
  ASSUME TypeInv, [Next]_vars, mishaps' = 0
  PROVE  mishaps = 0 /\ ~Mishap
  <1>1. mishaps \in Nat
    BY ConstantsOK DEF TypeInv, TypeOK
  <1>2. ~Mishap
    BY <1>1 DEF Mishap
  <1>3. mishaps' = mishaps \/ Mishap
    <2>1. ASSUME NEW h \in Handlers,
                 (\E r \in Routes, j \in Jobs : Begin(h, r, j)) \/ ApiStep(h) \/ ApiCrash(h)
          PROVE  mishaps' = mishaps \/ Mishap
      BY <2>1 DEF Begin, ApiStep, MeasureQueue, Decide, Upload, UploadFails, Enqueue,
                  EnqueueFails, Undo, ApiCrash
    <2>2. ASSUME NEW w \in Workers, Start(w) \/ ZeroInflight(w) \/ Crash(w) \/ LoopFails(w)
          PROVE  mishaps' = mishaps \/ Mishap
      BY <2>2 DEF Start, ZeroInflight, Crash, LoopFails
    <2>3. ASSUME NEW p \in Batches, Collect(p) \/ Settle(p)
          PROVE  mishaps' = mishaps \/ Mishap
      BY <2>3 DEF Collect, StartCollect, Claim, ClaimStale, Filled, Settle, Expire, ExpireFails,
                  Amend, Release, Notify, Discard, RemovePhotos, PublishOrAbandon, Publish,
                  WriteFails
    <2>4. ASSUME NEW p \in Batches, Process(p) PROVE mishaps' = mishaps \/ Mishap
      BY <2>4 DEF Process, Decode, DecodeFails, Reject, Fail, Verify, VerifyFails, DecodeEnds,
                  Prepare, PrepareFails, RejectEnds, TakePermit, Encode, Search,
                  EncodeOrSearchFails, FailEnds, VerifyEnds, Cleanup, Move, RemovePhotos,
                  PublishOrAbandon, Publish, WriteFails
    <2>5. ASSUME NEW j \in Jobs, Lapse(j) \/ Sweep(j) PROVE mishaps' = mishaps \/ Mishap
      BY <2>5 DEF Lapse, Sweep
    <2>6. CASE UNCHANGED vars
      BY <2>6 DEF vars
    <2> QED BY <2>1, <2>2, <2>3, <2>4, <2>5, <2>6 DEF Next, SlotStep
  <1> QED BY <1>2, <1>3

THEOREM OutcomeInvariance == Spec => []OutcomeInv
  <1>1. Init => OutcomeInv
    <2> SUFFICES ASSUME Init PROVE Bare /\ Smooth
      BY InitInv DEF OutcomeInv
    <2> QED BY DEF Init, Bare, Smooth, Course, Uploads, PhotoOwned
  <1>2. OutcomeInv /\ [Next]_vars => OutcomeInv'
    <2> SUFFICES ASSUME OutcomeInv, [Next]_vars PROVE OutcomeInv'
      OBVIOUS
    <2>1. IInv' /\ Bare'
      BY NextInv, BareNext DEF OutcomeInv
    <2>2. ASSUME mishaps' = 0 PROVE Smooth'
      BY <2>1, <2>2, MishapsCounted, SmoothStep DEF OutcomeInv, IInv
    <2> QED BY <2>1, <2>2 DEF OutcomeInv
  <1> QED BY <1>1, <1>2, PTL DEF Spec

(* Without mishaps no accepted job gets lost: it is queued, some loop of its
   batch still has to visit it, or it is answered, given back and notified. *)
THEOREM NoJobLost == Spec => []NoLostJob
  <1>1. OutcomeInv => NoLostJob
    <2> SUFFICES ASSUME OutcomeInv, mishaps = 0, NEW j \in enqueued
                 PROVE  \/ j \in Queued
                        \/ \E p \in Batches : j \in todo[p] \cup ready[p] \cup {cur[p]} \cup
                                                 IF bpc[p] = "fill" THEN batch[p] ELSE {}
                        \/ Served(j)
      BY DEF NoLostJob, Served
    <2>1. Kept(j)
      BY DEF OutcomeInv, Smooth
    <2>2. ASSUME NEW p \in Batches, j \in Rest(p)
          PROVE  j \in todo[p] \cup ready[p] \cup IF bpc[p] = "fill" THEN batch[p] ELSE {}
      BY <2>2 DEF Rest, LiveReady, Collecting, OutcomeInv, IInv, Shape, ShapeOf
    <2> QED BY <2>1, <2>2 DEF Kept
  <1> QED BY <1>1, OutcomeInvariance, PTL

(* A photo that nobody will delete any more is the trace of a mishap. *)
THEOREM StrayPhotos == Spec => []StrayPhotoIsMishap
  <1>1. OutcomeInv => StrayPhotoIsMishap
    <2> SUFFICES ASSUME OutcomeInv, NEW j \in Jobs, photo[j] \notin {"none", "verify"}, Unowned(j)
                 PROVE  mishaps > 0
      BY DEF StrayPhotoIsMishap
    <2>1. photo[j] = "verify_async" /\ mishaps \in Nat
      BY ConstantsOK DEF OutcomeInv, IInv, TypeInv, TypeOK, Prefixes
    <2>2. mishaps # 0
      BY <2>1 DEF OutcomeInv, Smooth, PhotoOwned
    <2> QED BY <2>1, <2>2
  <1> QED BY <1>1, OutcomeInvariance, PTL

(* What a worker still has to decode is Rest of a batch or in the queue. *)
LEMMA DecodeApart ==
  ASSUME IInv, NEW p \in Batches, NEW j \in Holds(p), j \notin Rest(p)
  PROVE  j \notin ToDecode
  <1>1. /\ j \notin Queued /\ \A q \in Batches \ {p} : j \notin Rest(q)
    BY Apart DEF IInv
  <1>2. \A q \in Batches : j \notin Rest(q)
    BY <1>1
  <1> QED BY <1>1, <1>2 DEF ToDecode, Rest

(* The photos a dying worker process takes along are of jobs it held. *)
LEMMA DropTakesOwn ==
  ASSUME IInv, NEW w \in Workers, LoopDies(w), UNCHANGED queue, NEW j \in Jobs,
         photo'[j] # photo[j], j \in ToDecode
  PROVE  j \notin ToDecode'
  <1>1. PICK p \in Batches : p[1] = w /\ j \in batch[p]
    BY DEF LoopDies
  <1>2. j \in Holds(p) /\ j # NoJob
    BY <1>1, ConstantsOK DEF Holds
  <1>3. /\ j \notin Queued' /\ \A q \in Batches \ {p} : j \notin Rest(q)
    BY <1>2, Apart DEF IInv, Queued
  <1>4. \A q \in Batches : Rest(q)' \subseteq Rest(q)
    BY DropKeeps DEF LoopDies, IInv
  <1>5. Rest(p)' = {}
    BY <1>1 DEF LoopDies, DropBatches, Rest, LiveReady, Collecting
  <1> QED BY <1>3, <1>4, <1>5 DEF ToDecode, Rest

LEMMA PhotoStep ==
  ASSUME OutcomeInv, [Next]_vars, NEW j \in Jobs,
         photo[j] # "none", photo'[j] = "none", j \in ToDecode, j \in ToDecode'
  PROVE  mishaps > 0 /\ \E h \in Handlers : hpc[h] = "undo" /\ hjob[h] = j
  <1>1. ASSUME NEW h \in Handlers,
               (\E r \in Routes, i \in Jobs : Begin(h, r, i)) \/ ApiStep(h) \/ ApiCrash(h)
        PROVE  hpc[h] = "undo" /\ hjob[h] = j
    <2>1. Upload(h) \/ UploadFails(h) \/ Undo(h)
      BY <1>1 DEF Begin, ApiStep, ApiCrash, MeasureQueue, Decide, Enqueue, EnqueueFails, storeVars
    <2>2. hroute[h] # "none"
      BY DEF OutcomeInv, IInv, TypeInv, TypeOK
    <2> QED BY <2>1, <2>2 DEF Upload, UploadFails, Undo, OutcomeInv, IInv, TypeInv, TypeOK
  <1>2. ASSUME NEW h \in Handlers, hpc[h] = "undo" PROVE mishaps > 0
    <2>1. mishaps # 0
      BY <1>2 DEF OutcomeInv, Smooth, Uploads
    <2> QED BY <2>1, ConstantsOK DEF OutcomeInv, IInv, TypeInv, TypeOK
  <1>3. ASSUME NEW w \in Workers, Start(w) \/ ZeroInflight(w) \/ Crash(w) \/ LoopFails(w)
        PROVE  FALSE
    <2>1. LoopFails(w)
      BY <1>3 DEF Start, ZeroInflight, Crash, storeVars
    <2> QED BY <2>1, DropTakesOwn DEF LoopFails, OutcomeInv
  <1>4. ASSUME NEW i \in Jobs, Lapse(i) \/ Sweep(i) PROVE FALSE
    <2>1. Sweep(i) /\ i = j
      BY <1>4 DEF Lapse, Sweep, OutcomeInv, IInv, TypeInv, TypeOK
    <2>2. \A p \in Batches : Rest(p) \subseteq Holds(p)
      BY DEF OutcomeInv, IInv, Shape, ShapeOf, Rest, LiveReady, Holds
    <2>3. j \notin Queued /\ \A p \in Batches : j \notin Rest(p)
      BY <2>1, <2>2 DEF Sweep, Unowned
    <2> QED BY <2>3 DEF ToDecode, Rest
  <1>5. ASSUME NEW p \in Batches, SlotStep(p) PROVE FALSE
    <2>1. CASE Discard(p)
      <3>1. /\ step[p] = "discard" /\ cur[p] \in Jobs /\ cur[p] \in Holds(p)
            /\ cur[p] \notin Rest(p)
        BY <2>1, ConstantsOK DEF Discard, OutcomeInv, IInv, TypeInv, JobAtHand, Holds, Shape, ShapeOf
      <3>2. j = cur[p]
        BY <2>1 DEF Discard, RemovePhotos
      <3> QED BY <3>1, <3>2, DecodeApart DEF OutcomeInv
    <2>2. CASE Cleanup(p)
      <3>1. j \in batch[p] /\ bpc[p] = "cleanup" /\ j # NoJob
        BY <2>2, ConstantsOK DEF Cleanup, At, RemovePhotos
      <3>2. j \in Holds(p) /\ j \notin Rest(p)
        BY <3>1 DEF Holds, Rest, LiveReady, Collecting, OutcomeInv, IInv, Shape, ShapeOf
      <3> QED BY <3>2, DecodeApart DEF OutcomeInv
    <2>3. CASE ExpireFails(p)
      <3>1. p[1] \in Workers /\ LoopDies(p[1]) /\ UNCHANGED queue
        BY <2>3 DEF ExpireFails, Batches
      <3> QED BY <3>1, DropTakesOwn DEF OutcomeInv
    <2>4. CASE ~Discard(p) /\ ~Cleanup(p) /\ ~ExpireFails(p)
      <3>1. UNCHANGED photo
        BY <1>5, <2>4
           DEF SlotStep, Collect, StartCollect, Claim, ClaimStale, Filled, Settle, Expire, Amend,
               Release, Notify, Process, Decode, DecodeFails, Reject, Fail, Verify, VerifyFails,
               DecodeEnds, Prepare, PrepareFails, RejectEnds, TakePermit, Encode, Search,
               EncodeOrSearchFails, FailEnds, VerifyEnds, Move, Publish, PublishOrAbandon,
               WriteFails, storeVars
      <3> QED BY <3>1
    <2> QED BY <2>1, <2>2, <2>3, <2>4
  <1>6. CASE UNCHANGED vars
    BY <1>6 DEF vars, storeVars
  <1> QED BY <1>1, <1>2, <1>3, <1>4, <1>5, <1>6 DEF Next

(* The photo of a job still to be decoded is removed by nobody but the route
   whose enqueue raised although the push had been applied. *)
THEOREM PhotosKept == Spec => PhotoKeptForWorker
  <1>1. OutcomeInv /\ [Next]_vars =>
          [\A j \in Jobs :
             (photo[j] # "none" /\ photo'[j] = "none" /\ j \in ToDecode /\ j \in ToDecode') =>
               mishaps > 0 /\ \E h \in Handlers : hpc[h] = "undo" /\ hjob[h] = j]_vars
    BY PhotoStep
  <1> QED BY <1>1, OutcomeInvariance, PTL DEF Spec, PhotoKeptForWorker
=============================================================================
