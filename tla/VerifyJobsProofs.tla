-------------------------- MODULE VerifyJobsProofs --------------------------
(***************************************************************************)
(* Types and admission: proofs that the state of VerifyJobs is what its    *)
(* variables say, and how far concurrent requests can overshoot the        *)
(* admission limits, for every value of the constants and any number of    *)
(* mishaps.                                                                *)
(***************************************************************************)
EXTENDS VerifyJobs, FiniteSetTheorems, TLAPS

(* A busy handler has a job, and so has a slot that is settling one. *)
JobAtHand ==
  /\ \A h \in Handlers : hpc[h] # "idle" => hjob[h] \in Jobs
  /\ \A p \in Batches : step[p] # "none" => cur[p] \in Jobs

TypeInv == TypeOK /\ JobAtHand

(* What is popped is a job and what is left is a queue. *)
LEMMA PopType ==
  ASSUME TypeOK, NEW p \in Batches, queue # <<>>, Pop(p)
  PROVE  Popped(p) \in Jobs /\ queue' \in Seq(Jobs)
  BY DEF TypeOK, Popped, Pop

LEMMA DecrementType ==
  ASSUME NEW n \in Nat
  PROVE  Decrement(n) \in Nat /\ Decrement(n) <= n
  BY DEF Decrement

LEMMA NumericConstants ==
  /\ BatchSize \in Nat \ {0} /\ EncodePermits \in Nat \ {0}
  /\ InflightLimit \in Nat \ {0} /\ MaxQueueSize \in Nat \ {0}
  /\ MaxMishaps \in Nat
  BY ConstantsOK

THEOREM InitType == Init => TypeInv
  <1> SUFFICES ASSUME Init PROVE TypeInv
    OBVIOUS
  <1>1. TypeOK
    <2>1. /\ queue \in Seq(Jobs) /\ inflight \in Nat
          /\ mishaps \in 0 .. MaxMishaps
      BY NumericConstants DEF Init
    <2>2. /\ answer \in [Jobs -> Statuses] /\ photo \in [Jobs -> Prefixes]
      BY DEF Init, Statuses, Prefixes
    <2> QED BY <2>1, <2>2 DEF Init, TypeOK
  <1>2. JobAtHand
    BY DEF Init, JobAtHand
  <1> QED BY <1>1, <1>2 DEF TypeInv

(* The handlers' part of the type invariant; Goto and Leave keep it. *)
ApiTypes ==
  /\ hpc \in [Handlers -> {"idle", "measure", "decide", "upload", "enqueue", "undo"}]
  /\ hjob \in [Handlers -> Jobs \cup {NoJob}]
  /\ hlen \in [Handlers -> Nat]
  /\ hroute \in [Handlers -> {"verify_async", "verify"}]
  /\ \A h \in Handlers : hpc[h] # "idle" => hjob[h] \in Jobs

LEMMA HandlerMoves ==
  ASSUME ApiTypes, NEW h \in Handlers,
         NEW pc \in {"measure", "decide", "upload", "enqueue", "undo"},
         Leave(h) \/ (hpc[h] # "idle" /\ Goto(h, pc))
  PROVE  ApiTypes'
  BY DEF ApiTypes, Leave, Goto

(* The request handlers keep the types. *)
LEMMA ApiType ==
  ASSUME TypeInv, NEW h \in Handlers,
         (\E r \in Routes, j \in Jobs : Begin(h, r, j)) \/ ApiStep(h) \/ ApiCrash(h)
  PROVE  TypeInv'
  <1> USE ConstantsOK
  <1>1. ASSUME NEW r \in Routes, NEW j \in Jobs, Begin(h, r, j) PROVE TypeInv'
    BY <1>1 DEF Begin, Fresh, TypeInv, TypeOK, JobAtHand, storeVars, slotVars, historyVars
  <1>2. CASE MeasureQueue(h)
    BY <1>2 DEF MeasureQueue, TypeInv, TypeOK, JobAtHand, storeVars, slotVars, historyVars
  <1>3. CASE Decide(h)
    <2>1. ApiTypes'
      BY <1>3, HandlerMoves DEF Decide, TypeInv, TypeOK, JobAtHand, ApiTypes
    <2> QED
      BY <2>1, <1>3 DEF Decide, ApiTypes, TypeInv, TypeOK, JobAtHand, storeVars, slotVars, historyVars
  <1>4. CASE Upload(h)
    BY <1>4 DEF Upload, Goto, TypeInv, TypeOK, JobAtHand, storeVars, slotVars, historyVars, Prefixes
  <1>5. CASE UploadFails(h)
    BY <1>5 DEF UploadFails, Leave, Mishap, TypeInv, TypeOK, JobAtHand, slotVars, historyVars, Prefixes
  <1>6. CASE Enqueue(h)
    BY <1>6 DEF Enqueue, PushJob, Leave, TypeInv, TypeOK, JobAtHand, slotVars, Statuses
  <1>7. CASE EnqueueFails(h)
    <2>1. ApiTypes'
      BY <1>7, HandlerMoves DEF EnqueueFails, TypeInv, TypeOK, JobAtHand, ApiTypes
    <2>2. mishaps' \in 0 .. MaxMishaps
      BY <1>7, NumericConstants DEF EnqueueFails, Mishap, TypeInv, TypeOK
    <2>3. CASE PushJob(hjob[h])
      BY <2>1, <2>2, <2>3, <1>7
         DEF EnqueueFails, PushJob, ApiTypes, TypeInv, TypeOK, JobAtHand, slotVars, Statuses
    <2>4. CASE UNCHANGED <<queue, answer, inflight, enqueued>>
      BY <2>1, <2>2, <2>4, <1>7 DEF EnqueueFails, ApiTypes, TypeInv, TypeOK, JobAtHand, slotVars
    <2> QED BY <2>3, <2>4, <1>7 DEF EnqueueFails
  <1>8. CASE Undo(h)
    <2>1. ApiTypes'
      BY <1>8, HandlerMoves DEF Undo, TypeInv, TypeOK, JobAtHand, ApiTypes
    <2>2. mishaps' \in 0 .. MaxMishaps /\ photo' \in [Jobs -> Prefixes]
      BY <1>8, NumericConstants DEF Undo, Mishap, TypeInv, TypeOK, Prefixes
    <2> QED
      BY <2>1, <2>2, <1>8 DEF Undo, ApiTypes, TypeInv, TypeOK, JobAtHand, slotVars, historyVars
  <1>9. CASE ApiCrash(h)
    BY <1>9 DEF ApiCrash, Leave, Mishap, TypeInv, TypeOK, JobAtHand, storeVars, slotVars, historyVars
  <1> QED BY <1>1, <1>2, <1>3, <1>4, <1>5, <1>6, <1>7, <1>8, <1>9 DEF ApiStep

(* Removing photos, failing, and losing the batches of a worker keep the types. *)
LEMMA RemovePhotosType ==
  ASSUME TypeOK, NEW S, RemovePhotos(S)
  PROVE  photo' \in [Jobs -> Prefixes] /\ mishaps' \in 0 .. MaxMishaps
  BY NumericConstants DEF TypeOK, RemovePhotos, Mishap, Prefixes

LEMMA MishapType ==
  ASSUME TypeOK, Mishap
  PROVE  mishaps' \in 0 .. MaxMishaps
  BY NumericConstants DEF TypeOK, Mishap

(* The slots' part of the type invariant. *)
SlotTypes ==
  /\ bpc \in [Batches -> {"free", "claim", "fill", "decode", "prepare", "reject", "encode",
                          "encoding", "search", "verify", "fail", "cleanup"}]
  /\ batch \in [Batches -> SUBSET Jobs]
  /\ todo \in [Batches -> SUBSET Jobs]
  /\ ready \in [Batches -> SUBSET Jobs]
  /\ cur \in [Batches -> Jobs \cup {NoJob}]
  /\ step \in [Batches -> {"none", "expire", "amend", "release", "notify", "discard"}]
  /\ \A p \in Batches : step[p] # "none" => cur[p] \in Jobs

LEMMA DropBatchesType ==
  ASSUME TypeInv, NEW w \in Workers, DropBatches(w)
  PROVE  SlotTypes' /\ wpc' \in [Workers -> {"down", "zeroing", "up"}]
  BY DEF TypeInv, TypeOK, JobAtHand, SlotTypes, DropBatches

LEMMA AbandonType ==
  ASSUME TypeInv, NEW p \in Batches, Abandon(p), UNCHANGED batch
  PROVE  SlotTypes'
  BY DEF TypeInv, TypeOK, JobAtHand, SlotTypes, Abandon

LEMMA WriteStatusType ==
  ASSUME TypeOK, NEW j \in Jobs, NEW s \in Terminal, WriteStatus(j, s)
  PROVE  answer' \in [Jobs -> Statuses] /\ answered' \subseteq Jobs
  BY DEF TypeOK, WriteStatus, Statuses

(* Publishing an answer, or failing to, keeps the types. *)
LEMMA PublishType ==
  ASSUME TypeInv, NEW p \in Batches, NEW j \in Jobs, NEW s \in Terminal, Publish(p, j, s)
  PROVE  TypeInv'
  BY WriteStatusType DEF Publish, TypeInv, TypeOK, JobAtHand, apiVars

LEMMA WriteFailsType ==
  ASSUME TypeInv, NEW j \in Jobs, NEW s \in Terminal, WriteFails(j, s)
  PROVE  /\ answer' \in [Jobs -> Statuses] /\ answered' \subseteq Jobs
         /\ mishaps' \in 0 .. MaxMishaps
  BY WriteStatusType, MishapType DEF WriteFails, TypeInv, TypeOK

LEMMA PublishOrAbandonType ==
  ASSUME TypeInv, NEW p \in Batches, NEW j \in Jobs, NEW s \in Terminal,
         PublishOrAbandon(p, j, s)
  PROVE  TypeInv'
  <1>1. CASE Publish(p, j, s)
    BY <1>1, PublishType
  <1>2. CASE WriteFails(j, s) /\ Abandon(p)
    <2>1. SlotTypes'
      BY <1>2, AbandonType DEF WriteFails
    <2>2. /\ answer' \in [Jobs -> Statuses] /\ answered' \subseteq Jobs
          /\ mishaps' \in 0 .. MaxMishaps
      BY <1>2, WriteFailsType
    <2> QED
      BY <2>1, <2>2, <1>2 DEF WriteFails, SlotTypes, TypeInv, TypeOK, JobAtHand, apiVars
  <1> QED BY <1>1, <1>2 DEF PublishOrAbandon

(* Worker processes keep the types. *)
LEMMA WorkerType ==
  ASSUME TypeInv, NEW w \in Workers,
         Start(w) \/ ZeroInflight(w) \/ Crash(w) \/ LoopFails(w)
  PROVE  TypeInv'
  <1>1. CASE Start(w)
    BY <1>1 DEF Start, TypeInv, TypeOK, JobAtHand, storeVars, apiVars, slotVars, historyVars
  <1>2. CASE ZeroInflight(w)
    BY <1>2 DEF ZeroInflight, TypeInv, TypeOK, JobAtHand, apiVars, slotVars
  <1>3. CASE Crash(w)
    <2>1. SlotTypes' /\ wpc' \in [Workers -> {"down", "zeroing", "up"}]
      BY <1>3, DropBatchesType DEF Crash
    <2> QED
      BY <2>1, <1>3, MishapType DEF Crash, SlotTypes, TypeInv, TypeOK, JobAtHand,
                                    storeVars, apiVars, historyVars
  <1>4. CASE LoopFails(w)
    <2>1. SlotTypes' /\ wpc' \in [Workers -> {"down", "zeroing", "up"}]
      BY <1>4, DropBatchesType DEF LoopFails, LoopDies
    <2>2. photo' \in [Jobs -> Prefixes]
      BY <1>4 DEF LoopFails, LoopDies, TypeInv, TypeOK, Prefixes
    <2> QED
      BY <2>1, <2>2, <1>4, MishapType DEF LoopFails, SlotTypes, TypeInv, TypeOK, JobAtHand,
                                          apiVars, historyVars
  <1> QED BY <1>1, <1>2, <1>3, <1>4

(* collect_batch keeps the types. *)
LEMMA CollectType ==
  ASSUME TypeInv, NEW p \in Batches, Collect(p)
  PROVE  TypeInv'
  <1>1. CASE StartCollect(p)
    BY <1>1 DEF StartCollect, TypeInv, TypeOK, JobAtHand, storeVars, apiVars, historyVars
  <1>2. CASE Claim(p)
    <2>1. Popped(p) \in Jobs /\ queue' \in Seq(Jobs)
      BY <1>2, PopType DEF Claim, CanPop, TypeInv
    <2> QED BY <2>1, <1>2 DEF Claim, TypeInv, TypeOK, JobAtHand, apiVars, historyVars
  <1>3. CASE ClaimStale(p)
    <2>1. Popped(p) \in Jobs /\ queue' \in Seq(Jobs)
      BY <1>3, PopType DEF ClaimStale, CanPop, TypeInv
    <2> QED BY <2>1, <1>3 DEF ClaimStale, TypeInv, TypeOK, JobAtHand, apiVars, historyVars
  <1>4. CASE Filled(p)
    BY <1>4 DEF Filled, TypeInv, TypeOK, JobAtHand, storeVars, apiVars, historyVars
  <1> QED BY <1>1, <1>2, <1>3, <1>4 DEF Collect

(* Settling a job keeps the types. *)
LEMMA SettleType ==
  ASSUME TypeInv, NEW p \in Batches, Settle(p)
  PROVE  TypeInv'
  <1>1. step[p] # "none" => cur[p] \in Jobs
    BY DEF TypeInv, JobAtHand
  <1>2. CASE Expire(p)
    BY <1>1, <1>2, PublishType DEF Expire, Terminal
  <1>3. CASE ExpireFails(p)
    <2>1. SlotTypes' /\ wpc' \in [Workers -> {"down", "zeroing", "up"}]
      BY <1>3, DropBatchesType DEF ExpireFails, LoopDies, Batches
    <2>2. photo' \in [Jobs -> Prefixes]
      BY <1>3 DEF ExpireFails, LoopDies, TypeInv, TypeOK, Prefixes
    <2>3. answer' \in [Jobs -> Statuses] /\ answered' \subseteq Jobs
      BY <1>1, <1>3, WriteStatusType DEF ExpireFails, TypeInv, TypeOK, Terminal
    <2> QED
      BY <2>1, <2>2, <2>3, <1>3, MishapType DEF ExpireFails, SlotTypes, TypeInv, TypeOK,
                                                JobAtHand, apiVars
  <1>4. CASE Amend(p)
    BY <1>1, <1>4, PublishOrAbandonType DEF Amend, Terminal
  <1>5. CASE Release(p)
    <2>1. inflight' \in Nat /\ released' \subseteq Jobs /\ mishaps' \in 0 .. MaxMishaps
      BY <1>1, <1>5, DecrementType, MishapType DEF Release, TypeInv, TypeOK
    <2> QED
      BY <1>1, <2>1, <1>5 DEF Release, TypeInv, TypeOK, JobAtHand, apiVars
  <1>6. CASE Notify(p)
    BY <1>1, <1>6 DEF Notify, Settled, TypeInv, TypeOK, JobAtHand, storeVars, apiVars
  <1>7. CASE Discard(p)
    <2>1. photo' \in [Jobs -> Prefixes] /\ mishaps' \in 0 .. MaxMishaps
      BY <1>7, RemovePhotosType DEF Discard, TypeInv
    <2> QED
      BY <2>1, <1>7 DEF Discard, Settled, TypeInv, TypeOK, JobAtHand, apiVars, historyVars
  <1> QED BY <1>2, <1>3, <1>4, <1>5, <1>6, <1>7 DEF Settle

(* Moving a batch between stages keeps the types. *)
LEMMA MoveType ==
  ASSUME TypeInv, NEW p \in Batches,
         NEW pc \in {"decode", "prepare", "reject", "encode", "encoding", "search", "verify",
                     "fail", "cleanup"},
         NEW t \in SUBSET Jobs, NEW r \in SUBSET Jobs, Move(p, pc, t, r)
  PROVE  TypeInv'
  BY DEF Move, TypeInv, TypeOK, JobAtHand, storeVars, apiVars, historyVars

(* process_batch keeps the types. *)
LEMMA ProcessType ==
  ASSUME TypeInv, NEW p \in Batches, Process(p)
  PROVE  TypeInv'
  <1>1. todo[p] \in SUBSET Jobs /\ ready[p] \in SUBSET Jobs /\ {} \in SUBSET Jobs
    BY DEF TypeInv, TypeOK
  <1>2. ASSUME NEW j \in Jobs, Decode(p, j) PROVE TypeInv'
    BY <1>1, <1>2, MoveType DEF Decode
  <1>3. ASSUME NEW j \in Jobs, DecodeFails(p, j) \/ Reject(p, j) \/ Fail(p, j) \/ VerifyFails(p, j)
        PROVE  TypeInv'
    BY <1>3, PublishOrAbandonType DEF DecodeFails, Reject, Fail, VerifyFails, Terminal
  <1>4. ASSUME NEW j \in Jobs, Verify(p, j) PROVE TypeInv'
    <2>1. CASE Publish(p, j, "done")
      BY <2>1, PublishType DEF Terminal
    <2>2. CASE WriteFails(j, "done") /\ step' = [step EXCEPT ![p] = "amend"]
      <3>1. /\ answer' \in [Jobs -> Statuses] /\ answered' \subseteq Jobs
            /\ mishaps' \in 0 .. MaxMishaps
        BY <2>2, WriteFailsType DEF Terminal
      <3>2. /\ cur' = [cur EXCEPT ![p] = j]
            /\ todo' = [todo EXCEPT ![p] = @ \ {j}]
            /\ UNCHANGED <<bpc, ready>>
        BY <1>4, <2>2 DEF Verify, Publish, TypeInv, TypeOK
      <3> QED
        BY <3>1, <3>2, <2>2 DEF WriteFails, TypeInv, TypeOK, JobAtHand, apiVars
    <2> QED BY <1>4, <2>1, <2>2 DEF Verify
  <1>5. CASE DecodeEnds(p) \/ RejectEnds(p) \/ TakePermit(p) \/ Encode(p) \/ Search(p)
             \/ EncodeOrSearchFails(p) \/ FailEnds(p) \/ VerifyEnds(p) \/ PrepareFails(p)
    BY <1>1, <1>5, MoveType DEF DecodeEnds, RejectEnds, TakePermit, Encode, Search,
                                EncodeOrSearchFails, FailEnds, VerifyEnds, PrepareFails
  <1>6. CASE Prepare(p)
    BY <1>1, <1>6, MoveType DEF Prepare
  <1>7. CASE Cleanup(p)
    <2>1. photo' \in [Jobs -> Prefixes] /\ mishaps' \in 0 .. MaxMishaps
      BY <1>7, RemovePhotosType DEF Cleanup, TypeInv
    <2> QED
      BY <2>1, <1>7 DEF Cleanup, TypeInv, TypeOK, JobAtHand, apiVars, historyVars
  <1> QED BY <1>2, <1>3, <1>4, <1>5, <1>6, <1>7 DEF Process

(* Lapsing keys and the lifecycle rule keep the types. *)
LEMMA TimeType ==
  ASSUME TypeInv, NEW j \in Jobs, Lapse(j) \/ Sweep(j)
  PROVE  TypeInv'
  <1>1. CASE Lapse(j)
    BY <1>1, MishapType DEF Lapse, TypeInv, TypeOK, JobAtHand, Statuses, apiVars, slotVars,
                            historyVars
  <1>2. CASE Sweep(j)
    BY <1>2 DEF Sweep, TypeInv, TypeOK, JobAtHand, Prefixes, apiVars, slotVars, historyVars
  <1> QED BY <1>1, <1>2

THEOREM NextType == TypeInv /\ [Next]_vars => TypeInv'
  <1> SUFFICES ASSUME TypeInv, [Next]_vars PROVE TypeInv'
    OBVIOUS
  <1>1. CASE UNCHANGED vars
    BY <1>1 DEF vars, TypeInv, TypeOK, JobAtHand, storeVars, apiVars, slotVars, historyVars
  <1>2. CASE Next
    BY <1>2, ApiType, WorkerType, CollectType, SettleType, ProcessType, TimeType
       DEF Next, SlotStep
  <1> QED BY <1>1, <1>2

(* Type correctness.  In particular inflight_jobs never goes below zero,
   although a reconcile may reset it while units are still to be given back. *)
THEOREM TypeCorrect == Spec => []TypeOK
  <1>1. Spec => []TypeInv
    BY InitType, NextType, PTL DEF Spec
  <1> QED BY <1>1, PTL DEF TypeInv

-----------------------------------------------------------------------------
(* Admission *)

(* Requests that can still push although the queue, resp. the counter, is not
   looked at again. *)
QueueCommitted ==
  {h \in Handlers : \/ hpc[h] = "decide" /\ hlen[h] < MaxQueueSize
                    \/ hpc[h] = "upload" /\ hroute[h] = "verify_async"
                    \/ hpc[h] = "enqueue"}

CounterCommitted ==
  {h \in Handlers : \/ hpc[h] = "upload" /\ hroute[h] = "verify_async"
                    \/ hpc[h] = "enqueue"}

(* What is there, and what may still come, is within limit and requests. *)
Room ==
  /\ Len(queue) + Cardinality(QueueCommitted) < MaxQueueSize + Cardinality(Handlers)
  /\ inflight + Cardinality(CounterCommitted) < InflightLimit + Cardinality(Handlers)

LEMMA CommittedFinite ==
  ASSUME NEW S \in SUBSET Handlers, NEW T \in SUBSET S
  PROVE  /\ Cardinality(T) \in Nat /\ Cardinality(S) \in Nat /\ Cardinality(Handlers) \in Nat
         /\ Cardinality(T) <= Cardinality(S) /\ Cardinality(S) <= Cardinality(Handlers)
         /\ \A h \in T : Cardinality(T \ {h}) = Cardinality(T) - 1
  <1>1. IsFiniteSet(Handlers)
    BY ConstantsOK
  <1>2. IsFiniteSet(S) /\ Cardinality(S) <= Cardinality(Handlers)
    BY <1>1, FS_Subset
  <1>3. IsFiniteSet(T) /\ Cardinality(T) <= Cardinality(S)
    BY <1>2, FS_Subset
  <1>4. \A h \in T : Cardinality(T \ {h}) = Cardinality(T) - 1
    BY <1>3, FS_RemoveElement
  <1> QED BY <1>1, <1>2, <1>3, <1>4, FS_CardinalityType

LEMMA SizesType ==
  ASSUME TypeInv
  PROVE  inflight \in Nat /\ Len(queue) \in Nat
  BY DEF TypeInv, TypeOK

(* A step that pushes nothing and commits nobody leaves the room. *)
LEMMA RoomKept ==
  ASSUME TypeInv, TypeInv', Room,
         Len(queue') <= Len(queue), inflight' <= inflight,
         QueueCommitted' \subseteq QueueCommitted, CounterCommitted' \subseteq CounterCommitted
  PROVE  Room'
  <1>1. QueueCommitted \subseteq Handlers /\ CounterCommitted \subseteq Handlers
    BY DEF QueueCommitted, CounterCommitted
  <1>2. /\ Cardinality(QueueCommitted') <= Cardinality(QueueCommitted)
        /\ Cardinality(QueueCommitted') \in Nat /\ Cardinality(QueueCommitted) \in Nat
        /\ Cardinality(CounterCommitted') <= Cardinality(CounterCommitted)
        /\ Cardinality(CounterCommitted') \in Nat /\ Cardinality(CounterCommitted) \in Nat
        /\ Cardinality(Handlers) \in Nat
    BY <1>1, CommittedFinite
  <1>3. inflight \in Nat /\ Len(queue) \in Nat
    BY SizesType
  <1>4. inflight' \in Nat /\ Len(queue') \in Nat
    <2>1. inflight' \in Nat /\ queue' \in Seq(Jobs)
      BY SMTT(30) DEF TypeInv, TypeOK
    <2> QED BY <2>1
  <1> QED BY <1>2, <1>3, <1>4, NumericConstants DEF Room

(* Workers, batches and time only take away from the queue and the counter. *)
LEMMA OnlyTakesAway ==
  ASSUME TypeInv,
         \/ \E w \in Workers : Start(w) \/ ZeroInflight(w) \/ Crash(w) \/ LoopFails(w)
         \/ \E p \in Batches : SlotStep(p)
         \/ \E j \in Jobs : Lapse(j) \/ Sweep(j)
  PROVE  UNCHANGED apiVars /\ Len(queue') <= Len(queue) /\ inflight' <= inflight
  <1>1. inflight \in Nat /\ Len(queue) \in Nat /\ queue \in Seq(Jobs)
    BY DEF TypeInv, TypeOK
  <1>2. ASSUME NEW w \in Workers, Start(w) \/ ZeroInflight(w) \/ Crash(w) \/ LoopFails(w)
        PROVE  UNCHANGED apiVars /\ queue' = queue /\ inflight' <= inflight
    BY <1>1, <1>2 DEF Start, ZeroInflight, Crash, LoopFails, storeVars
  <1>3. ASSUME NEW p \in Batches, Collect(p)
        PROVE  UNCHANGED apiVars /\ Len(queue') <= Len(queue) /\ inflight' = inflight
    <2>1. (queue # <<>> /\ Pop(p)) => Len(queue') <= Len(queue)
      BY <1>1 DEF Pop
    <2> QED
      BY <1>1, <1>3, <2>1 DEF Collect, StartCollect, Claim, ClaimStale, CanPop, Filled, storeVars
  <1>4. ASSUME NEW p \in Batches, Settle(p)
        PROVE  UNCHANGED apiVars /\ queue' = queue /\ inflight' <= inflight
    <2>1. CASE Release(p)
      BY <1>1, <2>1, DecrementType DEF Release
    <2> QED
      BY <1>1, <1>4, <2>1 DEF Settle, Expire, ExpireFails, Amend, Notify, Discard, Publish,
                              PublishOrAbandon, WriteFails, storeVars
  <1>5. ASSUME NEW p \in Batches, Process(p)
        PROVE  UNCHANGED apiVars /\ queue' = queue /\ inflight' = inflight
    BY <1>5 DEF Process, Decode, DecodeFails, Reject, Fail, Verify, VerifyFails, DecodeEnds,
                Prepare, PrepareFails, RejectEnds, TakePermit, Encode, Search,
                EncodeOrSearchFails, FailEnds, VerifyEnds, Cleanup, Move, Publish,
                PublishOrAbandon, WriteFails, storeVars
  <1>6. ASSUME NEW j \in Jobs, Lapse(j) \/ Sweep(j)
        PROVE  UNCHANGED apiVars /\ queue' = queue /\ inflight' = inflight
    BY <1>6 DEF Lapse, Sweep
  <1> QED BY <1>1, <1>2, <1>3, <1>4, <1>5, <1>6 DEF SlotStep

(* A handler that leaves is committed no more; one that moves on keeps the
   figure it read, or drops it. *)
LEMMA HandlerCommits ==
  ASSUME TypeInv, NEW h \in Handlers, Leave(h)
  PROVE  /\ QueueCommitted' = QueueCommitted \ {h}
         /\ CounterCommitted' = CounterCommitted \ {h}
  BY DEF TypeInv, TypeOK, Leave, QueueCommitted, CounterCommitted

(* A push by a committed handler that thereby stops being committed. *)
LEMMA PushUsesRoom ==
  ASSUME TypeInv, Room, NEW h \in Handlers, hpc[h] = "enqueue", PushJob(hjob[h]),
         QueueCommitted' = QueueCommitted \ {h}, CounterCommitted' = CounterCommitted \ {h}
  PROVE  Room'
  <1>1. h \in QueueCommitted /\ h \in CounterCommitted
    BY DEF QueueCommitted, CounterCommitted
  <1>2. QueueCommitted \subseteq Handlers /\ CounterCommitted \subseteq Handlers
    BY DEF QueueCommitted, CounterCommitted
  <1>3. /\ Cardinality(QueueCommitted') = Cardinality(QueueCommitted) - 1
        /\ Cardinality(CounterCommitted') = Cardinality(CounterCommitted) - 1
        /\ Cardinality(QueueCommitted) \in Nat /\ Cardinality(CounterCommitted) \in Nat
        /\ Cardinality(Handlers) \in Nat
    BY <1>1, <1>2, CommittedFinite
  <1>4. inflight \in Nat /\ queue \in Seq(Jobs)
    BY DEF TypeInv, TypeOK
  <1>5. inflight' = inflight + 1 /\ Len(queue') = Len(queue) + 1 /\ Len(queue) \in Nat
    BY <1>4 DEF PushJob
  <1> QED BY SMTT(30), <1>3, <1>4, <1>5, NumericConstants DEF Room

THEOREM ApiRoom ==
  ASSUME TypeInv, Room, NEW h \in Handlers,
         (\E r \in Routes, j \in Jobs : Begin(h, r, j)) \/ ApiStep(h) \/ ApiCrash(h)
  PROVE  Room'
  <1>1. TypeInv'
    BY ApiType
  <1>2. inflight \in Nat /\ Len(queue) \in Nat
    BY SizesType
  <1>3. QueueCommitted \subseteq Handlers /\ CounterCommitted \subseteq Handlers
    BY DEF QueueCommitted, CounterCommitted
  <1>4. /\ Cardinality(QueueCommitted) \in Nat /\ Cardinality(CounterCommitted) \in Nat
        /\ Cardinality(Handlers) \in Nat
    BY <1>3, CommittedFinite
  <1>5. ASSUME NEW r \in Routes, NEW j \in Jobs, Begin(h, r, j) PROVE Room'
    <2>1. QueueCommitted' \subseteq QueueCommitted /\ CounterCommitted' \subseteq CounterCommitted
      BY <1>5 DEF Begin, QueueCommitted, CounterCommitted, TypeInv, TypeOK
    <2> QED BY <1>1, <1>2, <1>5, <2>1, RoomKept DEF Begin, storeVars
  <1>6. CASE MeasureQueue(h)
    <2>1. UNCHANGED <<queue, inflight>> /\ CounterCommitted' \subseteq CounterCommitted
      BY <1>6 DEF MeasureQueue, storeVars, CounterCommitted, TypeInv, TypeOK
    <2>2. CASE Len(queue) < MaxQueueSize
      <3>1. QueueCommitted' \subseteq Handlers /\ CounterCommitted' \subseteq Handlers
        BY DEF QueueCommitted, CounterCommitted
      <3>2. /\ Cardinality(QueueCommitted') \in Nat
            /\ Cardinality(QueueCommitted') <= Cardinality(Handlers)
        BY <3>1, CommittedFinite
      <3>3. /\ Cardinality(CounterCommitted') \in Nat
            /\ Cardinality(CounterCommitted') <= Cardinality(CounterCommitted)
        BY <1>3, <2>1, CommittedFinite
      <3> QED BY <1>2, <1>4, <2>1, <2>2, <3>2, <3>3, NumericConstants DEF Room
    <2>3. CASE ~(Len(queue) < MaxQueueSize)
      <3>1. QueueCommitted' \subseteq QueueCommitted
        BY <1>6, <2>3 DEF MeasureQueue, QueueCommitted, TypeInv, TypeOK
      <3> QED BY <1>1, <1>2, <2>1, <3>1, RoomKept
    <2> QED BY <2>2, <2>3
  <1>7. CASE Decide(h)
    <2>1. UNCHANGED <<queue, inflight>>
      BY <1>7 DEF Decide, storeVars
    <2>2. CASE Admits(hlen[h], inflight)
      <3>1. inflight < InflightLimit /\ hlen[h] < MaxQueueSize /\ hpc[h] = "decide"
        BY <1>7, <2>2 DEF Admits, Decide
      <3>2. QueueCommitted' \subseteq QueueCommitted
        BY <1>7, <2>2, <3>1 DEF Decide, Goto, QueueCommitted, TypeInv, TypeOK
      <3>3. CounterCommitted' \subseteq Handlers
        BY DEF CounterCommitted
      <3>4. /\ Cardinality(CounterCommitted') \in Nat
            /\ Cardinality(CounterCommitted') <= Cardinality(Handlers)
            /\ Cardinality(QueueCommitted') \in Nat
            /\ Cardinality(QueueCommitted') <= Cardinality(QueueCommitted)
        BY <1>3, <3>2, <3>3, CommittedFinite
      <3> QED BY <1>2, <1>4, <2>1, <3>1, <3>4, NumericConstants DEF Room
    <2>3. CASE ~Admits(hlen[h], inflight)
      <3>1. Leave(h)
        BY <1>7, <2>3 DEF Decide
      <3> QED BY <1>1, <1>2, <2>1, <3>1, HandlerCommits, RoomKept
    <2> QED BY <2>2, <2>3
  <1>8. CASE Upload(h)
    <2>1. UNCHANGED <<queue, inflight>>
      BY <1>8 DEF Upload
    <2>2. QueueCommitted' \subseteq QueueCommitted /\ CounterCommitted' \subseteq CounterCommitted
      BY <1>8 DEF Upload, Goto, QueueCommitted, CounterCommitted, TypeInv, TypeOK
    <2> QED BY <1>1, <1>2, <2>1, <2>2, RoomKept
  <1>9. CASE UploadFails(h) \/ Undo(h) \/ ApiCrash(h)
    <2>1. UNCHANGED <<queue, inflight>> /\ Leave(h)
      BY <1>9 DEF UploadFails, Undo, ApiCrash, storeVars
    <2> QED BY <1>1, <1>2, <2>1, HandlerCommits, RoomKept
  <1>10. CASE Enqueue(h)
    BY <1>10, HandlerCommits, PushUsesRoom DEF Enqueue
  <1>11. CASE EnqueueFails(h)
    <2>1. QueueCommitted' = QueueCommitted \ {h} /\ CounterCommitted' = CounterCommitted \ {h}
      BY <1>11, HandlerCommits
         DEF EnqueueFails, Goto, QueueCommitted, CounterCommitted, TypeInv, TypeOK
    <2>2. CASE PushJob(hjob[h])
      BY <1>11, <2>1, <2>2, PushUsesRoom DEF EnqueueFails
    <2>3. CASE UNCHANGED <<queue, answer, inflight, enqueued>>
      BY <1>1, <1>2, <2>1, <2>3, RoomKept
    <2> QED BY <1>11, <2>2, <2>3 DEF EnqueueFails
  <1> QED BY <1>5, <1>6, <1>7, <1>8, <1>9, <1>10, <1>11 DEF ApiStep

THEOREM InitRoom == Init => Room
  <1> SUFFICES ASSUME Init PROVE Room
    OBVIOUS
  <1>1. QueueCommitted = {} /\ CounterCommitted = {} /\ Len(queue) = 0 /\ inflight = 0
    BY DEF Init, QueueCommitted, CounterCommitted
  <1>2. Cardinality({}) = 0 /\ Cardinality(Handlers) \in Nat
    BY ConstantsOK, FS_EmptySet, FS_CardinalityType
  <1> QED BY <1>1, <1>2, NumericConstants DEF Room

THEOREM NextRoom == TypeInv /\ Room /\ [Next]_vars => Room'
  <1> SUFFICES ASSUME TypeInv, Room, [Next]_vars PROVE Room'
    OBVIOUS
  <1>1. TypeInv' /\ inflight \in Nat /\ Len(queue) \in Nat
    BY NextType, SizesType
  <1>2. ASSUME UNCHANGED apiVars, Len(queue') <= Len(queue), inflight' <= inflight
        PROVE  Room'
    <2>1. QueueCommitted' = QueueCommitted /\ CounterCommitted' = CounterCommitted
      BY <1>2 DEF apiVars, QueueCommitted, CounterCommitted
    <2> QED BY <1>1, <1>2, <2>1, RoomKept
  <1>3. CASE UNCHANGED vars
    BY <1>1, <1>2, <1>3 DEF vars, storeVars
  <1>4. CASE \/ \E w \in Workers : Start(w) \/ ZeroInflight(w) \/ Crash(w) \/ LoopFails(w)
             \/ \E p \in Batches : SlotStep(p)
             \/ \E j \in Jobs : Lapse(j) \/ Sweep(j)
    BY <1>2, <1>4, OnlyTakesAway
  <1>5. ASSUME NEW h \in Handlers,
               (\E r \in Routes, j \in Jobs : Begin(h, r, j)) \/ ApiStep(h) \/ ApiCrash(h)
        PROVE  Room'
    BY <1>5, ApiRoom
  <1> QED BY <1>3, <1>4, <1>5 DEF Next

(* evaluate_admission decides on figures that are stale when the job is pushed;
   still, queue and counter never exceed their limits by as much as the number
   of requests served at once, whatever the workers and the environment do. *)
THEOREM AdmissionBounded == Spec => []AdmissionOvershoot
  <1>1. TypeInv /\ Room => AdmissionOvershoot
    <2> SUFFICES ASSUME TypeInv, Room PROVE AdmissionOvershoot
      OBVIOUS
    <2>1. QueueCommitted \subseteq Handlers /\ CounterCommitted \subseteq Handlers
      BY DEF QueueCommitted, CounterCommitted
    <2>2. /\ Cardinality(QueueCommitted) \in Nat /\ Cardinality(CounterCommitted) \in Nat
          /\ Cardinality(Handlers) \in Nat
      BY <2>1, CommittedFinite
    <2> QED BY <2>2, SizesType, NumericConstants DEF Room, AdmissionOvershoot
  <1>2. Init => TypeInv /\ Room
    BY InitType, InitRoom
  <1>3. TypeInv /\ Room /\ [Next]_vars => (TypeInv /\ Room)'
    BY NextType, NextRoom
  <1> QED BY <1>1, <1>2, <1>3, PTL DEF Spec
=============================================================================
