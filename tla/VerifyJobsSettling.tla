------------------------- MODULE VerifyJobsSettling -------------------------
(***************************************************************************)
(* Who has a job, and what has been done for it: proofs that a job is      *)
(* claimed by one batch only, settled once, answered for good, and counted *)
(* in inflight_jobs until it is given back, for every value of the         *)
(* constants and any number of mishaps.                                    *)
(*                                                                         *)
(* The inductive invariant has three parts: Ownership (a job is with one   *)
(* handler, in one place of the queue or with one batch), Shape (how the   *)
(* sets of one batch relate at each stage) and Settling (the jobs a batch  *)
(* still has to settle are exactly not yet answered).                      *)
(***************************************************************************)
EXTENDS VerifyJobsProofs

(* Candidates not answered yet: in the verify loop ready holds all ok jobs. *)
LiveReady(p) == IF bpc[p] = "verify" THEN {} ELSE ready[p]

(* Jobs of a batch that nothing has been published for. *)
Rest(p) == todo[p] \cup LiveReady(p) \cup (IF Collecting(p) THEN batch[p] ELSE {})

Ownership ==
  /\ \A h \in Handlers :
       hpc[h] \in {"measure", "decide", "upload", "enqueue"} => hjob[h] \notin enqueued
  /\ \A g, h \in Handlers : g # h => (hjob[g] # hjob[h] \/ hjob[g] = NoJob)
  /\ Queued \subseteq enqueued
  /\ \A p \in Batches : Holds(p) \subseteq enqueued
  /\ ExclusiveClaim

ShapeOf(p) ==
  /\ todo[p] \cup ready[p] \subseteq batch[p]
  /\ todo[p] \cap LiveReady(p) = {}
  /\ bpc[p] \in {"free", "claim", "fill", "cleanup"} => todo[p] = {} /\ ready[p] = {}
  /\ bpc[p] \in {"free", "claim"} => batch[p] = {}
  /\ step[p] # "none" => cur[p] \notin Rest(p)

Shape == \A p \in Batches : ShapeOf(p)

(* Only slot p changes. *)
OnlySlot(p) ==
  \A q \in Batches \ {p} :
    /\ bpc'[q] = bpc[q] /\ batch'[q] = batch[q] /\ todo'[q] = todo[q]
    /\ ready'[q] = ready[q] /\ cur'[q] = cur[q] /\ step'[q] = step[q]

LEMMA OnlySlotKeeps ==
  ASSUME NEW p \in Batches, OnlySlot(p), NEW q \in Batches \ {p}
  PROVE  /\ Holds(q)' = Holds(q) /\ Rest(q)' = Rest(q) /\ ShapeOf(q)' = ShapeOf(q)
         /\ cur'[q] = cur[q] /\ step'[q] = step[q]
  BY DEF OnlySlot, Holds, Rest, LiveReady, Collecting, ShapeOf

-----------------------------------------------------------------------------
(* Ownership *)

(* A step that neither pushes nor pops, and after which no batch holds more. *)
LEMMA OwnershipKept ==
  ASSUME TypeInv, Ownership, UNCHANGED <<queue, enqueued, hpc, hjob>>,
         \A q \in Batches : Holds(q)' \subseteq Holds(q)
  PROVE  Ownership'
  <1>1. Queued' = Queued
    BY DEF Queued
  <1>2. ExclusiveClaim'
    BY <1>1 DEF Ownership, ExclusiveClaim
  <1> QED BY <1>1, <1>2 DEF Ownership

(* Popping takes one job out of the queue. *)
LEMMA PopTakes ==
  ASSUME TypeInv, Ownership, NEW p \in Batches, queue # <<>>, Pop(p)
  PROVE  /\ Popped(p) \in Queued /\ Popped(p) \notin Queued' /\ Queued' \subseteq Queued
         /\ \A i, k \in DOMAIN queue' : queue'[i] = queue'[k] => i = k
  <1>1. queue \in Seq(Jobs) /\ Len(queue) \in Nat \ {0} /\ DOMAIN queue = 1 .. Len(queue)
    BY DEF TypeInv, TypeOK
  <1>2. \A i, k \in DOMAIN queue : queue[i] = queue[k] => i = k
    BY DEF Ownership, ExclusiveClaim
  <1>3. CASE PopsTail(p)
    <2>1. /\ DOMAIN queue' = 1 .. Len(queue) - 1
          /\ \A i \in DOMAIN queue' : queue'[i] = queue[i]
      BY <1>1, <1>3 DEF Pop
    <2>2. Popped(p) = queue[Len(queue)]
      BY <1>3 DEF Popped
    <2> QED BY <1>1, <1>2, <2>1, <2>2 DEF Queued
  <1>4. CASE ~PopsTail(p)
    <2>1. /\ DOMAIN queue' = 1 .. Len(queue) - 1
          /\ \A i \in DOMAIN queue' : queue'[i] = queue[i + 1]
      BY <1>1, <1>4 DEF Pop
    <2>2. Popped(p) = queue[1]
      BY <1>1, <1>4 DEF Popped
    <2> QED BY <1>1, <1>2, <2>1, <2>2 DEF Queued
  <1> QED BY <1>3, <1>4

(* The popped job goes to the batch that popped it. *)
LEMMA OwnershipMoves ==
  ASSUME TypeInv, Ownership, NEW p \in Batches, queue # <<>>, Pop(p),
         UNCHANGED <<enqueued, hpc, hjob>>, OnlySlot(p),
         Holds(p)' \subseteq Holds(p) \cup {Popped(p)}
  PROVE  Ownership'
  <1>1. /\ Popped(p) \in Queued /\ Popped(p) \notin Queued' /\ Queued' \subseteq Queued
        /\ \A i, k \in DOMAIN queue' : queue'[i] = queue'[k] => i = k
    BY PopTakes
  <1>2. \A q \in Batches \ {p} : Holds(q)' = Holds(q)
    BY OnlySlotKeeps
  <1>3. \A q \in Batches : Holds(q) \cap Queued = {} /\ Holds(q) \subseteq enqueued
    BY DEF Ownership, ExclusiveClaim
  <1>4. \A q, r \in Batches : q # r => Holds(q) \cap Holds(r) = {}
    BY DEF Ownership, ExclusiveClaim
  <1>5. \A q \in Batches : Holds(q)' \cap Queued' = {} /\ Holds(q)' \subseteq enqueued
    BY <1>1, <1>2, <1>3 DEF Ownership
  <1>6. \A q, r \in Batches : q # r => Holds(q)' \cap Holds(r)' = {}
    BY <1>1, <1>2, <1>3, <1>4
  <1>7. ExclusiveClaim'
    BY <1>1, <1>5, <1>6 DEF ExclusiveClaim
  <1> QED BY <1>1, <1>5, <1>7 DEF Ownership

(* A handler pushes a job nobody else has. *)
LEMMA OwnershipPush ==
  ASSUME TypeInv, Ownership, NEW h \in Handlers, hpc[h] = "enqueue", PushJob(hjob[h]),
         UNCHANGED slotVars,
         \/ hjob' = [hjob EXCEPT ![h] = NoJob] /\ hpc' = [hpc EXCEPT ![h] = "idle"]
         \/ hjob' = hjob /\ hpc' = [hpc EXCEPT ![h] = "undo"]
  PROVE  Ownership'
  <1> DEFINE j == hjob[h]
  <1>1. j \in Jobs /\ j # NoJob /\ j \notin enqueued
    BY ConstantsOK DEF TypeInv, JobAtHand, Ownership
  <1>2. queue \in Seq(Jobs) /\ queue' = Append(queue, j) /\ enqueued' = enqueued \cup {j}
    BY DEF TypeInv, TypeOK, PushJob
  <1>3. Queued' = Queued \cup {j}
    BY <1>1, <1>2 DEF Queued
  <1>4. \A q \in Batches : Holds(q)' = Holds(q)
    BY DEF slotVars, Holds
  <1>5. \A i, k \in DOMAIN queue' : queue'[i] = queue'[k] => i = k
    <2>1. j \notin Queued /\ \A i, k \in DOMAIN queue : queue[i] = queue[k] => i = k
      BY <1>1 DEF Ownership, ExclusiveClaim
    <2>2. /\ Len(queue) \in Nat /\ DOMAIN queue = 1 .. Len(queue)
          /\ DOMAIN queue' = 1 .. Len(queue) + 1 /\ queue'[Len(queue) + 1] = j
          /\ \A i \in DOMAIN queue : queue'[i] = queue[i]
      BY <1>1, <1>2
    <2> QED BY <2>1, <2>2 DEF Queued
  <1>6. ExclusiveClaim'
    <2>1. \A q \in Batches : Holds(q) \cap Queued = {} /\ j \notin Holds(q)
      BY <1>1 DEF Ownership, ExclusiveClaim
    <2> QED BY <1>3, <1>4, <1>5, <2>1 DEF ExclusiveClaim, Ownership
  <1>7. \A g \in Handlers : hpc'[g] \in {"measure", "decide", "upload", "enqueue"}
                            => hjob'[g] \notin enqueued'
    <2>1. \A g \in Handlers \ {h} : hjob[g] # j
      BY <1>1 DEF Ownership
    <2>2. /\ hpc'[h] \in {"idle", "undo"}
          /\ \A g \in Handlers \ {h} : hpc'[g] = hpc[g] /\ hjob'[g] = hjob[g]
      BY DEF TypeInv, TypeOK
    <2>3. \A g \in Handlers \ {h} : hpc[g] \in {"measure", "decide", "upload", "enqueue"}
                                    => hjob[g] \notin enqueued
      BY DEF Ownership
    <2> QED BY <1>2, <2>1, <2>2, <2>3
  <1>8. \A f, g \in Handlers : f # g => (hjob'[f] # hjob'[g] \/ hjob'[f] = NoJob)
    <2>1. \A g \in Handlers : hjob'[g] = hjob[g] \/ hjob'[g] = NoJob
      BY DEF TypeInv, TypeOK
    <2>2. \A f, g \in Handlers : f # g => (hjob[f] # hjob[g] \/ hjob[f] = NoJob)
      BY DEF Ownership
    <2> QED BY <2>1, <2>2
  <1> QED BY <1>2, <1>3, <1>4, <1>6, <1>7, <1>8 DEF Ownership

(* A handler step that pushes nothing. *)
LEMMA OwnershipHandler ==
  ASSUME TypeInv, Ownership, NEW h \in Handlers, UNCHANGED <<queue, enqueued>>,
         UNCHANGED slotVars,
         \A g \in Handlers \ {h} : hpc'[g] = hpc[g] /\ hjob'[g] = hjob[g],
         \/ hjob'[h] = NoJob /\ hpc'[h] = "idle"
         \/ hjob'[h] = hjob[h] /\ hpc[h] \in {"measure", "decide", "upload", "enqueue"}
         \/ /\ hjob'[h] \in Jobs \ enqueued
            /\ \A g \in Handlers : hjob[g] # hjob'[h]
  PROVE  Ownership'
  <1>1. Queued' = Queued /\ \A q \in Batches : Holds(q)' = Holds(q)
    BY DEF slotVars, Queued, Holds
  <1>2. ExclusiveClaim'
    BY <1>1 DEF Ownership, ExclusiveClaim
  <1>3. \A g \in Handlers : hpc'[g] \in {"measure", "decide", "upload", "enqueue"}
                            => hjob'[g] \notin enqueued'
    BY DEF Ownership
  <1>4. \A f, g \in Handlers : f # g => (hjob'[f] # hjob'[g] \/ hjob'[f] = NoJob)
    BY DEF Ownership
  <1> QED BY <1>1, <1>2, <1>3, <1>4 DEF Ownership

LEMMA OwnershipApi ==
  ASSUME TypeInv, Ownership, NEW h \in Handlers,
         (\E r \in Routes, j \in Jobs : Begin(h, r, j)) \/ ApiStep(h) \/ ApiCrash(h)
  PROVE  Ownership'
  <1>1. /\ hpc \in [Handlers -> {"idle", "measure", "decide", "upload", "enqueue", "undo"}]
        /\ hjob \in [Handlers -> Jobs \cup {NoJob}]
    BY DEF TypeInv, TypeOK
  <1>2. ASSUME NEW r \in Routes, NEW j \in Jobs, Begin(h, r, j) PROVE Ownership'
    <2>1. UNCHANGED <<queue, enqueued>> /\ UNCHANGED slotVars
      BY <1>2 DEF Begin, storeVars, historyVars
    <2>2. /\ \A g \in Handlers \ {h} : hpc'[g] = hpc[g] /\ hjob'[g] = hjob[g]
          /\ hjob'[h] = j
      BY <1>1, <1>2 DEF Begin
    <2>3. j \in Jobs \ enqueued /\ \A g \in Handlers : hjob[g] # j
      BY <1>2 DEF Begin, Fresh
    <2> QED BY <2>1, <2>2, <2>3, OwnershipHandler
  <1>3. CASE MeasureQueue(h) \/ Decide(h) \/ Upload(h) \/ UploadFails(h) \/ Undo(h) \/ ApiCrash(h)
    <2>1. UNCHANGED <<queue, enqueued>> /\ UNCHANGED slotVars
      BY <1>3 DEF MeasureQueue, Decide, Upload, UploadFails, Undo, ApiCrash, storeVars,
                  historyVars, slotVars
    <2>2. \A g \in Handlers \ {h} : hpc'[g] = hpc[g] /\ hjob'[g] = hjob[g]
      BY <1>1, <1>3 DEF MeasureQueue, Decide, Upload, UploadFails, Undo, ApiCrash, Goto, Leave
    <2>3. \/ hjob'[h] = NoJob /\ hpc'[h] = "idle"
          \/ hjob'[h] = hjob[h] /\ hpc[h] \in {"measure", "decide", "upload", "enqueue"}
      BY <1>1, <1>3 DEF MeasureQueue, Decide, Upload, UploadFails, Undo, ApiCrash, Goto, Leave
    <2> QED BY <2>1, <2>2, <2>3, OwnershipHandler
  <1>4. CASE Enqueue(h)
    BY <1>4, OwnershipPush DEF Enqueue, Leave
  <1>5. CASE EnqueueFails(h)
    <2>1. UNCHANGED slotVars /\ hpc[h] = "enqueue"
      BY <1>5 DEF EnqueueFails, slotVars
    <2>2. \/ hjob' = [hjob EXCEPT ![h] = NoJob] /\ hpc' = [hpc EXCEPT ![h] = "idle"]
          \/ hjob' = hjob /\ hpc' = [hpc EXCEPT ![h] = "undo"]
      BY <1>5 DEF EnqueueFails, Goto, Leave
    <2>3. CASE PushJob(hjob[h])
      BY <2>1, <2>2, <2>3, OwnershipPush
    <2>4. CASE UNCHANGED <<queue, answer, inflight, enqueued>>
      <3>1. \A g \in Handlers \ {h} : hpc'[g] = hpc[g] /\ hjob'[g] = hjob[g]
        BY <1>1, <2>2
      <3>2. (hjob'[h] = NoJob /\ hpc'[h] = "idle") \/ hjob'[h] = hjob[h]
        BY <1>1, <2>2
      <3> QED BY <2>1, <2>4, <3>1, <3>2, OwnershipHandler
    <2> QED BY <1>5, <2>3, <2>4 DEF EnqueueFails
  <1> QED BY <1>2, <1>3, <1>4, <1>5 DEF ApiStep

-----------------------------------------------------------------------------
(* Shape *)

LEMMA ShapeKept ==
  ASSUME Shape, NEW p \in Batches, OnlySlot(p), ShapeOf(p)'
  PROVE  Shape'
  BY OnlySlotKeeps DEF Shape

(* Batches of a worker that goes down are empty, the others unchanged. *)
LEMMA DropKeeps ==
  ASSUME TypeInv, Shape, NEW w \in Workers, DropBatches(w)
  PROVE  /\ Shape' /\ \A q \in Batches : Holds(q)' \subseteq Holds(q) /\ Rest(q)' \subseteq Rest(q)
         /\ \A q \in Batches : step'[q] # "none" => step'[q] = step[q] /\ cur'[q] = cur[q]
  <1>1. ASSUME NEW q \in Batches, q[1] = w
        PROVE  /\ bpc'[q] = "free" /\ batch'[q] = {} /\ todo'[q] = {} /\ ready'[q] = {}
               /\ cur'[q] = NoJob /\ step'[q] = "none"
    BY <1>1 DEF DropBatches
  <1>2. ASSUME NEW q \in Batches, q[1] # w
        PROVE  /\ bpc'[q] = bpc[q] /\ batch'[q] = batch[q] /\ todo'[q] = todo[q]
               /\ ready'[q] = ready[q] /\ cur'[q] = cur[q] /\ step'[q] = step[q]
    BY <1>2 DEF DropBatches
  <1>3. ASSUME NEW q \in Batches
        PROVE  /\ ShapeOf(q)' /\ Holds(q)' \subseteq Holds(q) /\ Rest(q)' \subseteq Rest(q)
               /\ step'[q] # "none" => step'[q] = step[q] /\ cur'[q] = cur[q]
    <2>1. CASE q[1] = w
      BY <1>1, <2>1 DEF ShapeOf, Holds, Rest, LiveReady, Collecting
    <2>2. CASE q[1] # w
      BY <1>2, <2>2 DEF Shape, ShapeOf, Holds, Rest, LiveReady, Collecting
    <2> QED BY <2>1, <2>2
  <1> QED BY <1>3 DEF Shape

(* Moving from stage to stage: what is left to do comes from what was. *)
LEMMA ShapeMove ==
  ASSUME TypeInv, Shape, NEW p \in Batches, NEW pc, NEW t, NEW r, Move(p, pc, t, r),
         step[p] = "none", t \cup r \subseteq todo[p] \cup LiveReady(p),
         pc \notin {"free", "claim", "fill"}, pc = "verify" \/ t \cap r = {},
         pc = "cleanup" => t = {} /\ r = {}
  PROVE  /\ Shape' /\ OnlySlot(p) /\ Holds(p)' = Holds(p) /\ Rest(p)' \subseteq Rest(p)
         /\ step'[p] = "none"
  <1>1. /\ bpc'[p] = pc /\ todo'[p] = t /\ ready'[p] = r
        /\ batch'[p] = batch[p] /\ cur'[p] = cur[p] /\ step'[p] = "none"
    BY DEF Move, TypeInv, TypeOK
  <1>2. OnlySlot(p)
    BY DEF Move, OnlySlot, TypeInv, TypeOK
  <1>3. Rest(p)' \subseteq Rest(p) /\ Holds(p)' = Holds(p)
    BY <1>1 DEF Rest, Holds, LiveReady, Collecting
  <1>4. ShapeOf(p)'
    BY <1>1 DEF Shape, ShapeOf, Rest, LiveReady, Collecting
  <1> QED BY <1>1, <1>2, <1>3, <1>4, ShapeKept

(* Every stage change of process_batch is such a move. *)
LEMMA ProcessMoves ==
  ASSUME TypeInv, Shape, NEW p \in Batches,
         \/ \E j \in Jobs : Decode(p, j)
         \/ DecodeEnds(p) \/ Prepare(p) \/ PrepareFails(p) \/ RejectEnds(p) \/ TakePermit(p)
         \/ Encode(p) \/ Search(p) \/ EncodeOrSearchFails(p) \/ FailEnds(p) \/ VerifyEnds(p)
  PROVE  /\ Shape' /\ OnlySlot(p) /\ Holds(p)' = Holds(p) /\ Rest(p)' \subseteq Rest(p)
         /\ step[p] = "none" /\ step'[p] = "none"
         /\ UNCHANGED <<storeVars, apiVars, wpc, mishaps, historyVars>>
  <1>1. ShapeOf(p)
    BY DEF Shape
  <1>2. ASSUME NEW pc, NEW t, NEW r, Move(p, pc, t, r),
               step[p] = "none", t \cup r \subseteq todo[p] \cup LiveReady(p),
               pc \notin {"free", "claim", "fill"}, pc = "verify" \/ t \cap r = {},
               pc = "cleanup" => t = {} /\ r = {}
        PROVE  /\ Shape' /\ OnlySlot(p) /\ Holds(p)' = Holds(p) /\ Rest(p)' \subseteq Rest(p)
               /\ step[p] = "none" /\ step'[p] = "none"
               /\ UNCHANGED <<storeVars, apiVars, wpc, mishaps, historyVars>>
    <2>1. UNCHANGED <<storeVars, apiVars, wpc, mishaps, historyVars>>
      BY <1>2 DEF Move
    <2> QED BY <1>2, <2>1, ShapeMove
  <1>3. ASSUME NEW j \in Jobs, Decode(p, j)
        PROVE  \E pc, t, r :
                 /\ Move(p, pc, t, r) /\ step[p] = "none"
                 /\ t \cup r \subseteq todo[p] \cup LiveReady(p)
                 /\ pc \notin {"free", "claim", "fill"} /\ (pc = "verify" \/ t \cap r = {})
                 /\ pc = "cleanup" => t = {} /\ r = {}
    BY <1>1, <1>3 DEF Decode, At, LiveReady, ShapeOf
  <1>4. CASE DecodeEnds(p) \/ RejectEnds(p)
    <2> DEFINE pc == IF ready[p] = {} THEN "cleanup"
                     ELSE IF DecodeEnds(p) THEN "prepare" ELSE "encode"
    <2>1. Move(p, pc, {}, ready[p]) /\ step[p] = "none" /\ bpc[p] \in {"decode", "reject"}
      BY <1>4 DEF DecodeEnds, RejectEnds, At
    <2>2. ready[p] = LiveReady(p)
      BY <2>1 DEF LiveReady
    <2> QED BY <1>2, <2>1, <2>2
  <1>5. CASE Prepare(p)
    <2>1. PICK ok \in SUBSET ready[p] : Move(p, "reject", ready[p] \ ok, ok)
      BY <1>5 DEF Prepare
    <2>2. step[p] = "none" /\ ready[p] = LiveReady(p)
      BY <1>5 DEF Prepare, At, LiveReady
    <2> QED BY <1>2, <2>1, <2>2
  <1>6. CASE PrepareFails(p)
    BY <1>2, <1>6 DEF PrepareFails, At, LiveReady
  <1>7. CASE TakePermit(p)
    BY <1>2, <1>7 DEF TakePermit, At, LiveReady
  <1>8. CASE Encode(p)
    BY <1>2, <1>8 DEF Encode, At, LiveReady
  <1>9. CASE Search(p)
    BY <1>2, <1>9 DEF Search, At, LiveReady
  <1>10. CASE EncodeOrSearchFails(p)
    BY <1>2, <1>10 DEF EncodeOrSearchFails, At, LiveReady
  <1>11. CASE FailEnds(p)
    BY <1>2, <1>11 DEF FailEnds, At, LiveReady
  <1>12. CASE VerifyEnds(p)
    BY <1>2, <1>12 DEF VerifyEnds, At, LiveReady
  <1> QED
    BY <1>2, <1>3, <1>4, <1>5, <1>6, <1>7, <1>8, <1>9, <1>10, <1>11, <1>12

(* Where a batch may publish an answer for job j from. *)
Publishes(p, j) ==
  \/ step[p] = "none" /\ j \in todo[p] /\ bpc[p] \in {"decode", "reject", "fail", "verify"}
  \/ step[p] \in {"expire", "amend"} /\ j = cur[p]

LEMMA PublishShape ==
  ASSUME TypeInv, Shape, NEW p \in Batches, NEW j \in Jobs, NEW s \in Terminal,
         Publish(p, j, s), Publishes(p, j)
  PROVE  /\ Shape' /\ OnlySlot(p) /\ Holds(p)' \subseteq Holds(p)
         /\ Rest(p)' \subseteq Rest(p) /\ j \notin Rest(p)' /\ j \in Holds(p)
         /\ cur'[p] = j /\ step'[p] = "release"
  <1>1. ShapeOf(p) /\ j # NoJob
    BY ConstantsOK DEF Shape
  <1>2. /\ cur'[p] = j /\ step'[p] = "release" /\ todo'[p] = todo[p] \ {j}
        /\ bpc'[p] = bpc[p] /\ batch'[p] = batch[p] /\ ready'[p] = ready[p]
    BY DEF Publish, TypeInv, TypeOK
  <1>3. OnlySlot(p)
    BY DEF Publish, OnlySlot, TypeInv, TypeOK
  <1>4. j \in Holds(p) /\ Holds(p)' \subseteq Holds(p)
    BY <1>1, <1>2 DEF Publishes, ShapeOf, Holds
  <1>5. Rest(p)' \subseteq Rest(p) /\ j \notin Rest(p)'
    BY <1>1, <1>2 DEF Publishes, ShapeOf, Rest, LiveReady, Collecting
  <1>6. ShapeOf(p)'
    BY <1>1, <1>2, <1>5 DEF ShapeOf, LiveReady
  <1> QED BY <1>2, <1>3, <1>4, <1>5, <1>6, ShapeKept

LEMMA AbandonShape ==
  ASSUME TypeInv, Shape, NEW p \in Batches, Abandon(p), UNCHANGED batch
  PROVE  /\ Shape' /\ OnlySlot(p) /\ Holds(p)' \subseteq Holds(p) /\ Rest(p)' = {}
         /\ step'[p] = "none"
  <1>1. /\ bpc'[p] = "cleanup" /\ todo'[p] = {} /\ ready'[p] = {} /\ cur'[p] = NoJob
        /\ step'[p] = "none" /\ batch'[p] = batch[p]
    BY DEF Abandon, TypeInv, TypeOK
  <1>2. OnlySlot(p)
    BY DEF Abandon, OnlySlot, TypeInv, TypeOK
  <1>3. Holds(p)' \subseteq Holds(p) /\ Rest(p)' = {}
    BY <1>1 DEF Holds, Rest, LiveReady, Collecting
  <1>4. ShapeOf(p)'
    BY <1>1, <1>3 DEF ShapeOf, LiveReady
  <1> QED BY <1>1, <1>2, <1>3, <1>4, ShapeKept

(* A write of "done" that raised in the verify loop. *)
LEMMA AmendShape ==
  ASSUME TypeInv, Shape, NEW p \in Batches, NEW j \in Jobs, Verify(p, j),
         step'[p] # "release"
  PROVE  /\ Shape' /\ OnlySlot(p) /\ Holds(p)' \subseteq Holds(p)
         /\ Rest(p)' \subseteq Rest(p) /\ j \notin Rest(p)' /\ j \in Holds(p) /\ j \in Rest(p)
         /\ cur'[p] = j /\ step'[p] = "amend" /\ WriteFails(j, "done")
  <1>1. ShapeOf(p) /\ bpc[p] = "verify" /\ j \in todo[p]
    BY DEF Shape, Verify, At
  <1>2. /\ cur' = [cur EXCEPT ![p] = j] /\ step' = [step EXCEPT ![p] = "amend"]
        /\ todo' = [todo EXCEPT ![p] = @ \ {j}]
        /\ UNCHANGED <<bpc, ready, batch>> /\ WriteFails(j, "done")
    BY DEF Verify, Publish, WriteFails, TypeInv, TypeOK
  <1>3. OnlySlot(p)
    BY <1>2 DEF OnlySlot, TypeInv, TypeOK
  <1>4. cur'[p] = j /\ step'[p] = "amend" /\ todo'[p] = todo[p] \ {j}
    BY <1>2 DEF TypeInv, TypeOK
  <1>5. /\ Holds(p)' \subseteq Holds(p) /\ j \in Holds(p) /\ j \in Rest(p)
        /\ Rest(p)' \subseteq Rest(p) /\ j \notin Rest(p)'
    BY <1>1, <1>2, <1>4 DEF ShapeOf, Holds, Rest, LiveReady, Collecting
  <1>6. ShapeOf(p)'
    BY <1>1, <1>2, <1>4, <1>5 DEF ShapeOf, LiveReady
  <1> QED BY <1>2, <1>3, <1>4, <1>5, <1>6, ShapeKept

(* The end of settling, and of the batch. *)
LEMMA SettledShape ==
  ASSUME TypeInv, Shape, NEW p \in Batches, Release(p) \/ Notify(p) \/ Discard(p) \/ Cleanup(p)
  PROVE  /\ Shape' /\ OnlySlot(p) /\ Holds(p)' \subseteq Holds(p) /\ Rest(p)' \subseteq Rest(p)
         /\ Release(p) => step'[p] \in {"notify", "discard"} /\ cur'[p] = cur[p]
         /\ ~Release(p) => step'[p] = "none"
  <1>1. ShapeOf(p)
    BY DEF Shape
  <1>2. CASE Release(p)
    <2>1. /\ step'[p] \in {"notify", "discard"} /\ cur'[p] = cur[p] /\ bpc'[p] = bpc[p]
          /\ todo'[p] = todo[p] /\ ready'[p] = ready[p] /\ batch'[p] = batch[p]
          /\ step[p] = "release"
      BY <1>2 DEF Release, TypeInv, TypeOK
    <2>2. OnlySlot(p)
      BY <1>2 DEF Release, OnlySlot, TypeInv, TypeOK
    <2>3. ShapeOf(p)' /\ Holds(p)' = Holds(p) /\ Rest(p)' = Rest(p)
      BY <1>1, <2>1 DEF ShapeOf, Holds, Rest, LiveReady, Collecting
    <2> QED BY <1>2, <2>1, <2>2, <2>3, ShapeKept
  <1>3. CASE Notify(p) \/ Discard(p)
    <2>1. /\ step'[p] = "none" /\ cur'[p] = NoJob /\ bpc'[p] = bpc[p]
          /\ todo'[p] = todo[p] /\ ready'[p] = ready[p] /\ batch'[p] = batch[p]
      BY <1>3 DEF Notify, Discard, Settled, TypeInv, TypeOK
    <2>2. OnlySlot(p)
      BY <1>3 DEF Notify, Discard, Settled, OnlySlot, TypeInv, TypeOK
    <2>3. ShapeOf(p)' /\ Holds(p)' \subseteq Holds(p) /\ Rest(p)' = Rest(p)
      BY <1>1, <2>1 DEF ShapeOf, Holds, Rest, LiveReady, Collecting
    <2>4. ~Release(p)
      BY <1>3 DEF Release, Notify, Discard
    <2> QED BY <2>1, <2>2, <2>3, <2>4, ShapeKept
  <1>4. CASE Cleanup(p)
    <2>1. /\ step'[p] = "none" /\ step[p] = "none" /\ cur'[p] = cur[p] /\ bpc'[p] = "free"
          /\ bpc[p] = "cleanup" /\ todo'[p] = todo[p] /\ ready'[p] = ready[p] /\ batch'[p] = {}
      BY <1>4 DEF Cleanup, At, TypeInv, TypeOK
    <2>2. OnlySlot(p)
      BY <1>4 DEF Cleanup, OnlySlot, TypeInv, TypeOK
    <2>3. ShapeOf(p)' /\ Holds(p)' \subseteq Holds(p) /\ Rest(p)' = Rest(p)
      BY <1>1, <2>1 DEF ShapeOf, Holds, Rest, LiveReady, Collecting
    <2>4. ~Release(p)
      BY <2>1 DEF Release
    <2> QED BY <2>1, <2>2, <2>3, <2>4, ShapeKept
  <1> QED BY <1>2, <1>3, <1>4

(* collect_batch: a popped job joins the batch, or is expired beside it. *)
LEMMA CollectShape ==
  ASSUME TypeInv, Ownership, Shape, NEW p \in Batches, Collect(p)
  PROVE  /\ Shape' /\ OnlySlot(p) /\ step[p] = "none"
         /\ \/ /\ StartCollect(p) \/ Filled(p)
               /\ UNCHANGED queue /\ Holds(p)' = Holds(p) /\ Rest(p)' \subseteq Rest(p)
               /\ step'[p] = "none"
            \/ /\ Claim(p) \/ ClaimStale(p)
               /\ queue # <<>> /\ Pop(p) /\ Popped(p) \in Jobs
               /\ Holds(p)' \subseteq Holds(p) \cup {Popped(p)}
               /\ Rest(p)' \subseteq Rest(p) \cup {Popped(p)}
               /\ step'[p] \in {"none", "expire"}
               /\ step'[p] = "expire" => cur'[p] = Popped(p) /\ Popped(p) \notin Rest(p)'
  <1>1. ShapeOf(p)
    BY DEF Shape
  <1>2. CASE StartCollect(p)
    <2>1. /\ bpc[p] = "free" /\ bpc'[p] = "claim" /\ step[p] = "none" /\ step'[p] = "none"
          /\ todo'[p] = todo[p] /\ ready'[p] = ready[p] /\ batch'[p] = batch[p]
          /\ cur'[p] = cur[p] /\ UNCHANGED queue
      BY <1>2 DEF StartCollect, At, storeVars, TypeInv, TypeOK
    <2>2. OnlySlot(p)
      BY <1>2 DEF StartCollect, OnlySlot, TypeInv, TypeOK
    <2>3. ShapeOf(p)' /\ Holds(p)' = Holds(p) /\ Rest(p)' \subseteq Rest(p)
      BY <1>1, <2>1 DEF ShapeOf, Holds, Rest, LiveReady, Collecting
    <2> QED BY <1>2, <2>1, <2>2, <2>3, ShapeKept
  <1>3. CASE Filled(p)
    <2>1. /\ bpc[p] = "fill" /\ bpc'[p] = "decode" /\ step[p] = "none" /\ step'[p] = "none"
          /\ todo'[p] = batch[p] /\ ready'[p] = ready[p] /\ batch'[p] = batch[p]
          /\ cur'[p] = cur[p] /\ UNCHANGED queue
      BY <1>3 DEF Filled, At, storeVars, TypeInv, TypeOK
    <2>2. OnlySlot(p)
      BY <1>3 DEF Filled, OnlySlot, TypeInv, TypeOK
    <2>3. ShapeOf(p)' /\ Holds(p)' = Holds(p) /\ Rest(p)' \subseteq Rest(p)
      BY <1>1, <2>1 DEF ShapeOf, Holds, Rest, LiveReady, Collecting
    <2> QED BY <1>3, <2>1, <2>2, <2>3, ShapeKept
  <1>4. CASE Claim(p) \/ ClaimStale(p)
    <2>1. queue # <<>> /\ Pop(p) /\ step[p] = "none" /\ bpc[p] \in {"claim", "fill"}
      BY <1>4 DEF Claim, ClaimStale, CanPop
    <2>2. Popped(p) \in Queued /\ Popped(p) \in Jobs /\ Popped(p) \notin Holds(p)
      BY <2>1, PopTakes, PopType DEF Ownership, ExclusiveClaim, TypeInv
    <2>3. CASE Claim(p)
      <3>1. /\ bpc'[p] = "fill" /\ step'[p] = "none" /\ batch'[p] = batch[p] \cup {Popped(p)}
            /\ todo'[p] = todo[p] /\ ready'[p] = ready[p] /\ cur'[p] = cur[p]
        BY <2>1, <2>3 DEF Claim, TypeInv, TypeOK
      <3>2. OnlySlot(p)
        BY <2>3 DEF Claim, OnlySlot, TypeInv, TypeOK
      <3>3. /\ ShapeOf(p)' /\ Holds(p)' \subseteq Holds(p) \cup {Popped(p)}
            /\ Rest(p)' \subseteq Rest(p) \cup {Popped(p)}
        BY <1>1, <2>1, <3>1 DEF ShapeOf, Holds, Rest, LiveReady, Collecting
      <3> QED BY <2>1, <2>2, <2>3, <3>1, <3>2, <3>3, ShapeKept
    <2>4. CASE ClaimStale(p)
      <3>1. /\ bpc'[p] = bpc[p] /\ step'[p] = "expire" /\ batch'[p] = batch[p]
            /\ todo'[p] = todo[p] /\ ready'[p] = ready[p] /\ cur'[p] = Popped(p)
        BY <2>1, <2>4 DEF ClaimStale, TypeInv, TypeOK
      <3>2. OnlySlot(p)
        BY <2>4 DEF ClaimStale, OnlySlot, TypeInv, TypeOK
      <3>3. /\ Holds(p)' \subseteq Holds(p) \cup {Popped(p)} /\ Rest(p)' = Rest(p)
            /\ Popped(p) \notin Rest(p)'
        BY <1>1, <2>1, <2>2, <3>1 DEF ShapeOf, Holds, Rest, LiveReady, Collecting
      <3>4. ShapeOf(p)'
        BY <1>1, <2>1, <3>1, <3>3 DEF ShapeOf, LiveReady
      <3> QED BY <2>1, <2>2, <2>4, <3>1, <3>2, <3>3, <3>4, ShapeKept
    <2> QED BY <1>4, <2>3, <2>4
  <1> QED BY <1>2, <1>3, <1>4 DEF Collect

-----------------------------------------------------------------------------
(* Settling *)

(* What is known of the job slot p is settling. *)
CurOf(p) ==
  /\ step[p] = "expire" => cur[p] \notin answered
  /\ step[p] \in {"expire", "amend", "release"} => cur[p] \notin released
  /\ step[p] \in {"expire", "amend", "release", "notify"} => cur[p] \notin notified
  /\ step[p] \in {"release", "notify"} => cur[p] \in answered
  /\ step[p] = "amend" => answer[cur[p]] \notin {"error", "expired"}

Settling ==
  /\ released \cup notified \subseteq answered /\ answered \subseteq enqueued
  /\ Queued \cap answered = {}
  /\ \A p \in Batches : Rest(p) \cap answered = {}
  /\ \A p \in Batches : CurOf(p)
  /\ \A j \in Jobs : answer[j] \in Terminal => j \in answered

IInv == TypeInv /\ Ownership /\ Shape /\ Settling

(* Another batch's job is neither queued nor any business of this one. *)
LEMMA Apart ==
  ASSUME TypeInv, Ownership, Shape, NEW p \in Batches, NEW j \in Holds(p)
  PROVE  /\ j \notin Queued /\ j \in enqueued /\ j \in Jobs
         /\ \A q \in Batches \ {p} :
              j \notin Rest(q) /\ (step[q] # "none" => cur[q] # j /\ cur[q] \in Jobs)
  <1>1. j \notin Queued /\ j \in enqueued
    BY DEF Ownership, ExclusiveClaim
  <1>2. j \in Jobs
    BY DEF Holds, TypeInv, TypeOK
  <1>3. ASSUME NEW q \in Batches \ {p}
        PROVE  j \notin Rest(q) /\ (step[q] # "none" => cur[q] # j /\ cur[q] \in Jobs)
    <2>1. j \notin Holds(q)
      BY DEF Ownership, ExclusiveClaim
    <2>2. Rest(q) \subseteq Holds(q)
      BY DEF Shape, ShapeOf, Rest, LiveReady, Holds
    <2>3. step[q] # "none" => cur[q] \in Jobs
      BY DEF TypeInv, JobAtHand
    <2> QED BY ConstantsOK, <2>1, <2>2, <2>3 DEF Holds
  <1> QED BY <1>1, <1>2, <1>3

(* A step of slot p about its own job j. *)
LEMMA SettlingStep ==
  ASSUME IInv, NEW p \in Batches, NEW j \in Holds(p), OnlySlot(p),
         UNCHANGED <<queue, enqueued>>,
         answered' = answered \/ answered' = answered \cup {j},
         released' = released \/ released' = released \cup {j},
         notified' = notified \/ notified' = notified \cup {j},
         \A i \in Jobs \ {j} : answer'[i] = answer[i],
         answer'[j] \in Terminal => j \in answered',
         released' \cup notified' \subseteq answered',
         Rest(p)' \cap answered' = {}, CurOf(p)'
  PROVE  Settling'
  <1>1. /\ j \notin Queued /\ j \in enqueued /\ j \in Jobs
        /\ \A q \in Batches \ {p} :
             j \notin Rest(q) /\ (step[q] # "none" => cur[q] # j /\ cur[q] \in Jobs)
    BY Apart DEF IInv
  <1>2. Queued' = Queued /\ answered' \subseteq answered \cup {j}
    BY DEF Queued
  <1>3. ASSUME NEW q \in Batches \ {p}
        PROVE  Rest(q)' \cap answered' = {} /\ CurOf(q)'
    <2>1. Rest(q)' = Rest(q) /\ cur'[q] = cur[q] /\ step'[q] = step[q]
      BY OnlySlotKeeps
    <2>2. Rest(q) \cap answered = {} /\ CurOf(q)
      BY DEF IInv, Settling
    <2>3. Rest(q)' \cap answered' = {}
      BY <1>1, <1>2, <2>1, <2>2
    <2>4. CASE step[q] = "none"
      BY <2>1, <2>3, <2>4 DEF CurOf
    <2>5. CASE step[q] # "none"
      <3>1. cur[q] # j /\ answer'[cur[q]] = answer[cur[q]]
        BY <1>1, <2>5
      <3>2. /\ cur[q] \in answered' <=> cur[q] \in answered
            /\ cur[q] \in released' <=> cur[q] \in released
            /\ cur[q] \in notified' <=> cur[q] \in notified
        BY <3>1
      <3> QED BY <2>1, <2>2, <2>3, <3>1, <3>2 DEF CurOf
    <2> QED BY <2>4, <2>5
  <1>4. answered' \subseteq enqueued' /\ Queued' \cap answered' = {}
    BY <1>1, <1>2 DEF IInv, Settling
  <1>5. \A i \in Jobs : answer'[i] \in Terminal => i \in answered'
    BY DEF IInv, Settling
  <1> QED BY <1>3, <1>4, <1>5 DEF Settling

(* A step of slot p that settles nothing. *)
LEMMA SettlingMoves ==
  ASSUME IInv, NEW p \in Batches, OnlySlot(p),
         Queued' \subseteq Queued, UNCHANGED <<enqueued, answer, answered, released, notified>>,
         Rest(p)' \cap answered = {}, CurOf(p)'
  PROVE  Settling'
  <1>1. ASSUME NEW q \in Batches
        PROVE  Rest(q)' \cap answered' = {} /\ CurOf(q)'
    <2>1. CASE q = p
      BY <2>1
    <2>2. CASE q # p
      <3>1. Rest(q)' = Rest(q) /\ cur'[q] = cur[q] /\ step'[q] = step[q]
        BY <2>2, OnlySlotKeeps
      <3> QED BY <3>1 DEF IInv, Settling, CurOf
    <2> QED BY <2>1, <2>2
  <1> QED BY <1>1 DEF IInv, Settling

(* Batches vanish; nothing is settled but, perhaps, one answer written. *)
LEMMA SettlingDrops ==
  ASSUME IInv, NEW w \in Workers, DropBatches(w),
         UNCHANGED <<queue, enqueued, answer, answered, released, notified>>
  PROVE  Settling'
  <1>1. \A q \in Batches : /\ Rest(q)' \subseteq Rest(q)
                           /\ step'[q] # "none" => step'[q] = step[q] /\ cur'[q] = cur[q]
    BY DropKeeps DEF IInv
  <1>2. Queued' = Queued
    BY DEF Queued
  <1>3. \A q \in Batches : CurOf(q)'
    BY <1>1 DEF IInv, Settling, CurOf
  <1> QED BY <1>1, <1>2, <1>3 DEF IInv, Settling

(* The expiry answer could not be written, or its reply was lost. *)
LEMMA ExpireFailsStep ==
  ASSUME IInv, NEW p \in Batches, ExpireFails(p)
  PROVE  Ownership' /\ Shape' /\ Settling'
  <1> DEFINE j == cur[p]
  <1>1. j \in Jobs /\ j \in Holds(p) /\ step[p] = "expire" /\ CurOf(p)
    BY ConstantsOK DEF ExpireFails, IInv, TypeInv, JobAtHand, Settling, Holds
  <1>2. p[1] \in Workers
    BY DEF Batches
  <1>3. /\ DropBatches(p[1]) /\ UNCHANGED <<queue, enqueued, released, notified, hpc, hjob>>
        /\ \/ UNCHANGED <<answer, answered>>
           \/ WriteStatus(j, "expired")
    BY DEF ExpireFails, LoopDies, apiVars
  <1>4. /\ Shape' /\ \A q \in Batches : Holds(q)' \subseteq Holds(q) /\ Rest(q)' \subseteq Rest(q)
        /\ \A q \in Batches : step'[q] # "none" => step'[q] = step[q] /\ cur'[q] = cur[q]
    BY <1>2, <1>3, DropKeeps DEF IInv
  <1>5. Ownership'
    BY <1>3, <1>4, OwnershipKept DEF IInv
  <1>6. CASE UNCHANGED <<answer, answered>>
    BY <1>2, <1>3, <1>4, <1>5, <1>6, SettlingDrops
  <1>7. CASE WriteStatus(j, "expired")
    <2>1. /\ j \notin Queued /\ j \in enqueued
          /\ \A q \in Batches \ {p} :
               j \notin Rest(q) /\ (step[q] # "none" => cur[q] # j /\ cur[q] \in Jobs)
      BY <1>1, Apart DEF IInv
    <2>2. /\ answered' = answered \cup {j}
          /\ \A i \in Jobs \ {j} : answer'[i] = answer[i]
      BY <1>7 DEF WriteStatus, IInv, TypeInv, TypeOK
    <2>3. Queued' = Queued
      BY <1>3 DEF Queued
    <2>4. Rest(p)' = {} /\ step'[p] = "none"
      BY <1>3 DEF DropBatches, Rest, LiveReady, Collecting
    <2>5. ASSUME NEW q \in Batches \ {p}
          PROVE  Rest(q)' \cap answered' = {} /\ CurOf(q)'
      <3>1. Rest(q)' \cap answered' = {}
        BY <1>4, <2>1, <2>2 DEF IInv, Settling
      <3>2. CASE step'[q] = "none"
        BY <3>1, <3>2 DEF CurOf
      <3>3. CASE step'[q] # "none"
        <4>1. /\ step'[q] = step[q] /\ cur'[q] = cur[q] /\ cur[q] # j /\ cur[q] \in Jobs
              /\ CurOf(q)
          BY <1>4, <2>1, <3>3 DEF IInv, Settling
        <4> QED BY <1>3, <2>2, <3>1, <4>1 DEF CurOf
      <3> QED BY <3>2, <3>3
    <2>6. CurOf(p)' /\ Rest(p)' \cap answered' = {}
      BY <2>4 DEF CurOf
    <2>7. /\ released' \cup notified' \subseteq answered' /\ answered' \subseteq enqueued'
          /\ Queued' \cap answered' = {}
      BY <1>3, <2>1, <2>2, <2>3 DEF IInv, Settling
    <2>8. \A i \in Jobs : answer'[i] \in Terminal => i \in answered'
      BY <2>2 DEF IInv, Settling
    <2> QED BY <1>4, <1>5, <2>5, <2>6, <2>7, <2>8 DEF Settling
  <1> QED BY <1>3, <1>6, <1>7

(* Publishing an answer, or failing to and giving up the batch. *)
LEMMA PublishStep ==
  ASSUME IInv, NEW p \in Batches, NEW j \in Jobs, NEW s \in Terminal,
         Publish(p, j, s), Publishes(p, j)
  PROVE  Ownership' /\ Shape' /\ Settling'
  <1>1. /\ Shape' /\ OnlySlot(p) /\ Holds(p)' \subseteq Holds(p)
        /\ Rest(p)' \subseteq Rest(p) /\ j \notin Rest(p)' /\ j \in Holds(p)
        /\ cur'[p] = j /\ step'[p] = "release"
    BY PublishShape DEF IInv
  <1>2. /\ UNCHANGED <<queue, enqueued, released, notified, hpc, hjob>>
        /\ answered' = answered \cup {j} /\ answer' = [answer EXCEPT ![j] = s]
    BY DEF Publish, WriteStatus, apiVars
  <1>3. Ownership'
    BY <1>1, <1>2, OwnershipKept, OnlySlotKeeps DEF IInv
  <1>4. j \notin released \cup notified
    BY DEF Publishes, IInv, Settling, CurOf, Rest
  <1>5. CurOf(p)'
    BY <1>1, <1>2, <1>4 DEF CurOf
  <1>6. Rest(p)' \cap answered' = {}
    BY <1>1, <1>2 DEF IInv, Settling
  <1>7. /\ released' \cup notified' \subseteq answered'
        /\ \A i \in Jobs \ {j} : answer'[i] = answer[i]
    BY <1>2 DEF IInv, Settling, TypeInv, TypeOK
  <1> QED BY <1>1, <1>2, <1>3, <1>5, <1>6, <1>7, SettlingStep

LEMMA PublishOrAbandonStep ==
  ASSUME IInv, NEW p \in Batches, NEW j \in Jobs, NEW s \in Terminal,
         PublishOrAbandon(p, j, s), Publishes(p, j)
  PROVE  Ownership' /\ Shape' /\ Settling'
  <1>1. CASE Publish(p, j, s)
    BY <1>1, PublishStep
  <1>2. CASE WriteFails(j, s) /\ Abandon(p)
    <2>1. /\ UNCHANGED <<queue, enqueued, released, notified, hpc, hjob, batch>>
          /\ answered' = answered \/ answered' = answered \cup {j}
          /\ \A i \in Jobs \ {j} : answer'[i] = answer[i]
          /\ answer'[j] \in Terminal => j \in answered'
      BY <1>2 DEF WriteFails, WriteStatus, apiVars, IInv, Settling, TypeInv, TypeOK
    <2>2. /\ Shape' /\ OnlySlot(p) /\ Holds(p)' \subseteq Holds(p) /\ Rest(p)' = {}
          /\ step'[p] = "none"
      BY <1>2, <2>1, AbandonShape DEF IInv
    <2>3. Ownership'
      BY <2>1, <2>2, OwnershipKept, OnlySlotKeeps DEF IInv
    <2>4. j \in Holds(p)
      BY ConstantsOK DEF Publishes, IInv, Shape, ShapeOf, Holds
    <2>5. CurOf(p)' /\ Rest(p)' \cap answered' = {} /\ released' \cup notified' \subseteq answered'
      BY <2>1, <2>2 DEF CurOf, IInv, Settling
    <2> QED BY <2>1, <2>2, <2>3, <2>4, <2>5, SettlingStep
  <1> QED BY <1>1, <1>2 DEF PublishOrAbandon

LEMMA VerifyStep ==
  ASSUME IInv, NEW p \in Batches, NEW j \in Jobs, Verify(p, j)
  PROVE  Ownership' /\ Shape' /\ Settling'
  <1>1. Publishes(p, j)
    BY DEF Verify, At, Publishes
  <1>2. CASE step'[p] = "release"
    <2>1. Publish(p, j, "done")
      BY <1>2 DEF Verify, IInv, TypeInv, TypeOK
    <2> QED BY <1>1, <2>1, PublishStep DEF Terminal
  <1>3. CASE step'[p] # "release"
    <2>1. /\ Shape' /\ OnlySlot(p) /\ Holds(p)' \subseteq Holds(p)
          /\ Rest(p)' \subseteq Rest(p) /\ j \notin Rest(p)' /\ j \in Holds(p) /\ j \in Rest(p)
          /\ cur'[p] = j /\ step'[p] = "amend" /\ WriteFails(j, "done")
      BY <1>3, AmendShape DEF IInv
    <2>2. /\ UNCHANGED <<queue, enqueued, released, notified, hpc, hjob>>
          /\ answered' = answered \/ answered' = answered \cup {j}
          /\ \A i \in Jobs \ {j} : answer'[i] = answer[i]
          /\ answer'[j] \in Terminal => j \in answered'
          /\ answer'[j] = answer[j] \/ answer'[j] = "done"
      BY <2>1 DEF WriteFails, WriteStatus, apiVars, IInv, Settling, TypeInv, TypeOK
    <2>3. j \notin answered /\ answer[j] \notin Terminal /\ j \notin released \cup notified
      BY <2>1 DEF IInv, Settling
    <2>4. Ownership'
      BY <2>1, <2>2, OwnershipKept, OnlySlotKeeps DEF IInv
    <2>5. CurOf(p)'
      BY <2>1, <2>2, <2>3 DEF CurOf, Terminal
    <2>6. Rest(p)' \cap answered' = {} /\ released' \cup notified' \subseteq answered'
      BY <2>1, <2>2 DEF IInv, Settling
    <2> QED BY <2>1, <2>2, <2>4, <2>5, <2>6, SettlingStep
  <1> QED BY <1>2, <1>3

(* Giving back, notifying, removing photos. *)
LEMMA SettledStep ==
  ASSUME IInv, NEW p \in Batches, Release(p) \/ Notify(p) \/ Discard(p) \/ Cleanup(p)
  PROVE  Ownership' /\ Shape' /\ Settling'
  <1>1. /\ Shape' /\ OnlySlot(p) /\ Holds(p)' \subseteq Holds(p) /\ Rest(p)' \subseteq Rest(p)
        /\ Release(p) => step'[p] \in {"notify", "discard"} /\ cur'[p] = cur[p]
        /\ ~Release(p) => step'[p] = "none"
    BY SettledShape DEF IInv
  <1>2. UNCHANGED <<queue, enqueued, hpc, hjob, answer, answered>>
    BY DEF Release, Notify, Discard, Cleanup, apiVars, storeVars, historyVars
  <1>3. Ownership'
    BY <1>1, <1>2, OwnershipKept, OnlySlotKeeps DEF IInv
  <1>4. Rest(p)' \cap answered = {}
    BY <1>1 DEF IInv, Settling
  <1>5. CASE Release(p) \/ Notify(p)
    <2> DEFINE j == cur[p]
    <2>1. step[p] \in {"release", "notify"} /\ j \in Jobs /\ j \in Holds(p) /\ CurOf(p)
      BY ConstantsOK, <1>5 DEF Release, Notify, IInv, TypeInv, JobAtHand, Holds, Settling
    <2>2. /\ released' = released \/ released' = released \cup {j}
          /\ notified' = notified \/ notified' = notified \cup {j}
      BY <1>5 DEF Release, Notify
    <2>3. j \in answered /\ answered \subseteq enqueued
      BY <2>1 DEF CurOf, IInv, Settling
    <2>4. CurOf(p)'
      <3>1. CASE Release(p)
        BY <1>1, <1>2, <2>1, <2>3, <3>1 DEF CurOf, Release
      <3>2. CASE Notify(p)
        <4>1. step'[p] = "none"
          BY <1>1, <3>2 DEF Release, Notify
        <4> QED BY <4>1 DEF CurOf
      <3> QED BY <1>5, <3>1, <3>2
    <2>5. released' \cup notified' \subseteq answered'
      BY <1>2, <2>2, <2>3 DEF IInv, Settling
    <2>6. \A i \in Jobs \ {j} : answer'[i] = answer[i]
      BY <1>2
    <2>7. answer'[j] \in Terminal => j \in answered'
      BY <1>2, <2>3
    <2> QED BY <1>1, <1>2, <1>3, <1>4, <2>1, <2>2, <2>4, <2>5, <2>6, <2>7, SettlingStep
  <1>6. CASE Discard(p) \/ Cleanup(p)
    <2>1. UNCHANGED <<released, notified>> /\ step'[p] = "none"
      BY <1>1, <1>6 DEF Discard, Cleanup, At, Release, historyVars
    <2>2. CurOf(p)' /\ Queued' = Queued
      BY <1>2, <2>1 DEF CurOf, Queued
    <2> QED BY <1>1, <1>2, <1>3, <1>4, <2>1, <2>2, SettlingMoves
  <1> QED BY <1>5, <1>6

LEMMA CollectStep ==
  ASSUME IInv, NEW p \in Batches, Collect(p)
  PROVE  Ownership' /\ Shape' /\ Settling'
  <1>1. UNCHANGED <<enqueued, hpc, hjob, answer, answered, released, notified>>
    BY DEF Collect, StartCollect, Claim, ClaimStale, Filled, storeVars, apiVars, historyVars
  <1>2. Shape' /\ OnlySlot(p)
    BY CollectShape DEF IInv
  <1>3. CASE StartCollect(p) \/ Filled(p)
    <2>1. /\ UNCHANGED queue /\ Holds(p)' = Holds(p) /\ Rest(p)' \subseteq Rest(p)
          /\ step'[p] = "none"
      BY <1>3, CollectShape DEF IInv, Claim, ClaimStale, CanPop, StartCollect, Filled, At,
                                TypeInv, TypeOK
    <2>2. Ownership'
      BY <1>1, <1>2, <2>1, OwnershipKept, OnlySlotKeeps DEF IInv
    <2>3. CurOf(p)' /\ Queued' = Queued /\ Rest(p)' \cap answered = {}
      BY <2>1 DEF CurOf, Queued, IInv, Settling
    <2> QED BY <1>1, <1>2, <2>2, <2>3, SettlingMoves
  <1>4. CASE Claim(p) \/ ClaimStale(p)
    <2>1. /\ queue # <<>> /\ Pop(p) /\ Popped(p) \in Jobs
          /\ Holds(p)' \subseteq Holds(p) \cup {Popped(p)}
          /\ Rest(p)' \subseteq Rest(p) \cup {Popped(p)}
          /\ step'[p] \in {"none", "expire"}
          /\ step'[p] = "expire" => cur'[p] = Popped(p) /\ Popped(p) \notin Rest(p)'
      BY <1>4, CollectShape DEF IInv, Claim, ClaimStale, CanPop, StartCollect, Filled, At,
                                TypeInv, TypeOK
    <2>2. Popped(p) \in Queued /\ Queued' \subseteq Queued
      BY <2>1, PopTakes DEF IInv
    <2>3. Ownership'
      BY <1>1, <1>2, <2>1, OwnershipMoves DEF IInv
    <2>4. Popped(p) \notin answered
      BY <2>2 DEF IInv, Settling
    <2>5. CurOf(p)' /\ Rest(p)' \cap answered = {}
      BY <1>1, <2>1, <2>4 DEF CurOf, IInv, Settling
    <2> QED BY <1>1, <1>2, <2>2, <2>3, <2>5, SettlingMoves
  <1> QED BY <1>3, <1>4 DEF Collect

LEMMA SlotInv ==
  ASSUME IInv, NEW p \in Batches, SlotStep(p)
  PROVE  Ownership' /\ Shape' /\ Settling'
  <1>1. CASE Collect(p)
    BY <1>1, CollectStep
  <1>2. CASE Expire(p)
    <2>1. cur[p] \in Jobs /\ Publishes(p, cur[p]) /\ Publish(p, cur[p], "expired")
      BY <1>2 DEF Expire, Publishes, IInv, TypeInv, JobAtHand
    <2> QED BY <2>1, PublishStep DEF Terminal
  <1>3. CASE ExpireFails(p)
    BY <1>3, ExpireFailsStep
  <1>4. CASE Amend(p)
    <2>1. cur[p] \in Jobs /\ Publishes(p, cur[p]) /\ PublishOrAbandon(p, cur[p], "error")
      BY <1>4 DEF Amend, Publishes, IInv, TypeInv, JobAtHand
    <2> QED BY <2>1, PublishOrAbandonStep DEF Terminal
  <1>5. CASE Release(p) \/ Notify(p) \/ Discard(p) \/ Cleanup(p)
    BY <1>5, SettledStep
  <1>6. ASSUME NEW j \in Jobs, DecodeFails(p, j) \/ Reject(p, j) \/ Fail(p, j) \/ VerifyFails(p, j)
        PROVE  Ownership' /\ Shape' /\ Settling'
    <2>1. Publishes(p, j)
      BY <1>6 DEF Publishes, DecodeFails, Reject, Fail, VerifyFails, At
    <2>2. PublishOrAbandon(p, j, "done") \/ PublishOrAbandon(p, j, "error")
      BY <1>6 DEF DecodeFails, Reject, Fail, VerifyFails
    <2> QED BY <2>1, <2>2, PublishOrAbandonStep DEF Terminal
  <1>7. ASSUME NEW j \in Jobs, Verify(p, j)
        PROVE  Ownership' /\ Shape' /\ Settling'
    BY <1>7, VerifyStep
  <1>8. CASE \/ \E j \in Jobs : Decode(p, j)
             \/ DecodeEnds(p) \/ Prepare(p) \/ PrepareFails(p) \/ RejectEnds(p) \/ TakePermit(p)
             \/ Encode(p) \/ Search(p) \/ EncodeOrSearchFails(p) \/ FailEnds(p) \/ VerifyEnds(p)
    <2>1. /\ Shape' /\ OnlySlot(p) /\ Holds(p)' = Holds(p) /\ Rest(p)' \subseteq Rest(p)
          /\ step'[p] = "none"
          /\ UNCHANGED <<storeVars, apiVars, wpc, mishaps, historyVars>>
      BY <1>8, ProcessMoves DEF IInv
    <2>2. UNCHANGED <<queue, enqueued, hpc, hjob, answer, answered, released, notified>>
      BY <2>1 DEF storeVars, apiVars, historyVars
    <2>3. Ownership'
      BY <2>1, <2>2, OwnershipKept, OnlySlotKeeps DEF IInv
    <2>4. CurOf(p)' /\ Queued' = Queued /\ Rest(p)' \cap answered = {}
      BY <2>1, <2>2 DEF CurOf, Queued, IInv, Settling
    <2> QED BY <2>1, <2>2, <2>3, <2>4, SettlingMoves
  <1> QED BY <1>1, <1>2, <1>3, <1>4, <1>5, <1>6, <1>7, <1>8 DEF SlotStep, Settle, Process

-----------------------------------------------------------------------------
(* The invariant *)

THEOREM InitInv == Init => IInv
  <1> SUFFICES ASSUME Init PROVE IInv
    OBVIOUS
  <1>1. TypeInv
    BY InitType
  <1>2. Queued = {} /\ \A p \in Batches : Holds(p) = {} /\ Rest(p) = {}
    BY DEF Init, Queued, Holds, Rest, LiveReady, Collecting
  <1>3. Ownership
    BY <1>2 DEF Init, Ownership, ExclusiveClaim
  <1>4. Shape
    BY <1>2 DEF Init, Shape, ShapeOf
  <1>5. Settling
    BY <1>2 DEF Init, Settling, CurOf, Terminal
  <1> QED BY <1>1, <1>3, <1>4, <1>5 DEF IInv

(* Handlers hand jobs over; they settle nothing. *)
LEMMA ApiInv ==
  ASSUME IInv, NEW h \in Handlers,
         (\E r \in Routes, j \in Jobs : Begin(h, r, j)) \/ ApiStep(h) \/ ApiCrash(h)
  PROVE  Ownership' /\ Shape' /\ Settling'
  <1>1. Ownership'
    BY OwnershipApi DEF IInv
  <1>2. /\ UNCHANGED slotVars /\ UNCHANGED <<answered, released, notified>>
        /\ \/ UNCHANGED <<queue, answer, enqueued>>
           \/ PushJob(hjob[h]) /\ hpc[h] = "enqueue"
    BY DEF Begin, ApiStep, MeasureQueue, Decide, Upload, UploadFails, Enqueue, EnqueueFails, Undo,
           ApiCrash, storeVars, historyVars, slotVars
  <1>3. \A p \in Batches : Rest(p)' = Rest(p) /\ ShapeOf(p)' = ShapeOf(p)
                           /\ step'[p] = step[p] /\ cur'[p] = cur[p]
    BY <1>2 DEF slotVars, Rest, LiveReady, Collecting, ShapeOf
  <1>4. Shape'
    BY <1>3 DEF Shape, IInv
  <1>5. CASE UNCHANGED <<queue, answer, enqueued>>
    <2>1. Queued' = Queued /\ \A p \in Batches : CurOf(p)' = CurOf(p)
      BY <1>2, <1>3, <1>5 DEF Queued, CurOf
    <2> QED BY <1>1, <1>2, <1>3, <1>4, <1>5, <2>1 DEF IInv, Settling
  <1>6. CASE PushJob(hjob[h]) /\ hpc[h] = "enqueue"
    <2> DEFINE j == hjob[h]
    <2>1. j \in Jobs /\ j \notin enqueued /\ j \notin answered
      BY <1>6 DEF IInv, TypeInv, JobAtHand, Ownership, Settling
    <2>2. /\ Queued' = Queued \cup {j} /\ enqueued' = enqueued \cup {j}
          /\ answer' = [answer EXCEPT ![j] = "processing"]
      <3>1. queue' = Append(queue, j) /\ queue \in Seq(Jobs)
        BY <1>6 DEF PushJob, IInv, TypeInv, TypeOK
      <3> QED BY <1>6, <2>1, <3>1 DEF PushJob, Queued
    <2>3. ASSUME NEW p \in Batches PROVE CurOf(p)'
      <3>1. step[p] # "none" => cur[p] # j
        BY <2>1, ConstantsOK DEF IInv, Ownership, Holds, TypeInv, JobAtHand
      <3>2. CurOf(p) /\ step'[p] = step[p] /\ cur'[p] = cur[p]
        BY <1>3 DEF IInv, Settling
      <3>3. CASE step[p] = "none"
        BY <3>2, <3>3 DEF CurOf
      <3>4. CASE step[p] # "none"
        BY <1>2, <2>2, <3>1, <3>2, <3>4 DEF CurOf, IInv, TypeInv, TypeOK
      <3> QED BY <3>3, <3>4
    <2>4. \A i \in Jobs : answer'[i] \in Terminal => i \in answered
      BY <2>2 DEF IInv, Settling, Terminal, TypeInv, TypeOK
    <2> QED BY <1>1, <1>2, <1>3, <1>4, <2>1, <2>2, <2>3, <2>4 DEF IInv, Settling
  <1> QED BY <1>2, <1>5, <1>6

LEMMA WorkerInv ==
  ASSUME IInv, NEW w \in Workers,
         Start(w) \/ ZeroInflight(w) \/ Crash(w) \/ LoopFails(w)
  PROVE  Ownership' /\ Shape' /\ Settling'
  <1>1. UNCHANGED <<queue, enqueued, hpc, hjob, answer, answered, released, notified>>
    BY DEF Start, ZeroInflight, Crash, LoopFails, storeVars, apiVars, historyVars
  <1>2. CASE Start(w) \/ ZeroInflight(w)
    <2>1. UNCHANGED slotVars
      BY <1>2 DEF Start, ZeroInflight
    <2>2. /\ Queued' = Queued
          /\ \A p \in Batches : /\ Rest(p)' = Rest(p) /\ ShapeOf(p)' = ShapeOf(p)
                                /\ CurOf(p)' = CurOf(p) /\ Holds(p)' = Holds(p)
      BY <1>1, <2>1 DEF Queued, slotVars, Rest, LiveReady, Collecting, ShapeOf, CurOf, Holds
    <2>3. Ownership'
      BY <1>1, <2>2, OwnershipKept DEF IInv
    <2> QED BY <1>1, <2>2, <2>3 DEF IInv, Shape, Settling
  <1>3. CASE Crash(w) \/ LoopFails(w)
    <2>1. DropBatches(w)
      BY <1>3 DEF Crash, LoopFails, LoopDies
    <2>2. Shape' /\ Ownership'
      BY <1>1, <2>1, DropKeeps, OwnershipKept DEF IInv
    <2> QED BY <1>1, <2>1, <2>2, SettlingDrops
  <1> QED BY <1>2, <1>3

(* Time takes answers and photos away, or nothing happens. *)
LEMMA TimeInv ==
  ASSUME IInv, (\E j \in Jobs : Lapse(j) \/ Sweep(j)) \/ UNCHANGED vars
  PROVE  Ownership' /\ Shape' /\ Settling'
  <1>1. /\ UNCHANGED <<queue, enqueued, hpc, hjob, answered, released, notified>>
        /\ UNCHANGED slotVars
        /\ answer' = answer \/ \E j \in Jobs : answer' = [answer EXCEPT ![j] = "absent"]
    BY DEF Lapse, Sweep, vars, storeVars, apiVars, slotVars, historyVars
  <1>2. /\ Queued' = Queued
        /\ \A p \in Batches : /\ Rest(p)' = Rest(p) /\ ShapeOf(p)' = ShapeOf(p)
                              /\ Holds(p)' = Holds(p)
                              /\ step'[p] = step[p] /\ cur'[p] = cur[p]
    BY <1>1 DEF Queued, slotVars, Rest, LiveReady, Collecting, ShapeOf, Holds
  <1>3. \A i \in Jobs : answer'[i] \in {answer[i], "absent"}
    BY <1>1 DEF IInv, TypeInv, TypeOK
  <1>4. Ownership' /\ Shape'
    BY <1>1, <1>2, OwnershipKept DEF IInv, Shape
  <1>5. ASSUME NEW p \in Batches PROVE CurOf(p)'
    <2>1. step[p] # "none" => cur[p] \in Jobs
      BY DEF IInv, TypeInv, JobAtHand
    <2> QED BY <1>1, <1>2, <1>3, <2>1 DEF CurOf, IInv, Settling
  <1>6. \A i \in Jobs : answer'[i] \in Terminal => i \in answered'
    BY <1>1, <1>3 DEF IInv, Settling, Terminal
  <1> QED BY <1>1, <1>2, <1>4, <1>5, <1>6 DEF IInv, Settling

THEOREM NextInv == IInv /\ [Next]_vars => IInv'
  <1> SUFFICES ASSUME IInv, [Next]_vars PROVE IInv'
    OBVIOUS
  <1>1. TypeInv'
    BY NextType DEF IInv
  <1>2. Ownership' /\ Shape' /\ Settling'
    BY ApiInv, WorkerInv, SlotInv, TimeInv DEF Next
  <1> QED BY <1>1, <1>2 DEF IInv

THEOREM Invariance == Spec => []IInv
  BY InitInv, NextInv, PTL DEF Spec

(* BRPOP and LPOP from both ends of one list, by any number of workers and
   overlapping batches, never give one job to two batches. *)
THEOREM ClaimExclusive == Spec => []ExclusiveClaim
  <1>1. IInv => ExclusiveClaim
    BY DEF IInv, Ownership
  <1> QED BY <1>1, Invariance, PTL

(* However process_batch splits its batch and wherever it fails, a job is not
   published again or released twice once its unit is given back, is notified
   once, and only after an answer. *)
THEOREM SettledOnceOnly == Spec => []SettledOnce
  <1>1. IInv => SettledOnce
    BY DEF IInv, Settling, CurOf, SettledOnce
  <1> QED BY <1>1, Invariance, PTL

-----------------------------------------------------------------------------
(* The counter *)

Owed == enqueued \ released

LEMMA OwedFinite ==
  ASSUME TypeInv
  PROVE  IsFiniteSet(Owed) /\ Cardinality(Owed) \in Nat
  <1>1. IsFiniteSet(Jobs) /\ Owed \subseteq Jobs
    BY ConstantsOK DEF Owed, TypeInv, TypeOK
  <1> QED BY <1>1, FS_Subset, FS_CardinalityType

(* Neither the counter nor the jobs it stands for change. *)
LEMMA CountKept ==
  ASSUME InflightAccounting, UNCHANGED <<inflight, enqueued, released, zeroed>>
  PROVE  InflightAccounting'
  BY DEF InflightAccounting

LEMMA CountPush ==
  ASSUME IInv, InflightAccounting, NEW j \in Jobs, j \notin enqueued, PushJob(j),
         UNCHANGED <<released, zeroed>>
  PROVE  InflightAccounting'
  <1>1. j \notin released /\ inflight \in Nat
    BY DEF IInv, Settling, TypeInv, TypeOK
  <1>2. Owed' = Owed \cup {j} /\ j \notin Owed
    BY <1>1 DEF PushJob, Owed
  <1>3. Cardinality(Owed') = Cardinality(Owed) + 1 /\ Cardinality(Owed) \in Nat
    BY <1>2, OwedFinite, FS_AddElement DEF IInv
  <1> QED BY <1>1, <1>3 DEF InflightAccounting, Owed, PushJob

LEMMA CountRelease ==
  ASSUME IInv, IInv', InflightAccounting, NEW p \in Batches, Release(p)
  PROVE  InflightAccounting'
  <1>1. inflight \in Nat /\ UNCHANGED <<enqueued, zeroed>>
    BY DEF IInv, TypeInv, TypeOK, Release
  <1>2. CASE UNCHANGED <<inflight, released>>
    BY <1>1, <1>2, CountKept
  <1>3. CASE inflight' = Decrement(inflight) /\ released' = released \cup {cur[p]}
    <2>1. cur[p] \in enqueued /\ cur[p] \notin released
      BY DEF Release, IInv, Settling, CurOf
    <2>2. Owed' = Owed \ {cur[p]} /\ cur[p] \in Owed
      BY <1>1, <1>3, <2>1 DEF Owed
    <2>3. Cardinality(Owed') = Cardinality(Owed) - 1 /\ Cardinality(Owed) \in Nat
      BY <2>2, OwedFinite, FS_RemoveElement DEF IInv
    <2>4. Owed' \subseteq Jobs /\ Cardinality(Owed') \in Nat
      <3>1. IsFiniteSet(Jobs) /\ Owed' \subseteq Jobs
        BY ConstantsOK DEF Owed, IInv, TypeInv, TypeOK
      <3> QED BY <3>1, FS_Subset, FS_CardinalityType
    <2> QED BY <1>1, <1>3, <2>3, <2>4 DEF InflightAccounting, Owed, Decrement
  <1> QED BY <1>2, <1>3 DEF Release

LEMMA CountNext ==
  ASSUME IInv, IInv', InflightAccounting, [Next]_vars
  PROVE  InflightAccounting'
  <1>1. ASSUME NEW h \in Handlers,
               (\E r \in Routes, j \in Jobs : Begin(h, r, j)) \/ ApiStep(h) \/ ApiCrash(h)
        PROVE  InflightAccounting'
    <2>1. /\ UNCHANGED <<released, zeroed>>
          /\ \/ UNCHANGED <<inflight, enqueued>>
             \/ PushJob(hjob[h]) /\ hpc[h] = "enqueue"
      BY <1>1 DEF Begin, ApiStep, MeasureQueue, Decide, Upload, UploadFails, Enqueue,
                  EnqueueFails, Undo, ApiCrash, storeVars, historyVars
    <2>2. hpc[h] = "enqueue" => hjob[h] \in Jobs /\ hjob[h] \notin enqueued
      BY DEF IInv, TypeInv, JobAtHand, Ownership
    <2> QED BY <2>1, <2>2, CountPush, CountKept
  <1>2. ASSUME NEW w \in Workers, ZeroInflight(w) PROVE InflightAccounting'
    <2>1. Cardinality(Owed) \in Nat
      BY OwedFinite DEF IInv
    <2> QED BY <1>2, <2>1 DEF ZeroInflight, InflightAccounting, Owed
  <1>3. ASSUME NEW w \in Workers, Start(w) \/ Crash(w) \/ LoopFails(w) PROVE InflightAccounting'
    BY <1>3, CountKept DEF Start, Crash, LoopFails, storeVars, historyVars
  <1>4. ASSUME NEW p \in Batches, Release(p) PROVE InflightAccounting'
    BY <1>4, CountRelease
  <1>5. ASSUME NEW p \in Batches, SlotStep(p), ~Release(p) PROVE InflightAccounting'
    BY <1>5, CountKept
       DEF SlotStep, Collect, StartCollect, Claim, ClaimStale, Filled, Settle, Expire, ExpireFails,
           Amend, Notify, Discard, Process, Decode, DecodeFails, Reject, Fail, Verify, VerifyFails,
           DecodeEnds, Prepare, PrepareFails, RejectEnds, TakePermit, Encode, Search,
           EncodeOrSearchFails, FailEnds, VerifyEnds, Cleanup, Move, Publish, PublishOrAbandon,
           WriteFails, storeVars, historyVars
  <1>6. ASSUME (\E j \in Jobs : Lapse(j) \/ Sweep(j)) \/ UNCHANGED vars PROVE InflightAccounting'
    BY <1>6, CountKept DEF Lapse, Sweep, vars, storeVars, historyVars
  <1> QED BY <1>1, <1>2, <1>3, <1>4, <1>5, <1>6 DEF Next

(* inflight_jobs is never above the number of jobs pushed and not given back,
   and equals it until a reconcile resets it. *)
THEOREM InflightCounts == Spec => []InflightAccounting
  <1>1. Init => InflightAccounting
    <2> SUFFICES ASSUME Init PROVE InflightAccounting
      OBVIOUS
    <2>1. enqueued \ released = {} /\ inflight = 0
      BY DEF Init
    <2> QED BY <2>1, FS_EmptySet DEF InflightAccounting
  <1>2. IInv /\ InflightAccounting /\ [Next]_vars => InflightAccounting'
    BY CountNext, NextInv
  <1> QED BY <1>1, <1>2, Invariance, PTL DEF Spec

-----------------------------------------------------------------------------
(* Answers *)

(* The answer of job j may change from a to b while slot p amends it or not. *)
FinalFor(j) ==
  (answer[j] \in Terminal /\ answer'[j] # answer[j]) =>
    \/ answer'[j] = "absent"
    \/ answer[j] = "done" /\ answer'[j] = "error"
       /\ \E p \in Batches : step[p] = "amend" /\ cur[p] = j

LEMMA WriteFinal ==
  ASSUME IInv, NEW p \in Batches, NEW i \in Jobs, NEW s \in Terminal, Publishes(p, i),
         answer' = answer \/ answer' = [answer EXCEPT ![i] = s],
         step[p] = "amend" => s = "error"
  PROVE  \A j \in Jobs : FinalFor(j)
  <1> SUFFICES ASSUME NEW j \in Jobs, answer[j] \in Terminal, answer'[j] # answer[j]
               PROVE  /\ answer[j] = "done" /\ answer'[j] = "error"
                      /\ \E q \in Batches : step[q] = "amend" /\ cur[q] = j
    BY DEF FinalFor
  <1>1. j = i /\ answer'[j] = s
    BY DEF IInv, TypeInv, TypeOK
  <1>2. j \in answered
    BY DEF IInv, Settling
  <1>3. step[p] = "amend" /\ cur[p] = j
    BY <1>1, <1>2 DEF Publishes, IInv, Settling, CurOf, Rest
  <1>4. answer[j] = "done" /\ s = "error"
    BY <1>3 DEF IInv, Settling, CurOf, Terminal
  <1> QED BY <1>1, <1>3, <1>4

LEMMA NextFinal ==
  ASSUME IInv, [Next]_vars
  PROVE  \A j \in Jobs : FinalFor(j)
  <1>1. ASSUME UNCHANGED answer PROVE \A j \in Jobs : FinalFor(j)
    BY <1>1 DEF FinalFor
  <1>2. ASSUME NEW h \in Handlers,
               (\E r \in Routes, j \in Jobs : Begin(h, r, j)) \/ ApiStep(h) \/ ApiCrash(h)
        PROVE  \A j \in Jobs : FinalFor(j)
    <2>1. \/ UNCHANGED answer
          \/ PushJob(hjob[h]) /\ hpc[h] = "enqueue"
      BY <1>2 DEF Begin, ApiStep, MeasureQueue, Decide, Upload, UploadFails, Enqueue,
                  EnqueueFails, Undo, ApiCrash, storeVars
    <2>2. hpc[h] = "enqueue" => hjob[h] \in Jobs /\ answer[hjob[h]] \notin Terminal
      BY DEF IInv, TypeInv, JobAtHand, Ownership, Settling
    <2>3. CASE PushJob(hjob[h]) /\ hpc[h] = "enqueue"
      BY <2>2, <2>3 DEF PushJob, FinalFor, IInv, TypeInv, TypeOK
    <2> QED BY <1>1, <2>1, <2>3
  <1>3. ASSUME NEW w \in Workers, Start(w) \/ ZeroInflight(w) \/ Crash(w) \/ LoopFails(w)
        PROVE  \A j \in Jobs : FinalFor(j)
    BY <1>1, <1>3 DEF Start, ZeroInflight, Crash, LoopFails, storeVars
  <1>4. ASSUME NEW p \in Batches, NEW i \in Jobs, NEW s \in Terminal, PublishOrAbandon(p, i, s),
               Publishes(p, i), step[p] = "amend" => s = "error"
        PROVE  \A j \in Jobs : FinalFor(j)
    <2>1. answer' = answer \/ answer' = [answer EXCEPT ![i] = s]
      BY <1>4 DEF PublishOrAbandon, Publish, WriteFails, WriteStatus
    <2> QED BY <1>4, <2>1, WriteFinal
  <1>5. ASSUME NEW p \in Batches, NEW i \in Jobs,
               DecodeFails(p, i) \/ Reject(p, i) \/ Fail(p, i) \/ VerifyFails(p, i)
        PROVE  \A j \in Jobs : FinalFor(j)
    <2>1. Publishes(p, i) /\ step[p] = "none"
      BY <1>5 DEF Publishes, DecodeFails, Reject, Fail, VerifyFails, At
    <2>2. PublishOrAbandon(p, i, "done") \/ PublishOrAbandon(p, i, "error")
      BY <1>5 DEF DecodeFails, Reject, Fail, VerifyFails
    <2> QED BY <1>4, <2>1, <2>2 DEF Terminal
  <1>6. ASSUME NEW p \in Batches, NEW i \in Jobs, Verify(p, i)
        PROVE  \A j \in Jobs : FinalFor(j)
    <2>1. Publishes(p, i) /\ step[p] = "none"
      BY <1>6 DEF Publishes, Verify, At
    <2>2. answer' = answer \/ answer' = [answer EXCEPT ![i] = "done"]
      BY <1>6 DEF Verify, Publish, WriteFails, WriteStatus
    <2> QED BY <2>1, <2>2, WriteFinal DEF Terminal
  <1>7. ASSUME NEW p \in Batches, Expire(p) \/ ExpireFails(p)
        PROVE  \A j \in Jobs : FinalFor(j)
    <2>1. Publishes(p, cur[p]) /\ step[p] = "expire" /\ cur[p] \in Jobs
      BY <1>7 DEF Publishes, Expire, ExpireFails, IInv, TypeInv, JobAtHand
    <2>2. answer' = answer \/ answer' = [answer EXCEPT ![cur[p]] = "expired"]
      BY <1>7 DEF Expire, ExpireFails, Publish, WriteStatus
    <2> QED BY <2>1, <2>2, WriteFinal DEF Terminal
  <1>8. ASSUME NEW p \in Batches, Amend(p)
        PROVE  \A j \in Jobs : FinalFor(j)
    <2>1. Publishes(p, cur[p]) /\ cur[p] \in Jobs /\ PublishOrAbandon(p, cur[p], "error")
      BY <1>8 DEF Publishes, Amend, IInv, TypeInv, JobAtHand
    <2> QED BY <1>4, <2>1 DEF Terminal
  <1>9. ASSUME NEW p \in Batches,
               \/ Collect(p) \/ Release(p) \/ Notify(p) \/ Discard(p) \/ Cleanup(p)
               \/ \E j \in Jobs : Decode(p, j)
               \/ DecodeEnds(p) \/ Prepare(p) \/ PrepareFails(p) \/ RejectEnds(p) \/ TakePermit(p)
               \/ Encode(p) \/ Search(p) \/ EncodeOrSearchFails(p) \/ FailEnds(p) \/ VerifyEnds(p)
        PROVE  \A j \in Jobs : FinalFor(j)
    <2>1. UNCHANGED answer
      BY <1>9 DEF Collect, StartCollect, Claim, ClaimStale, Filled, Release, Notify, Discard,
                  Cleanup, Decode, DecodeEnds, Prepare, PrepareFails, RejectEnds, TakePermit,
                  Encode, Search, EncodeOrSearchFails, FailEnds, VerifyEnds, Move, storeVars
    <2> QED BY <1>1, <2>1
  <1>10. ASSUME NEW i \in Jobs, Lapse(i) PROVE \A j \in Jobs : FinalFor(j)
    BY <1>10 DEF Lapse, FinalFor, IInv, TypeInv, TypeOK
  <1>11. ASSUME NEW i \in Jobs, Sweep(i) PROVE \A j \in Jobs : FinalFor(j)
    BY <1>1, <1>11 DEF Sweep
  <1>12. CASE UNCHANGED vars
    BY <1>1, <1>12 DEF vars, storeVars
  <1> QED
    BY <1>2, <1>3, <1>5, <1>6, <1>7, <1>8, <1>9, <1>10, <1>11, <1>12
       DEF Next, SlotStep, Settle, Process

(* A terminal answer stays what it is until its key lapses; only a "done"
   whose write raised may still turn into an error. *)
THEOREM AnswersFinal == Spec => AnswerFinal
  <1>1. IInv /\ [Next]_vars =>
          [\A j \in Jobs :
             (answer[j] \in Terminal /\ answer'[j] # answer[j]) =>
               \/ answer'[j] = "absent"
               \/ answer[j] = "done" /\ answer'[j] = "error"
                  /\ \E p \in Batches : step[p] = "amend" /\ cur[p] = j]_answer
    BY NextFinal DEF FinalFor
  <1> QED BY <1>1, Invariance, PTL DEF Spec, AnswerFinal
=============================================================================
