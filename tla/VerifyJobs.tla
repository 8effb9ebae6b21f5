----------------------------- MODULE VerifyJobs -----------------------------
(***************************************************************************)
(* The asynchronous verification path: API handlers admit a request,       *)
(* store the photo in MinIO and push a job on a Redis list; worker         *)
(* processes pop jobs in batches, publish an answer under job:{id},        *)
(* release the inflight_jobs counter, notify the webhook and delete the    *)
(* photo.  Redis and MinIO survive every crash; API handlers and workers   *)
(* do not.                                                                 *)
(*                                                                         *)
(* One step is what one process does between two points where another      *)
(* process can act: a single Redis or MinIO command and the local work     *)
(* around it.  Environment mishaps (a crash, a command whose reply is      *)
(* lost, a key whose TTL lapses) are counted in mishaps and bounded by     *)
(* MaxMishaps.                                                             *)
(***************************************************************************)
EXTENDS Naturals, Sequences, FiniteSets

CONSTANTS
  Jobs,           \* job ids; a job and its MinIO object share the name
  NoJob,          \* "no job at hand"
  Handlers,       \* API requests that can be in progress at once
  Workers,        \* verify_worker processes
  Slots,          \* batch_slots permits of one worker (WORKER_MAX_ACTIVE_BATCHES)
  Routes,         \* subset of {"verify_async", "verify"}: who produces jobs
  BatchSize,      \* BATCH_SIZE
  EncodePermits,  \* ENCODE_CONCURRENCY
  InflightLimit,  \* VerifyJobQueue.inflight_limit()
  MaxQueueSize,   \* VerifyJobQueue.max_queue_size()
  ServiceSlots,   \* VerifyJobQueue.admission_active_service_slots()
  DelayBacklog,   \* least backlog whose estimated delay is refused
  WorkerExpiry,   \* ENABLE_WORKER_EXPIRY
  MaxMishaps      \* bound on the environment mishaps of a behaviour

ASSUME ConstantsOK ==
  /\ NoJob \notin Jobs
  /\ IsFiniteSet(Jobs) /\ IsFiniteSet(Handlers)
  /\ Routes \subseteq {"verify_async", "verify"}
  /\ {BatchSize, EncodePermits, InflightLimit, MaxQueueSize} \subseteq Nat \ {0}
  /\ {ServiceSlots, DelayBacklog, MaxMishaps} \subseteq Nat
  /\ WorkerExpiry \in BOOLEAN

VARIABLES
  queue,      \* Redis list face_verify_queue
  inflight,   \* Redis counter inflight_jobs
  answer,     \* Redis key job:{id}: the status it holds, or "absent"
  photo,      \* MinIO: the prefix an object is stored under, or "none"
  hpc,        \* per handler: what it does next
  hjob,       \* per handler: the job it is creating
  hlen,       \* per handler: the queue length it read
  hroute,     \* per handler: the route it serves
  wpc,        \* per worker process: "down", "zeroing" (inside reconcile) or "up"
  bpc,        \* per batch slot: the stage of collect_batch / process_batch
  batch,      \* per slot: job_datas, every job it popped
  todo,       \* per slot: jobs the current loop still has to visit
  ready,      \* per slot: batch_candidates, then ok_jobs
  cur,        \* per slot: the job being settled, or NoJob
  step,       \* per slot: what settling that job does next
  mishaps,    \* environment mishaps so far
  enqueued,   \* history: jobs ever pushed on the queue
  answered,   \* history: jobs for which a terminal answer became visible
  released,   \* history: jobs whose inflight unit was given back
  notified,   \* history: jobs whose webhook was dispatched
  zeroed      \* history: some reconcile has reset the counter

storeVars   == <<queue, inflight, answer, photo>>
apiVars     == <<hpc, hjob, hlen, hroute>>
slotVars    == <<bpc, batch, todo, ready, cur, step>>
historyVars == <<enqueued, answered, released, notified, zeroed>>
vars == <<storeVars, apiVars, wpc, slotVars, mishaps, historyVars>>

Batches  == Workers \X Slots
Terminal == {"done", "error", "expired"}
Statuses == {"absent", "processing"} \cup Terminal
Prefixes == {"none", "verify", "verify_async"}

TypeOK ==
  /\ queue \in Seq(Jobs)
  /\ inflight \in Nat
  /\ answer \in [Jobs -> Statuses]
  /\ photo \in [Jobs -> Prefixes]
  /\ hpc \in [Handlers -> {"idle", "measure", "decide", "upload", "enqueue", "undo"}]
  /\ hjob \in [Handlers -> Jobs \cup {NoJob}]
  /\ hlen \in [Handlers -> Nat]
  /\ hroute \in [Handlers -> {"verify_async", "verify"}]
  /\ wpc \in [Workers -> {"down", "zeroing", "up"}]
  /\ bpc \in [Batches -> {"free", "claim", "fill", "decode", "prepare", "reject", "encode",
                          "encoding", "search", "verify", "fail", "cleanup"}]
  /\ batch \in [Batches -> SUBSET Jobs]
  /\ todo \in [Batches -> SUBSET Jobs]
  /\ ready \in [Batches -> SUBSET Jobs]
  /\ cur \in [Batches -> Jobs \cup {NoJob}]
  /\ step \in [Batches -> {"none", "expire", "amend", "release", "notify", "discard"}]
  /\ mishaps \in 0 .. MaxMishaps
  /\ enqueued \subseteq Jobs /\ answered \subseteq Jobs
  /\ released \subseteq Jobs /\ notified \subseteq Jobs
  /\ zeroed \in BOOLEAN

Init ==
  /\ queue = <<>>
  /\ inflight = 0
  /\ answer = [j \in Jobs |-> "absent"]
  /\ photo = [j \in Jobs |-> "none"]
  /\ hpc = [h \in Handlers |-> "idle"]
  /\ hjob = [h \in Handlers |-> NoJob]
  /\ hlen = [h \in Handlers |-> 0]
  /\ hroute = [h \in Handlers |-> "verify_async"]
  /\ wpc = [w \in Workers |-> "down"]
  /\ bpc = [p \in Batches |-> "free"]
  /\ batch = [p \in Batches |-> {}]
  /\ todo = [p \in Batches |-> {}]
  /\ ready = [p \in Batches |-> {}]
  /\ cur = [p \in Batches |-> NoJob]
  /\ step = [p \in Batches |-> "none"]
  /\ mishaps = 0
  /\ enqueued = {} /\ answered = {} /\ released = {} /\ notified = {}
  /\ zeroed = FALSE

(* An environment mishap happens, if the bound still allows one. *)
Mishap == mishaps < MaxMishaps /\ mishaps' = mishaps + 1

Queued == {queue[i] : i \in DOMAIN queue}

(* Jobs a batch slot answers for: popped and not yet dropped by the slot. *)
Holds(p) == batch[p] \cup ({cur[p]} \ {NoJob})

-----------------------------------------------------------------------------
(* Admission and the API handlers *)

(* _evaluate_admission_from_values: the three refusals, with the estimated
   delay expressed as the backlog it is computed from. *)
Backlog(len, inf) ==
  LET waiting == IF inf > ServiceSlots THEN inf - ServiceSlots ELSE 0
  IN  IF len > waiting THEN len ELSE waiting

(* Mutant of Admits: limits compared with =< instead of <. *)
AdmitsAtLimit(len, inf) ==
  inf <= InflightLimit /\ len <= MaxQueueSize /\ Backlog(len, inf) < DelayBacklog

Admits(len, inf) ==
  /\ inf < InflightLimit
  /\ len < MaxQueueSize
  /\ Backlog(len, inf) < DelayBacklog

Fresh(j) ==
  /\ j \notin enqueued
  /\ photo[j] = "none"
  /\ \A h \in Handlers : hjob[h] # j

(* A handler returns its response (or dies): it forgets its job. *)
Leave(h) ==
  /\ hpc' = [hpc EXCEPT ![h] = "idle"]
  /\ hjob' = [hjob EXCEPT ![h] = NoJob]
  /\ hlen' = [hlen EXCEPT ![h] = 0]
  /\ UNCHANGED hroute

Goto(h, pc) ==
  /\ hpc' = [hpc EXCEPT ![h] = pc]
  /\ hlen' = [hlen EXCEPT ![h] = 0]
  /\ UNCHANGED <<hjob, hroute>>

(* A validated request: verify_async asks for admission first, the legacy
   routes upload first. *)
Begin(h, r, j) ==
  /\ hpc[h] = "idle" /\ Fresh(j)
  /\ hpc' = [hpc EXCEPT ![h] = IF r = "verify_async" THEN "measure" ELSE "upload"]
  /\ hjob' = [hjob EXCEPT ![h] = j]
  /\ hroute' = [hroute EXCEPT ![h] = r]
  /\ UNCHANGED <<storeVars, hlen, wpc, slotVars, mishaps, historyVars>>

(* evaluate_admission, first await: LLEN. *)
MeasureQueue(h) ==
  /\ hpc[h] = "measure"
  /\ hpc' = [hpc EXCEPT ![h] = "decide"]
  /\ hlen' = [hlen EXCEPT ![h] = Len(queue)]
  /\ UNCHANGED <<storeVars, hjob, hroute, wpc, slotVars, mishaps, historyVars>>

(* evaluate_admission, second await: GET inflight_jobs, then the decision.  A
   refusal answers 429 (verify_async) or 500 (legacy, photo left behind). *)
Decide(h) ==
  /\ hpc[h] = "decide"
  /\ IF Admits(hlen[h], inflight)
     THEN Goto(h, IF hroute[h] = "verify_async" THEN "upload" ELSE "enqueue")
     ELSE Leave(h)
  /\ UNCHANGED <<storeVars, wpc, slotVars, mishaps, historyVars>>

Upload(h) ==
  /\ hpc[h] = "upload"
  /\ photo' = [photo EXCEPT ![hjob[h]] = hroute[h]]
  /\ Goto(h, IF hroute[h] = "verify_async" THEN "enqueue" ELSE "measure")
  /\ UNCHANGED <<queue, inflight, answer, wpc, slotVars, mishaps, historyVars>>

(* put_object raises: the object may or may not be stored; no route deletes it. *)
UploadFails(h) ==
  /\ hpc[h] = "upload" /\ Mishap
  /\ \E stored \in {photo[hjob[h]], hroute[h]} :
       photo' = [photo EXCEPT ![hjob[h]] = stored]
  /\ Leave(h)
  /\ UNCHANGED <<queue, inflight, answer, wpc, slotVars, historyVars>>

(* Mutant of PushJob: INCR left out of the transaction. *)
PushJobUncounted(j) ==
  /\ queue' = Append(queue, j)
  /\ answer' = [answer EXCEPT ![j] = "processing"]
  /\ enqueued' = enqueued \cup {j}
  /\ UNCHANGED inflight

(* The MULTI of enqueue: RPUSH, SETEX "processing", LLEN, INCR, as one. *)
PushJob(j) ==
  /\ queue' = Append(queue, j)
  /\ answer' = [answer EXCEPT ![j] = "processing"]
  /\ inflight' = inflight + 1
  /\ enqueued' = enqueued \cup {j}

(* Mutant of Enqueue: the finally block of verify_async forgets to test
   enqueue_ok and removes the photo of an accepted job. *)
EnqueueThenUndo(h) ==
  /\ hpc[h] = "enqueue"
  /\ PushJob(hjob[h])
  /\ Goto(h, "undo")
  /\ UNCHANGED <<photo, wpc, slotVars, mishaps, answered, released, notified, zeroed>>

Enqueue(h) ==
  /\ hpc[h] = "enqueue"
  /\ PushJob(hjob[h])
  /\ Leave(h)
  /\ UNCHANGED <<photo, wpc, slotVars, mishaps, answered, released, notified, zeroed>>

(* EXEC raises: the transaction may or may not have been applied.  The counter
   is not taken back: inflight_incremented is still False. *)
EnqueueFails(h) ==
  /\ hpc[h] = "enqueue" /\ Mishap
  /\ \/ PushJob(hjob[h])
     \/ UNCHANGED <<queue, answer, inflight, enqueued>>
  /\ IF hroute[h] = "verify_async" THEN Goto(h, "undo") ELSE Leave(h)
  /\ UNCHANGED <<photo, wpc, slotVars, answered, released, notified, zeroed>>

(* verify_async's finally: best-effort removal of the photo after a failed enqueue. *)
Undo(h) ==
  /\ hpc[h] = "undo"
  /\ \/ photo' = [photo EXCEPT ![hjob[h]] = "none"] /\ UNCHANGED mishaps
     \/ UNCHANGED photo /\ Mishap
  /\ Leave(h)
  /\ UNCHANGED <<queue, inflight, answer, wpc, slotVars, historyVars>>

(* The API process serving this request dies, or its read of the figures or its
   thread raises: the client gets an error, nothing is undone. *)
ApiCrash(h) ==
  /\ hpc[h] # "idle" /\ Mishap
  /\ Leave(h)
  /\ UNCHANGED <<storeVars, wpc, slotVars, historyVars>>

-----------------------------------------------------------------------------
(* Worker processes: start, reconcile, crash *)

(* run_worker calls reconcile_inflight_state: it reads the queue length, then
   the counter and the claim and lease keys (which nothing writes). *)
Start(w) ==
  /\ wpc[w] = "down"
  /\ wpc' = [wpc EXCEPT ![w] = IF queue = <<>> THEN "zeroing" ELSE "up"]
  /\ UNCHANGED <<storeVars, apiVars, slotVars, mishaps, historyVars>>

(* SET inflight_jobs 0, on the strength of the length read earlier. *)
ZeroInflight(w) ==
  /\ wpc[w] = "zeroing"
  /\ inflight' = 0
  /\ zeroed' = TRUE
  /\ wpc' = [wpc EXCEPT ![w] = "up"]
  /\ UNCHANGED <<queue, answer, photo, apiVars, slotVars, mishaps,
                 enqueued, answered, released, notified>>

(* Every batch of worker w vanishes from memory. *)
DropBatches(w) ==
  /\ wpc' = [wpc EXCEPT ![w] = "down"]
  /\ bpc' = [p \in Batches |-> IF p[1] = w THEN "free" ELSE bpc[p]]
  /\ batch' = [p \in Batches |-> IF p[1] = w THEN {} ELSE batch[p]]
  /\ todo' = [p \in Batches |-> IF p[1] = w THEN {} ELSE todo[p]]
  /\ ready' = [p \in Batches |-> IF p[1] = w THEN {} ELSE ready[p]]
  /\ cur' = [p \in Batches |-> IF p[1] = w THEN NoJob ELSE cur[p]]
  /\ step' = [p \in Batches |-> IF p[1] = w THEN "none" ELSE step[p]]

(* The process is killed, at any point: popped jobs are not put back. *)
Crash(w) ==
  /\ wpc[w] # "down" /\ Mishap
  /\ DropBatches(w)
  /\ UNCHANGED <<storeVars, apiVars, historyVars>>

Collecting(p) == bpc[p] \in {"claim", "fill"}

(* Removing photos is best effort: a failed delete is logged and forgotten. *)
RemovePhotos(S) ==
  \E kept \in SUBSET S :
    /\ photo' = [j \in Jobs |-> IF j \in S \ kept THEN "none" ELSE photo[j]]
    /\ IF kept = {} THEN UNCHANGED mishaps ELSE Mishap

(* An exception leaves run_worker: asyncio.run cancels the batches in process,
   whose finally blocks still remove (some of) their photos. *)
LoopDies(w) ==
  /\ LET running == {p \in Batches : p[1] = w /\ ~Collecting(p)}
     IN  \E gone \in SUBSET UNION {batch[p] : p \in running} :
           photo' = [j \in Jobs |-> IF j \in gone THEN "none" ELSE photo[j]]
  /\ DropBatches(w)

(* A Redis error inside collect_batch (a pop whose reply is lost is a Claim
   followed by this step). *)
LoopFails(w) ==
  /\ wpc[w] = "up" /\ Mishap
  /\ \E p \in Batches : p[1] = w /\ Collecting(p)
  /\ \A p \in Batches : p[1] = w => step[p] = "none"
  /\ LoopDies(w)
  /\ UNCHANGED <<queue, inflight, answer, apiVars, historyVars>>

-----------------------------------------------------------------------------
(* collect_batch *)

(* The event loop of p's worker can run p: no other batch of that worker is in
   the middle of settling a job (a stretch of code without an await). *)
Scheduled(p) ==
  /\ wpc[p[1]] = "up"
  /\ \A q \in Batches : (q[1] = p[1] /\ q # p) => step[q] = "none"

(* Slot p is at stage pc and not settling a job. *)
At(p, pc) == Scheduled(p) /\ bpc[p] = pc /\ step[p] = "none"

(* run_worker acquires a batch slot and enters collect_batch: one at a time. *)
StartCollect(p) ==
  /\ At(p, "free")
  /\ \A q \in Batches : q[1] = p[1] => ~Collecting(q)
  /\ bpc' = [bpc EXCEPT ![p] = "claim"]
  /\ UNCHANGED <<storeVars, apiVars, wpc, batch, todo, ready, cur, step, mishaps, historyVars>>

(* The first job comes from the tail of the list (BRPOP), the others from its
   head (LPOP). *)
PopsTail(p) == bpc[p] = "claim"
Popped(p)   == IF PopsTail(p) THEN queue[Len(queue)] ELSE Head(queue)

(* Mutant of Pop: the head is read (LINDEX) and left in the list. *)
PopPeeking(p) == queue' = IF PopsTail(p) THEN SubSeq(queue, 1, Len(queue) - 1) ELSE queue

Pop(p)      == queue' = IF PopsTail(p) THEN SubSeq(queue, 1, Len(queue) - 1) ELSE Tail(queue)

(* BRPOP blocks in a thread, LPOP runs in one: both while the loop is busy. *)
CanPop(p) ==
  /\ wpc[p[1]] = "up" /\ step[p] = "none" /\ queue # <<>>
  /\ \/ bpc[p] = "claim"
     \/ bpc[p] = "fill" /\ Cardinality(batch[p]) < BatchSize

Claim(p) ==
  /\ CanPop(p)
  /\ Pop(p)
  /\ batch' = [batch EXCEPT ![p] = @ \cup {Popped(p)}]
  /\ bpc' = [bpc EXCEPT ![p] = "fill"]
  /\ UNCHANGED <<inflight, answer, photo, apiVars, wpc, todo, ready, cur, step,
                 mishaps, historyVars>>

(* The popped job is too old: it is expired on the spot and collecting goes on. *)
ClaimStale(p) ==
  /\ WorkerExpiry /\ CanPop(p) /\ Scheduled(p)
  /\ Pop(p)
  /\ cur' = [cur EXCEPT ![p] = Popped(p)]
  /\ step' = [step EXCEPT ![p] = "expire"]
  /\ UNCHANGED <<inflight, answer, photo, apiVars, wpc, bpc, batch, todo, ready,
                 mishaps, historyVars>>

(* The batch is full or LPOP found the list empty. *)
Filled(p) ==
  /\ At(p, "fill")
  /\ Cardinality(batch[p]) = BatchSize \/ queue = <<>>
  /\ bpc' = [bpc EXCEPT ![p] = "decode"]
  /\ todo' = [todo EXCEPT ![p] = batch[p]]
  /\ UNCHANGED <<storeVars, apiVars, wpc, batch, ready, cur, step, mishaps, historyVars>>

-----------------------------------------------------------------------------
(* Settling one job: publish, release, notify *)

(* SETEX job:{id} with the envelope of a terminal status. *)
WriteStatus(j, status) ==
  /\ answer' = [answer EXCEPT ![j] = status]
  /\ answered' = answered \cup {j}

(* The answer is written: the job leaves the loop, its unit is released next. *)
Publish(p, j, status) ==
  /\ WriteStatus(j, status)
  /\ cur' = [cur EXCEPT ![p] = j]
  /\ step' = [step EXCEPT ![p] = "release"]
  /\ todo' = [todo EXCEPT ![p] = @ \ {j}]
  /\ UNCHANGED <<queue, inflight, photo, apiVars, wpc, bpc, batch, ready, mishaps,
                 enqueued, released, notified, zeroed>>

(* The write raised; it may have been applied all the same. *)
WriteFails(j, status) ==
  /\ Mishap
  /\ \/ UNCHANGED <<answer, answered>>
     \/ WriteStatus(j, status)
  /\ UNCHANGED <<queue, inflight, photo, apiVars, wpc, batch,
                 enqueued, released, notified, zeroed>>

(* The exception leaves process_batch: only its finally block is left. *)
Abandon(p) ==
  /\ bpc' = [bpc EXCEPT ![p] = "cleanup"]
  /\ todo' = [todo EXCEPT ![p] = {}]
  /\ ready' = [ready EXCEPT ![p] = {}]
  /\ cur' = [cur EXCEPT ![p] = NoJob]
  /\ step' = [step EXCEPT ![p] = "none"]

PublishOrAbandon(p, j, status) ==
  \/ Publish(p, j, status)
  \/ WriteFails(j, status) /\ Abandon(p)

(* _reject_stale_job: the expired job is answered; if the write raises, the
   exception leaves collect_batch and ends the worker. *)
Expire(p) ==
  /\ Scheduled(p) /\ step[p] = "expire"
  /\ Publish(p, cur[p], "expired")

ExpireFails(p) ==
  /\ Scheduled(p) /\ step[p] = "expire" /\ Mishap
  /\ \/ UNCHANGED <<answer, answered>>
     \/ WriteStatus(cur[p], "expired")
  /\ LoopDies(p[1])
  /\ UNCHANGED <<queue, inflight, apiVars, enqueued, released, notified, zeroed>>

(* Mutant of Decrement: a plain DECR. *)
DecrementBlindly(n) == n - 1

(* DECR_SCRIPT *)
Decrement(n) == IF n = 0 THEN 0 ELSE n - 1

(* finalize_job: whatever the script's fate, _finalize_terminal_job goes on. *)
Release(p) ==
  /\ Scheduled(p) /\ step[p] = "release"
  /\ \/ /\ inflight' = Decrement(inflight)
        /\ released' = released \cup {cur[p]}
        /\ UNCHANGED mishaps \/ Mishap
     \/ Mishap /\ UNCHANGED <<inflight, released>>
  /\ step' = [step EXCEPT ![p] = IF Collecting(p) THEN "discard" ELSE "notify"]
  /\ UNCHANGED <<queue, answer, photo, apiVars, wpc, bpc, batch, todo, ready, cur,
                 enqueued, answered, notified, zeroed>>

Settled(p) ==
  /\ cur' = [cur EXCEPT ![p] = NoJob]
  /\ step' = [step EXCEPT ![p] = "none"]

(* _dispatch_webhook: not for expired jobs. *)
Notify(p) ==
  /\ Scheduled(p) /\ step[p] = "notify"
  /\ notified' = notified \cup {cur[p]}
  /\ Settled(p)
  /\ UNCHANGED <<storeVars, apiVars, wpc, bpc, batch, todo, ready, mishaps,
                 enqueued, answered, released, zeroed>>

(* Mutant of Discard: the photo of an expired job is left in the bucket. *)
DiscardNothing(p) ==
  /\ Scheduled(p) /\ step[p] = "discard"
  /\ Settled(p)
  /\ UNCHANGED <<storeVars, apiVars, wpc, bpc, batch, todo, ready, mishaps, historyVars>>

(* collect_batch removes the photo of an expired job itself. *)
Discard(p) ==
  /\ Scheduled(p) /\ step[p] = "discard"
  /\ RemovePhotos({cur[p]})
  /\ Settled(p)
  /\ UNCHANGED <<queue, inflight, answer, apiVars, wpc, bpc, batch, todo, ready, historyVars>>

-----------------------------------------------------------------------------
(* process_batch *)

Move(p, pc, t, r) ==
  /\ bpc' = [bpc EXCEPT ![p] = pc]
  /\ todo' = [todo EXCEPT ![p] = t]
  /\ ready' = [ready EXCEPT ![p] = r]
  /\ UNCHANGED <<storeVars, apiVars, wpc, batch, cur, step, mishaps, historyVars>>

(* The decode loop: download and decode; a failure is answered at once. *)
Decode(p, j) ==
  /\ At(p, "decode") /\ j \in todo[p]
  /\ photo[j] # "none"
  /\ Move(p, "decode", todo[p] \ {j}, ready[p] \cup {j})

DecodeFails(p, j) ==
  /\ At(p, "decode") /\ j \in todo[p]
  /\ PublishOrAbandon(p, j, "done")

(* With no candidate left the stages up to the final commit do nothing. *)
DecodeEnds(p) ==
  /\ At(p, "decode") /\ todo[p] = {}
  /\ Move(p, IF ready[p] = {} THEN "cleanup" ELSE "prepare", {}, ready[p])

(* Mutant of Prepare: candidates that are not fit are dropped unanswered. *)
PrepareForgetting(p) ==
  /\ At(p, "prepare")
  /\ \E ok \in SUBSET ready[p] : Move(p, "reject", {}, ok)

(* Some candidates turn out fit for encoding, the others are to be rejected;
   a ValueError rejects them all. *)
Prepare(p) ==
  /\ At(p, "prepare")
  /\ \E ok \in SUBSET ready[p] : Move(p, "reject", ready[p] \ ok, ok)

(* Mutant of PrepareFails: the failure loop runs over job_datas, not over the
   candidates that were decoded. *)
PrepareFailsForAll(p) ==
  /\ At(p, "prepare")
  /\ Move(p, "fail", batch[p], {})

(* Any other exception answers every candidate with an error. *)
PrepareFails(p) ==
  /\ At(p, "prepare")
  /\ Move(p, "fail", ready[p], {})

Reject(p, j) ==
  /\ At(p, "reject") /\ j \in todo[p]
  /\ PublishOrAbandon(p, j, "done")

RejectEnds(p) ==
  /\ At(p, "reject") /\ todo[p] = {}
  /\ Move(p, IF ready[p] = {} THEN "cleanup" ELSE "encode", {}, ready[p])

(* Mutant of TakePermit: a permit short. *)
TakeSparePermit(p) ==
  /\ At(p, "encode")
  /\ Cardinality({q \in Batches : q[1] = p[1] /\ bpc[q] = "encoding"}) < EncodePermits - 1
  /\ Move(p, "encoding", {}, ready[p])

(* encode_semaphore gates the encoder, per worker process. *)
TakePermit(p) ==
  /\ At(p, "encode")
  /\ Cardinality({q \in Batches : q[1] = p[1] /\ bpc[q] = "encoding"}) < EncodePermits
  /\ Move(p, "encoding", {}, ready[p])

Encode(p) ==
  /\ At(p, "encoding")
  /\ Move(p, "search", {}, ready[p])

Search(p) ==
  /\ At(p, "search")
  /\ Move(p, "verify", ready[p], ready[p])

(* Mutant of EncodeOrSearchFails: return without answering the jobs. *)
EncodeFailsSilently(p) ==
  /\ At(p, "encoding") \/ At(p, "search")
  /\ Move(p, "cleanup", {}, {})

(* Encoder or batch search raises: error for every ok job, then return. *)
EncodeOrSearchFails(p) ==
  /\ At(p, "encoding") \/ At(p, "search")
  /\ Move(p, "fail", ready[p], {})

Fail(p, j) ==
  /\ At(p, "fail") /\ j \in todo[p]
  /\ PublishOrAbandon(p, j, "error")

FailEnds(p) ==
  /\ At(p, "fail") /\ todo[p] = {}
  /\ Move(p, "cleanup", {}, {})

(* The verify loop: the answer is written; a failed write is followed by an
   attempt to write an error instead. *)
Verify(p, j) ==
  /\ At(p, "verify") /\ j \in todo[p]
  /\ \/ Publish(p, j, "done")
     \/ /\ WriteFails(j, "done")
        /\ cur' = [cur EXCEPT ![p] = j]
        /\ step' = [step EXCEPT ![p] = "amend"]
        /\ todo' = [todo EXCEPT ![p] = @ \ {j}]
        /\ UNCHANGED <<bpc, ready>>

Amend(p) ==
  /\ Scheduled(p) /\ step[p] = "amend"
  /\ PublishOrAbandon(p, cur[p], "error")

VerifyFails(p, j) ==
  /\ At(p, "verify") /\ j \in todo[p]
  /\ PublishOrAbandon(p, j, "error")

(* The session commit, successful or not, ends the batch. *)
VerifyEnds(p) ==
  /\ At(p, "verify") /\ todo[p] = {}
  /\ Move(p, "cleanup", {}, {})

(* The finally block: photos of every job of the batch, then the slot is free. *)
Cleanup(p) ==
  /\ At(p, "cleanup")
  /\ RemovePhotos(batch[p])
  /\ bpc' = [bpc EXCEPT ![p] = "free"]
  /\ batch' = [batch EXCEPT ![p] = {}]
  /\ UNCHANGED <<queue, inflight, answer, apiVars, wpc, todo, ready, cur, step, historyVars>>

-----------------------------------------------------------------------------
(* Time: key TTL and the bucket lifecycle rule *)

(* The 300 s TTL of job:{id} runs out. *)
Lapse(j) ==
  /\ answer[j] # "absent" /\ Mishap
  /\ answer' = [answer EXCEPT ![j] = "absent"]
  /\ UNCHANGED <<queue, inflight, photo, apiVars, wpc, slotVars, historyVars>>

(* Nothing can still reach for the photo: a day is longer than any request. *)
Unowned(j) ==
  /\ j \notin Queued
  /\ \A p \in Batches : j \notin Holds(p)
  /\ \A h \in Handlers : hjob[h] # j

(* Mutant of LifecycleCovers: a rule for the other prefix. *)
LifecycleCoversAsync(prefix) == prefix = "verify_async"

(* The bucket's lifecycle rule expires objects under the prefix verify/. *)
LifecycleCovers(prefix) == prefix = "verify"

Sweep(j) ==
  /\ LifecycleCovers(photo[j]) /\ Unowned(j)
  /\ photo' = [photo EXCEPT ![j] = "none"]
  /\ UNCHANGED <<queue, inflight, answer, apiVars, wpc, slotVars, mishaps, historyVars>>

-----------------------------------------------------------------------------
ApiStep(h) ==
  \/ MeasureQueue(h) \/ Decide(h) \/ Upload(h) \/ UploadFails(h)
  \/ Enqueue(h) \/ EnqueueFails(h) \/ Undo(h)

Collect(p) == StartCollect(p) \/ Claim(p) \/ ClaimStale(p) \/ Filled(p)

Settle(p) ==
  Expire(p) \/ ExpireFails(p) \/ Amend(p) \/ Release(p) \/ Notify(p) \/ Discard(p)

Process(p) ==
  \/ \E j \in Jobs : \/ Decode(p, j) \/ DecodeFails(p, j) \/ Reject(p, j)
                     \/ Fail(p, j) \/ Verify(p, j) \/ VerifyFails(p, j)
  \/ DecodeEnds(p) \/ Prepare(p) \/ PrepareFails(p) \/ RejectEnds(p)
  \/ TakePermit(p) \/ Encode(p) \/ Search(p) \/ EncodeOrSearchFails(p)
  \/ FailEnds(p) \/ VerifyEnds(p) \/ Cleanup(p)

SlotStep(p) == Collect(p) \/ Settle(p) \/ Process(p)

Next ==
  \/ \E h \in Handlers : \/ \E r \in Routes, j \in Jobs : Begin(h, r, j)
                         \/ ApiStep(h) \/ ApiCrash(h)
  \/ \E w \in Workers : Start(w) \/ ZeroInflight(w) \/ Crash(w) \/ LoopFails(w)
  \/ \E p \in Batches : SlotStep(p)
  \/ \E j \in Jobs : Lapse(j) \/ Sweep(j)

Spec == Init /\ [][Next]_vars
-----------------------------------------------------------------------------
(* Fairness.  asyncio runs every ready coroutine, the containers restart a
   dead worker (restart: unless-stopped), and MinIO scans its lifecycle rules
   daily.  No request has to arrive, and no mishap has to happen. *)
Fairness ==
  /\ \A h \in Handlers : WF_vars(ApiStep(h))
  /\ \A w \in Workers : WF_vars(Start(w) \/ ZeroInflight(w))
  /\ \A p \in Batches : WF_vars(SlotStep(p))
  /\ \A j \in Jobs : WF_vars(Sweep(j))

FairSpec == Spec /\ Fairness

-----------------------------------------------------------------------------
(* Safety *)

(* A job is in one place only: BRPOP and LPOP hand every job to at most one
   batch of one worker, and a job popped is no longer queued. *)
ExclusiveClaim ==
  /\ \A i, k \in DOMAIN queue : queue[i] = queue[k] => i = k
  /\ \A p \in Batches : Holds(p) \cap Queued = {}
  /\ \A p, q \in Batches : p # q => Holds(p) \cap Holds(q) = {}

(* The loops of process_batch settle a job once: no job is published or
   released after its unit was given back, nor notified twice, and nothing is
   given back or notified before an answer is visible. *)
SettledOnce ==
  /\ \A p \in Batches :
       /\ step[p] \in {"expire", "amend", "release"} => cur[p] \notin released
       /\ step[p] \in {"expire", "amend", "release", "notify"} => cur[p] \notin notified
  /\ released \cup notified \subseteq answered

(* inflight_jobs counts the jobs pushed and not yet given back.  A reconcile
   can only make it too small, never too large. *)
InflightAccounting ==
  LET owed == Cardinality(enqueued \ released)
  IN  inflight <= owed /\ (~zeroed => inflight = owed)

(* Admission reads its figures before the upload and the push, so concurrent
   requests overshoot the limits; by less than the number of requests. *)
AdmissionOvershoot ==
  /\ Len(queue) < MaxQueueSize + Cardinality(Handlers)
  /\ inflight < InflightLimit + Cardinality(Handlers)

(* A photo that nothing will read or delete any more and that the lifecycle
   rule does not cover is the trace of a mishap, never of a normal run. *)
StrayPhotoIsMishap ==
  \A j \in Jobs :
    (photo[j] \notin {"none", "verify"} /\ Unowned(j)) => mishaps > 0

(* Without mishaps no accepted job gets lost between the stages: it is queued,
   in a batch, or answered, released and (unless expired) notified. *)
NoLostJob ==
  mishaps = 0 =>
    \A j \in enqueued :
      \/ j \in Queued
      \/ \E p \in Batches : j \in todo[p] \cup ready[p] \cup {cur[p]} \cup
                               IF bpc[p] = "fill" THEN batch[p] ELSE {}
      \/ j \in answered \cap released /\ (j \in notified \/ answer[j] = "expired")

(* A terminal answer is final: after it a client sees the same answer or none
   (TTL).  The one exception is the error written after a "done" whose write
   raised although it had been applied. *)
AnswerFinal ==
  [][\A j \in Jobs :
       (answer[j] \in Terminal /\ answer'[j] # answer[j]) =>
         \/ answer'[j] = "absent"
         \/ answer[j] = "done" /\ answer'[j] = "error"
            /\ \E p \in Batches : step[p] = "amend" /\ cur[p] = j]_answer

(* The photo of a job still to be decoded is taken away by nobody but the
   route whose enqueue raised (although the push had been applied). *)
ToDecode == Queued \cup UNION {IF bpc[p] = "decode" THEN todo[p] ELSE
                               IF Collecting(p) THEN batch[p] ELSE {} : p \in Batches}

PhotoKeptForWorker ==
  [][\A j \in Jobs :
       (photo[j] # "none" /\ photo'[j] = "none" /\ j \in ToDecode /\ j \in ToDecode') =>
         mishaps > 0 /\ \E h \in Handlers : hpc[h] = "undo" /\ hjob[h] = j]_vars

-----------------------------------------------------------------------------
(* Liveness *)

(* Every accepted job gets an answer, but for a crash or a failed write, after
   which it may stay "processing" until its key lapses. *)
EveryJobAnswered == \A j \in Jobs : j \in enqueued ~> (j \in answered \/ mishaps > 0)

(* A batch that starts processing frees its slot again, whatever fails. *)
BatchEnds == \A p \in Batches : bpc[p] = "decode" ~> bpc[p] = "free"

(* No photo of the legacy routes stays in the bucket for ever: what a mishap
   leaves behind, the lifecycle rule removes. *)
LegacyPhotoLeaves == \A j \in Jobs : photo[j] = "verify" ~> photo[j] = "none"

(* No photo at all stays in the bucket for ever. *)
PhotoLeaves == \A j \in Jobs : photo[j] # "none" ~> photo[j] = "none"

(* After a restart, with no further mishap, the counter returns to zero once
   the queue is drained. *)
RestartRestoresInflight ==
  \A w \in Workers :
    (wpc[w] = "down" /\ mishaps = MaxMishaps)
      ~> (queue = <<>> /\ inflight = 0 /\ \A p \in Batches : batch[p] = {})

-----------------------------------------------------------------------------
(* Refinement: what the queue promises about each job. *)
phase == [j \in Jobs |->
  CASE j \notin enqueued -> "new"
    [] j \in answered -> "answered"
    [] j \in Queued \ answered -> "queued"
    [] OTHER -> IF \E p \in Batches : j \in Holds(p) THEN "claimed" ELSE "lost"]

Contract == INSTANCE JobContract WITH phase <- phase
ContractSpec == Contract!Spec
=============================================================================
