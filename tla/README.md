# Verification of faceid-core

TLA+ models, TLC runs and TLAPS proofs about the face verification service: the path of a
verification job from the API request to the answer a client reads, what the pipeline and the
decision make of a photograph, enrolment and search, the active liveness challenge, admission and
rate limits, webhook notifications, and the autoscaler.

## 1. The system

| component | source | state it keeps | operations |
|---|---|---|---|
| asynchronous verification path | `app/api/routes/verify_async.py`, `app/services/verify_job_queue.py`, `app/services/verify_result_store.py`, `app/workers/verify_worker.py`, `app/infrastructure/minio_client.py` | Redis list `face_verify_queue`, counter `inflight_jobs`, keys `job:{id}`; photos in MinIO; batches in worker memory | admission, upload, enqueue; `collect_batch`, `process_batch`, answers, `finalize_job`, cleanup; `reconcile_inflight_state`; lifecycle rule |
| legacy verify routes | `app/api/routes/verify.py`, `verification_job_repo.py` | row of `verification_jobs` | create row, upload, enqueue without prior admission, failed row |
| result delivery | `app/api/routes/job_status.py` | none (reads `job:{id}`) | poll, long poll, SSE stream |
| webhook delivery | `app/services/webhook_service.py` | idempotency keys in Redis, bounded in-process queue | notify, deliver with retries, synchronous notify |
| liveness challenge | `app/api/routes/liveness_challenge.py`, `liveness_token.py`, `app/ml/liveness/challenge.py` | challenge state and token in Redis | init, stream, verdict, issue/validate/consume token |
| enrolment and search | `embedding_service.py`, `search_service.py`, `faiss_index.py`, `embedding_repo.py` | table of templates, FAISS index per process, search cache in Redis | enrol, search, invalidate, rebuild |
| verification decision | `verification_service.py`, `verification_repo.py`, `anti_replay_service.py` | `verification_logs`, replay keys in Redis, inference semaphore | extract, check replay, decide, label, log; the log session of a batch |
| backpressure, rate limiting | `backpressure.py`, `rate_limiter.py` | `faceid:in_system`, rate counters | reserve, release, reset, count, set expiry |
| face pipeline, quality gate | `app/ml/pipeline_v2.py`, `app/ml/quality/image_quality_gate.py`, detector, preprocessor | none; indices of a batch | judge a photograph, alone or in a batch |
| autoscaler | `autoscaler/autoscaler.py` | number of worker containers, counters and clocks of the loop | measure, decide, scale |
| batch encoder | `app/ml/batch_encoder.py` | queue and futures of a thread, never used | encode, worker loop |
| calibration | `calibration_service.py`, `auto_calibration_service.py` | none | search for thresholds (offline scripts only) |

API handlers, workers, autoscaler and MinIO run as separate processes or services; they interact
only through Redis, PostgreSQL and MinIO.  Hard are: the interleaving of handlers with workers and
of the batches that overlap inside one worker; popping, which removes a job before anything has
been done for it; partial failure inside a batch; writes whose reply is lost; crashes at any point;
figures that are stale when they are used (admission, reconcile).  `PROJECT.json` lists each hazard
at its line with the properties that cover it.

## 2. Modules

| module | what it is |
|---|---|
| `VerifyJobs` | the asynchronous path: handlers, workers, batches, the Redis and MinIO state between them |
| `JobContract` | what the queue promises per job: accepted, claimed, then answered or lost; `VerifyJobs` is checked to implement it (`ContractSpec`) |
| `Enrolment` | enrolment and search: the tables, the FAISS index of each process, the search cache |
| `LivenessChallenge` | challenges, the streams that judge them, the tokens they yield and their consumption |
| `Webhooks` | webhook delivery: idempotency keys, the queue of each process, retries |
| `FaceGate` | what the pipeline and its quality gate decide about one photograph: operators |
| `BatchPreparation` | the photographs of a worker's batch prepared together, compared with `FaceGate` one by one |
| `Verification` | anti-replay, decision, answers and `verification_logs`, for requests and for a batch |
| `VerifyRoutes` | the legacy routes from arrival to what the client hears, composed with `JobContract` as their queue |
| `ChallengeVerdict` | the face followed, the detectors of actions and the verdict over the frames of a stream |
| `Autoscaler` | the loop that scales workers |
| `MCVerifyJobs`, `MCEnrolment`, `MCLivenessChallenge`, `MCWebhooks`, `MCService` | the instances for TLC; `MCService` holds the six modules above |
| `VerifyJobsProofs` | type correctness of `VerifyJobs`, the bound on admission overshoot |
| `VerifyJobsSettling` | exclusive claim, settling once, the counter and final answers |
| `VerifyJobsOutcome` | the refinement of `JobContract`, no lost job, the photos |
| `EnrolmentProofs`, `LivenessChallengeProofs`, `WebhooksProofs` | proofs about these modules |
| `VerificationProofs` | proofs about `FaceGate`, `BatchPreparation` and `Verification` |
| `ServiceProofs` | proofs about `Autoscaler`, `VerifyRoutes`, `ChallengeVerdict` and, from all parts, about `MCService` |

In every module an action is what one process does between two points where another can act: one
command to Redis, PostgreSQL or MinIO and the local work around it.  A command that raises may have
been applied.  Redis, PostgreSQL and MinIO are assumed to survive.  `mishaps` counts failed commands,
crashes and lapses that matter, and `MaxMishaps` bounds it; what a client may do at any time (leave,
cancel, send nothing) is no mishap.  Variables marked "history" exist for the properties only: no
guard reads them, except where a fresh id has to be one that was never used.

### VerifyJobs and the code

* **Handlers.** `hpc[h]` walks through `measure` (LLEN), `decide` (GET and the decision), `upload`,
  `enqueue` (one MULTI: RPUSH, SETEX, LLEN, INCR) and `undo` (the finally block).  `verify_async`
  decides before it uploads, the legacy routes (`_enqueue_verify_job`) after.  An overload found by
  a legacy route is a 500, and its photo stays.  `UploadFails`, `EnqueueFails` and `ApiCrash` are
  the error paths; a failed upload or EXEC may have been applied.
* **Admission.** `Admits` has the three refusals of `_evaluate_admission_from_values`.  The delay
  estimate is monotone in the backlog, so the limit on it is given as `DelayBacklog`, the least
  backlog that is refused.
* **Workers.** `Start` and `ZeroInflight` are `reconcile_inflight_state`: the length is read, then
  the counter set to zero.  Claim and lease keys are written nowhere in the source, so their
  count is zero.  A failing reconcile ends the process, as `Crash` does.
* **Batches.** `bpc[p]` is the stage of `collect_batch` / `process_batch`; `todo`, `ready` and
  `batch` are the jobs the current loop still visits, `batch_candidates` or `ok_jobs`, and
  `job_datas`.  Sets replace the lists: the order inside a batch is abstracted.  `step[p]` and
  `cur[p]` follow one job through publish, release (DECR script), notify or discard.
  Image processing is a choice: `Prepare` picks who is fit, the failure actions stand for its
  exceptions.
* **The event loop.** A worker is one asyncio loop.  Settling a job has no await, so `Scheduled`
  lets no other batch of the worker act meanwhile; BRPOP and LPOP run in threads and may.
  Between two jobs of the failure loops the model lets others act although the code does not
  await there: it has more behaviours, so what holds of it holds of the code.
* **Lost replies.** A write that raises may have been applied (`WriteFails`, `EnqueueFails`,
  `Release`).  A pop whose reply is lost is a `Claim` followed by `LoopFails`.  An exception in
  `collect_batch` ends `run_worker`; the batches in process are cancelled and their finally blocks
  may still delete photos (`LoopDies`).
* **Time.** `Lapse` is the TTL of `job:{id}`; `Sweep` the lifecycle rule, a day after nothing can
  reach for the photo any more (`Unowned`).

A job id is a fresh UUID, and the photo of a job goes by the job's name.

### Enrolment and the code

* **Requests.** `pc[h]` walks through `enroll_face`: `find` and `insert` (`get_or_create`), `image`
  (pipeline), `select` and `delete` (`delete_by_user_id`, which commits), `create`
  (`create_embedding`, which commits), `scan` and `purge` (`invalidate_cache`, `add_embedding`); or
  through `search_top_k`: `lookup`, `store` (FAISS), `topk`, `all`, `keep` (the table).  `/upload`
  starts at `find`, `/update-reference` at `image`.
* **Transactions.** `pending[u]` is the request whose open transaction has inserted user `u`; another
  INSERT of the same `external_id` waits for it and is refused if it commits.  `get_db` rolls back
  (`Rollback`).  SELECT sees committed rows.
* **The event loop.** The Redis client is synchronous, so between two of its calls no other request of
  the process runs (`Runs`): between SCAN and DEL, and between the FAISS search and SETEX.
* **Abstraction.** A vector is the template it was enrolled as; a query is the user whose face it
  shows; an answer is the set of templates of that user it was chosen from.  Thresholds and ranking
  are left out: the user is found if there is one such template.  FAISS is modelled as `search_service`
  uses it: what was added is found.
* `Restart` empties the process and rebuilds its index from the table (`lifespan`).

### LivenessChallenge and the code

* **Streams.** `pc[c]` walks through `stream`: `permit` (the challenge has been read and found fresh),
  `mark` (permit taken), `stream`, `finish` (verdict, token issued), `send`.  `chal[k]` has the values
  of the flags `used` and `streaming`; `Mark` and `Finish` write what the connection read before, with
  one flag changed, as the code does.  That the first two stages are apart in time is what
  `asyncio.wait_for` and the other processes cause.
* **Permits.** `permits[p]` is `_WS_SEM` of process `p`.  `Close` is the finally block.  `MarkFails` is
  the SETEX that stands before the try block.
* **Frames.** Reading and judging them is a choice between `Live` and `NotLive`; a client that leaves
  (`Disconnect`) may end the stream with or without a verdict, as the ASGI server reports it.
* **Tokens.** `Present` and `Claim` are the GET and the SET NX of `consume_liveness_token`.  Token and
  marker have the same TTL and the marker is set later, so `MarkerLapses` follows `TokenLapses`; a
  request that stays between its two commands beyond both is a mishap.

### Webhooks and the code

* `Notify`, `NotifySkipped` and `NotifyUnchecked` are `notify`: key taken, key there, Redis down.  There
  is no await between taking the key and `put_nowait`, so each is one action.
* `Take`, `Accepted` and `Rejected` are the background task `_run` with `_deliver_with_retries`;
  `posts` counts requests that reached the receiver, which after a timeout nobody knows (`MayReach`).
* `Crash` loses queue and request in progress, not the keys in Redis; `KeyLapses` is their TTL.

### FaceGate, BatchPreparation and the code

* **A photograph** is a record of what the measures would find: decodable or not, frame, box, number of
  faces, landmarks, thresholds missed, what covers the face, what the liveness model would say.  Boxes
  and sides are whole pixels; the code rounds floats.  A policy is the part of the settings that
  matters.
* `FaceGate` keeps the order of the checks and which mode softens which of them: `EvaluateImage` is
  `evaluate_image`, `EvaluateDetection` the later gates, `PrepareFromDetection` and `PrepareFaceInput`
  the same photograph within a batch and alone.
* `DecodePhoto` is the first loop of `process_batch`: what OpenCV decodes becomes a candidate, every other
  job is answered at once (`invalid_image`).  A photograph in HEIF is one of those, although the pipeline
  could read it: the worker's decoder is not the pipeline's.  So every candidate has an image, and
  `_prepare_face_inputs_sync` always takes `prepare_face_inputs_from_images`.
* `Judge`, `DetectBatch` and `FinishPhoto` are the three loops of `prepare_face_inputs_from_images`;
  `eligible` and `faces` are the lists that are matched by index (`FacesOf`).  A photograph that raises
  ends the loop, and `PreparationFails` is what the worker makes of that: it answers every candidate with
  the reason of the one that raised, while `Prepared` answers those that need no verification.

### Verification and the code

* **Requests.** `stage[r]`: the thread that extracts under the semaphore (`Start`, `Extract`), the
  anti-replay key (`Check`), FAISS or table (`Search`, `SearchFails`), the background log (`WriteLog`),
  which may fail before or after its commit.
* **The batch.** One turn of the worker's verify loop is `CheckJob`, the anti-replay key, then `JudgeJob` or
  `DatabaseFails`; `SkipJob` passes over a job answered before the loop.  The logs are flushed in one session (`pending`), which
  a flush that violates the foreign key rolls back as a whole (`Flush`); `CommitBatch` comes after the
  last answer was published.
* **The except branch.** The log of a job is flushed before its answer is published.  When `set_done`
  raises, the job is answered `error` and its row is committed with the others (`Contradicted`): a success
  in `verification_logs` whose client was told of an error.  When the database fails, the session is
  broken: every later job that needs it is answered `error`, and `CommitBatch` stores nothing.
* **Cases.** What is asked, what the pipeline found and whom the search returns is a case, out of a
  given set; similarities are percentages, compared with the thresholds of the settings.
* `LapseKey`, `SessionLost`, `Restart`: the key's TTL, a worker that dies, cannot publish an error or
  cannot commit (which may have been applied), an API process that loses its requests and background tasks.
* The rows of a refused photograph differ: the background task of a request compares the claim with nobody
  and stores `is_genuine` FALSE, the worker stores NULL (`GenuineOfRefused`).

### VerifyRoutes and the code

* `at[s]` is the step of the route; `Route` is the order each route takes them in.  Every call to Redis
  is a step: the reservation (`Reserve`: INCR and the comparison), its release, the reset to zero after
  a negative count (`SetZero`), the rate counter and, apart from it, its expiry.
* `Conclude` stands for a return or raise with the finally clause that takes the slot back.  A call that
  raises may have been applied: a reservation, a rate counter, its expiry, a row.
* `CreateRow` commits the row before the priority is looked at, and may fail with or without it.
  `GivesUp` is a failure of upload or enqueue: the row says `failed`, or still `pending`
  when it could not be updated, or when it was `MinioClient()`, which stands outside the try block.
* Queue and workers are `Queue == INSTANCE JobContract`, whose steps drive the envelope `job:{id}`.
  The `verification_jobs` row is written by the route only.
* `VerifyResult`, `JobStatus`, `WaitResult` and `StreamJob` are the four ways to ask for a result.

### ChallengeVerdict, Autoscaler and the code

* A frame is the list of faces in it with the signals measured on each.  `SelectMainFace` is
  `face_selection.py`; `DetectBlink`, `DetectTurn`, `DetectNod`, `DetectSmile`, `Consistent` and
  `VerifyChallengeStream` are the functions of `challenge.py`, with divisions multiplied out.
* `Cycle` is one turn of the autoscaler's loop.  `since` is the time since `last_scale_time`, capped
  where it stops to matter.  `FailedTurn` has the defaults the code takes for a reading that failed,
  and a scale command that failed but is taken for done.  `calm` and `steady` are history.

Operators whose comment starts with "Mutant of" are faulty variants of the definition they name;
no action uses them.  Each shows that a property does notice such a fault.

## 3. Runs

| run | instance | what it shows |
|---|---|---|
| `JobsWorkers` | 3 jobs, 2 requests, 2 workers with 1 slot, batches of 2, queue limit 1, counter limit 2, worker expiry on, 1 mishap | type correctness, settling once, the counter, overshoot of admission, no lost job, final answers, stray photos are traces of mishaps, photos kept for the worker, refinement of `JobContract` |
| `JobsFair` | 2 jobs of the legacy route, 1 request, 2 slots, 1 mishap, fair | jobs are answered unless a mishap happens; batches end and photos leave the bucket even then |
| `JobsAsyncPhotos` | 1 job of `verify_async`, 1 mishap, fair | fails: see findings |
| `JobsRestart` | 2 jobs, 1 worker, 1 mishap, fair | fails: see findings |
| `Enrol` | 1 user, unknown at first, 2 templates, 2 requests, 2 processes, 1 mishap, fair | number of templates, newest template kept, users left without any only by a failure between DELETE and INSERT, index and cache after an enrolment, every enrolment answered |
| `EnrolOneTemplate` | the same, 1 process, no FAISS, no mishap | fails: see findings |
| `EnrolForgotten` | the same, 1 process, FAISS, no mishap | fails: see findings |
| `Challenge` | 1 challenge, 3 connections, 2 processes with 1 permit, 2 tokens, 2 requests, 1 mishap, fair | late connections refused, permits kept, tokens used once, connections end |
| `ChallengePermits` | 2 connections, 1 token, 1 mishap | fails: see findings |
| `WebhookQueue` | 3 jobs, 2 processes with queues of 1, 2 attempts, 4 calls, 1 mishap, fair | one delivery per job, bounded requests, nothing stranded but by a failure of the process that holds it, everything settles |
| `Service` | one `part` per behaviour: a batch of 1 or 2 photographs under 9 policies; 2 requests with 1 permit and a batch of 2 jobs; 2 submissions, by `verify_async_base64` and by one of the other two routes, with limits of 1 on active requests, on those in flight and on the rate; streams of up to 5 frames; the autoscaler with 4 loads; 1 failure or expiry each, fair | a batch prepares like its photographs alone, covered faces are refused, replays are flagged, logs agree with answers, the active counter and the rate window and what a failure costs them, what a live verdict takes, waiting clients hear the end, workers shrink for a reason and converge |
| `BatchReasons` | 2 photographs, one of them without a face, the batch part alone | fails: see findings |

Why the bounds are enough.  *Jobs:* three jobs let one batch of two overlap with another job in any
place; two workers or two slots are the least at which claims and settlements interleave; with two
requests, limits of one and two are overshot.  `EncodePermits = 1` is the default of the code.
*Enrolment:* two requests for one user are the least at which replacements interleave; the second
process has an index of its own; creating the user makes them wait for each other.  With two
templates the count in `TemplatesBounded` cannot be exceeded, its second part can; the proof covers
any number.  *Challenge:* three connections are two that overlap and one that comes late; one
permit in a process makes it run out.  *Webhooks:* queues of one overflow, and of four calls for three
jobs one is a duplicate.  One mishap reaches every error path; the proofs cover any number.
*Service:* the parts share no state, so each behaviour runs one of them and leaves the others in an
initial state.  Two photographs are the least of which one can get the other's face, and every
fault stands first and second; two active requests where one is allowed overshoot; two requests and a
batch of which some send the same image meet at one replay key; a later job's log can roll
back an earlier one.  The detectors need four measured frames, so the instance takes four for
`LIVENESS_MIN_FRAMES` (six in the settings) and ends at five.  The loads are one each that the autoscaler
takes for low, for neither, for high and for extreme.  A property that excuses failures excuses one kind
of them, so one failure per behaviour shows what each kind does to the others.

Symmetry is used only where a run checks no liveness.  Deadlock is not checked: jobs, templates,
challenges and calls are finite, and an idle service stops.

**Fairness** (`FairSpec` of each module).
`VerifyJobs`: asyncio runs every ready coroutine, so each handler and each slot that can step does;
the containers are restarted (`restart: unless-stopped` in `docker-compose.yml`), so a worker that is
down starts; MinIO scans its lifecycle rules daily.
`Enrolment`: strong fairness of each request, because what it waits for may come and go: the loop of
its process is free again and again and serves ready coroutines first come first served, and
PostgreSQL wakes every transaction that waits for another when that one ends.
`LivenessChallenge`: each connection goes on: its waits have timeouts, its frames are limited.
`Webhooks`: the background task goes on: every attempt ends, if only by its timeout.
`Service`: route handlers and workers run on (as above), a client that waits polls again, and the
autoscaler's `while True` turns (its queries have timeouts; that `docker` commands end is assumed).
No request need arrive and no mishap need happen.

**Findings** (runs that fail):

* `JobsAsyncPhotos`: photos of `verify_async` live under `verify_async/`, the only lifecycle rule has
  the prefix `verify/`; a comment in the route relies on the rule.  After a crash, a failed delete or
  a failed upload such a photo stays.
* `JobsRestart`: `run_worker` is documented to bring the counter to zero after a restart; it does so
  only when the queue is empty, so the unit of a job lost in a crash stays counted if another job
  was queued.
* `EnrolOneTemplate`: "one template per user" does not hold for two enrolments of a user at once; each
  deletes what it selected before the other created its template.
* `EnrolForgotten`: a replaced template stays in the FAISS index, to which vectors are only added.
* `BatchReasons`: `prepare_face_inputs_from_images` raises for the first photograph without a usable
  face, and the worker answers every job of the batch with that photograph's status and reason, which
  comments there describe as meaningful to the client.
* `ChallengePermits`: the mark of a stream is written after its permit is taken and before the try
  block that returns it; a Redis failure there costs the process a permit until it restarts.

What else the models contain and no run states.  Against a comment: the mode of the pose check is called
independent of `QUALITY_GATE_MODE` (`image_quality_gate.py:300`), but its refusal is wrapped without that
mode (252), so a soft gate lets a bad pose through although the pose check is hard; and workers are to be
removed "only if stable low" (`autoscaler.py:145`), but a failed `docker ps` counts as two workers, and
scaling out from there under a high load removes some (the exception in `ShrinkExplained`).  Silently: nothing writes the queue
delay the routes read, so their mode is always "normal"; a synchronous request's liveness is fused from no
signals at all, so it never passes; `stream_job` goes on silently when a job ends other than done; no worker
updates the `verification_jobs` row; a numeric external id is logged as if it were an internal one; the
autoscaler's `REQUIRED_LOW_DELAY_CYCLES` is used nowhere (five low readings are needed, not three).
After failures: a handler that dies or fails between INCR and EXPIRE leaves a rate counter without expiry
(`Locked`), whose client is refused for ever once it counts too many; and when `set_done` fails after the
flush, the table keeps a success for a job that was answered `error` (`Contradicted`).  The properties bound
both by the number of failures.

## 4. Proofs

The proofs assume only the named assumptions on constants (`ConstantsOK`, `EnrolmentConstants`,
`ChallengeConstants`, `WebhookConstants`, `BatchAssumption`, `CasesAssumption`, `RouteAssumption`,
`VerdictAssumption`, `ScaleAssumption`): finite sets, positive limits, distinct names, photographs and cases of the right
shape.  They hold for any number of jobs, users, requests, processes, slots, calls, photographs in a
batch, frames in a stream, and mishaps.  Every safety invariant and action property of the passing runs
is proved.

*VerifyJobs*

* `TypeCorrect`: `TypeOK` is inductive together with `JobAtHand` (a busy handler has a job, a slot
  in the middle of settling has one).
* `AdmissionBounded`: `Room` is inductive: what is in the queue plus the handlers that will push
  without reading its length again is below limit plus number of handlers; a handler joins
  them only after it read a length below the limit.  The same for the counter.
* `ClaimExclusive` (`ExclusiveClaim`, whose failure a run would show as one of `SettledOnce` and
  `ContractSpec`), `SettledOnceOnly`: from the invariant `IInv`, in three parts.  `Ownership`: a job is
  with one handler, once in the queue, or with one batch, and what a handler has not pushed was never
  pushed.  `Shape`: how `todo`, `ready`, `batch` and `cur` of one batch relate at each stage; without it
  nothing says that the job being settled is not also still to be settled.  `Settling`: what a batch
  still has to settle (`Rest`) and what is queued is not answered, and what each step of settling
  knows of its job.
* `InflightCounts`: a push adds a job that was not owed, a release takes away one that was, both
  by `IInv`.
* `AnswersFinal`: from `IInv`, an answer is written only for a job not answered yet, except by the
  error path of the verify loop.
* `ImplementsContract`: every step maps to a step of `JobContract` or a stutter.  The phase of a job is
  computed from where it is (`PhaseNow`, `PhaseThen`); an answer or a loss changes it once, because by
  `IInv` nobody else has the job.  `Bare`, a slot that settles nothing has no job at hand, is what
  makes the end of settling a stutter.
* `NoJobLost`, `StrayPhotos`, `PhotosKept`: from `OutcomeInv`, which adds to `IInv` what holds while
  there was no mishap (`Smooth`): `Course`, what each stage of a batch has already done for its jobs;
  `Kept`, where an accepted job is; `Uploads` and `PhotoOwned`, who is to delete a photo.

*Enrolment*

* `Bounded`: `TemplatesBounded` says that no two rows of a user come from the same request slot.  It is
  not inductive: one has to know that what a slot committed for its user before is among the rows
  selected when it deletes, and gone when it creates (`Replacing`), that a request in progress has a
  template that no other has (`Prepared`), and that rows have owners and authors (`Registered`).
  The count follows by an injection from rows to slots.
* `NewestStays`, `IndexComplete`, `FreshAnswers`: from `Coherent`, which holds while there was no mishap, in
  three parts.  `Tables`: what a request selected for deletion is its own user's, so only an enrolment
  that will replace it removes the newest template.  `Indexes`: what was committed is in the index of its
  process or its enrolment is not over (`IndexHas`).  `Caches`: of one process only one request is between
  two Redis calls (`Alone`), so a search result about to be cached is what the index still holds
  (`StoreReads`), and an entry of this process is among the keys about to be deleted (`PurgeFinds`).
* `LostOnlyByCut`: every step is classified by what it does to the rows and to the requests
  (`StepKinds`: rows leave only in a `Delete`, which goes on to `create`; a request leaves `create` with
  its row or by a failure).  What remains is that a template in the table has a committed owner
  (`Enrolled`) and that a request deletes rows of its own user only (`SelectedOwned`), also under mishaps.

*LivenessChallenge*

* `TypeCorrect`, `Permits`: the two are proved together: that a returned permit fits under the limit
  needs the balance of permits and holders, and the balance needs that an open connection has a process
  (`Served`).
* `LateRefused`: a marked challenge is never fresh again (`Closed`), whatever overlapping streams write.
* `UsedOnce`: a token that was used and has lost its marker has expired, and no request holds it
  (`Spent`).

*Webhooks*

* `DeliveredOnce`, `Quiet`: without mishaps what is on its way went through its key, once, and has not
  been accepted (`OneWay`).  `Quiet` is `QuietAfterSuccess`, which no run repeats.
* `NothingVanishes` (`Accounted`, which `StrandedByMishap` contains): `Tracked`, every key set is in a
  place or settled; each step takes a job from one place to the next or settles it.
* `CallsBounded`: `PostsBounded` is not inductive.  `WithinQuota` is: the requests made for a job, and
  those its places may still make (`Chances`: the attempts left of the one in progress, `MaxRetries`
  for each that waits), are within `Quota`, `MaxRetries` for a key that was taken and for every mishap.
  A notification that waits has its whole budget, one in progress has paid for what it used.
* `StrandedOnlyByMishap`: each step keeps what every process holds until it settles it, but for a crash,
  which keeps what all others hold (`Kept`); and without a mishap nothing comes of a key that has nothing
  on its way (`NoneRevived`).

*FaceGate, BatchPreparation*

* `PreparedAsAlone`: `BatchInv` says of each loop what it has done so far: the gates are those of the
  photographs, `eligible` lists in order the ones that passed, `faces` are theirs, and what is prepared is
  what each photograph gets alone.  That the exception is the first one's needs that all before it
  went through.  `Setting` and `Reading` are the worker's part: the candidates are photographs it has
  decoded, so every image the pipeline is given decodes, and the pipeline starts when all are read.
* `CoveredRefused`: a photograph that is accepted alone is uncovered (`OkUncovered`): a face large enough
  for the gate has a crop large enough for the occlusion checks, which needs the geometry
  (`FaceBoxFits`, `LargeFaceHasCrop`).

*Verification*

* `VerifyTypeCorrect`: with the types go that free permits and extracting requests fit under the limit,
  and that a request that searches was checked.
* `ReplaysFlagged`: `Once`: a fresh verdict is paid for by the key's life or a failure; `Unchecked`: a
  verification that has not come to its check has no verdict yet.
* `LogsAgree`: `LogInv`: every log that is held, in the table or in the open session, was due for the result
  its verification came to, and the client was told that result, or was told of an error (`Backed`); there
  are no more of the latter than failures; a job whose turn has not come has no answer (`Unanswered`), and a log waits for the commit in an open
  session only (`Flushed`).  While there was no failure, what is due is held, or excused by a flush that was
  rolled back (`Kept`).

*ChallengeVerdict*

* `LiveIsEarned`: `VerdictInv`: the verdict of a stream is that of its frames.  What each detector returns
  takes two frames that differ by the action (`PerformedIsGesture`); a face cannot end turned both ways; and
  the passive model's share of the score cannot be made up for by the other shares (`PassiveShare`).
* `GroupsPartition`, `MainFaceStands`: for any detections in a frame, the groups of `select_main_face` have
  leaders that do not overlap and contain every detection once; the face followed represents its group, and
  no group is represented by one that outweighs it.
* The recursive functions of the module (sums, groups) are reasoned about by induction over the numbers
  up to a bound, which is derived from the well-foundedness of < (`LeastNumber`, `Induction`,
  `LoopRuns`), for the library's induction theorems cannot be instantiated here.

*Autoscaler, VerifyRoutes, composition*

* `ShrinkIsExplained`: without failures the loop's counter and clock agree with the history
  (`lowCount = calm`, `since = steady`), which `ScaleInv` states.
* `SlotsKept`, `WindowIsSet`: `RouteInv`.  `Places`: who has a slot and who owes its return by the step each
  request is at; `Counts`: the counter against the requests, from above by those not over (`Living`) and the
  failures, each of which leaves at most one unit behind, from below by `Owing` until the counter expires.
  `FewLocked`: a step leaves no rate counter without an expiry to come, or one at the cost of a failure.
* `RouteTypeCorrect`: the phases of jobs come from steps of `JobContract`, whose type is kept by each.
* `ServiceTypeCorrect`: from the lemma `PartsHold`.  Each behaviour runs one part and leaves the variables of
  the others alone, so each part's own lemma applies; the composition adds nothing to the theorems of the
  parts, it only shows that they hold of what the run `Service` checks.

Only model-checked: the liveness properties `EveryJobAnswered`, `BatchEnds`, `LegacyPhotoLeaves`,
`EnrolmentEnds`, `Settles`, `ConnectionEnds`, `WaiterHears` and `Converges`, because fairness is defined by
ENABLED, which the prover does not handle; and the runs that fail.

## 5. Plan

Done: every component with state of its own, and the safety properties of all runs.  Next: a property of
`VerifyRoutes` that relates reply, row and queue (a client with a job id has an accepted job and a row; any
other accepted job is the trace of a failure), with its proof; that `RouteSpec` drives its queue only as
`JobContract` allows; and the safety half of the liveness arguments, the measures that decrease.

## 6. Not modelled

* **Numbers of image processing** (ONNX models, pixel statistics, landmark formulas): no shared state; what
  they find is an attribute of a photograph or a signal of a frame.  Loading of models.
* **Batch encoder**: its queue is never used.  `encode` queues a crop only if two are queued already, and
  nothing else fills the queue; the pipeline calls `encode_batch`, which does not use it.
* **Calibration**: a stateless search, called by offline scripts only.
* **Stand-alone liveness route**: it returns the score of `FaceGate` and changes nothing.
* **Enrolment**: the worker's batch search reads the same index and table as `search_top_k` and is part of
  `Search` in `VerifyJobs`; the optional persistence of the FAISS index is off by default.
* **Monitoring**: metrics and logs are written, never read by the program (what Prometheus reports to the
  autoscaler is an input of `Autoscaler`).
* **Application shell**: configuration, authentication and wiring are constant.
* **Offline tools and demo**: evaluation, load tests and the demo page are outside the service.
