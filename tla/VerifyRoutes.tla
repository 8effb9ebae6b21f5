---------------------------- MODULE VerifyRoutes ----------------------------
(***************************************************************************)
(* The legacy verification routes of app/api/routes/verify.py, from the    *)
(* arrival of a submission to what its client is told: the rate limiter,   *)
(* the counter of active requests of app/services/backpressure.py, the     *)
(* verification_jobs row, the hand-over to the queue, and the routes that  *)
(* report on a job (/verify_result, /jobs/{id}, /wait and /stream).        *)
(*                                                                         *)
(* Every submission is served by a process of its own; they share Redis    *)
(* and the database, and each call to Redis is a step.  Queue and workers  *)
(* are the JobContract that VerifyJobs implements.  Nothing in the program *)
(* writes the queue delay the routes read, so their mode is always         *)
(* "normal" and the inflight limit the largest one.                        *)
(***************************************************************************)
EXTENDS Integers, Sequences, FiniteSets, FiniteSetsExt

CONSTANTS Submissions,   \* one request, and its job, each
          Nobody,        \* no reply, no row, no envelope yet
          SubmissionCases, \* what each submission may be
          MaxActive,     \* active requests that MAX_ACTIVE_TASKS and
                         \* BACKPRESSURE_MAX_QUEUE_DELAY_MS allow
          InflightLimit, \* get_inflight_limit
          RateLimit,     \* requests of a client per window and key
          MaxRouteTroubles \* failures and expiries, together

VARIABLES submitted,  \* the route each submission takes and its faults
          at,         \* the step each is at
          reply,      \* what its client was answered
          slot,       \* it counted itself active and must take that back
          inSystem,   \* faceid:in_system
          rate,       \* the counter of the client, per key
          window,     \* that counter has an expiry set
          row,        \* verification_jobs
          phase,      \* the job, as the queue and its workers see it
          envelope,   \* job:{id}
          told,       \* the end of its job, as the client heard it
          routeLapses, routeMishaps

routeVars == <<submitted, at, reply, slot, inSystem, rate, window, row, phase,
               envelope, told, routeLapses, routeMishaps>>

Queue == INSTANCE JobContract WITH Jobs <- Submissions

(* The order in which each route does its checks. *)
Route ==
  [file   |-> <<"gate", "reserve", "rate", "validate", "row", "upload">>,
   async  |-> <<"gate", "inflight", "reserve", "rate", "validate", "row", "upload">>,
   base64 |-> <<"rate", "gate", "validate", "row", "upload">>]

(* What may be wrong with a submission; POST /verify_base64 sets the priority
   itself. *)
RouteFaults == {"gate", "content", "priority"}
Submission == [kind : DOMAIN Route, faults : SUBSET RouteFaults]

ASSUME RouteAssumption ==
  /\ {MaxActive, InflightLimit, RateLimit} \subseteq Nat \ {0}
  /\ MaxRouteTroubles \in Nat
  /\ IsFiniteSet(Submissions)
  /\ Nobody \notin {"pending", "refused", "limited", "failed"}
  /\ SubmissionCases \in [Submissions -> SUBSET Submission]
  /\ \A s \in Submissions : \A x \in SubmissionCases[s] :
       x.kind = "base64" => "priority" \notin x.faults

Steps == {"gate", "inflight", "reserve", "rate", "expire", "validate", "row",
          "upload", "enqueue", "release", "zero", "end", "dead"}
Terminal == {"done", "error", "expired"}

Troubles == routeLapses + routeMishaps

RouteTypeOK ==
  /\ submitted \in [Submissions -> Submission]
  /\ at \in [Submissions -> Steps]
  /\ reply \in [Submissions -> {Nobody, "pending", "refused", "limited", "failed"}]
  /\ slot \in [Submissions -> BOOLEAN]
  /\ inSystem \in Int
  /\ rate \in [{"verify", "verify_async"} -> Nat]
  /\ window \in [{"verify", "verify_async"} -> BOOLEAN]
  /\ row \in [Submissions -> {Nobody, "pending", "failed"}]
  /\ phase \in [Submissions -> Queue!Phases]
  /\ envelope \in [Submissions -> {Nobody, "processing"} \cup Terminal]
  /\ told \in [Submissions -> {Nobody} \cup Terminal]
  /\ routeLapses \in Nat /\ routeMishaps \in Nat
  /\ Troubles <= MaxRouteTroubles

RouteInit ==
  /\ submitted \in [Submissions -> Submission]
  /\ \A s \in Submissions : submitted[s] \in SubmissionCases[s]
  /\ at = [s \in Submissions |-> Route[submitted[s].kind][1]]
  /\ reply = [s \in Submissions |-> Nobody]
  /\ slot = [s \in Submissions |-> FALSE]
  /\ inSystem = 0
  /\ rate = [k \in {"verify", "verify_async"} |-> 0]
  /\ window = [k \in {"verify", "verify_async"} |-> FALSE]
  /\ row = [s \in Submissions |-> Nobody]
  /\ Queue!Init
  /\ envelope = [s \in Submissions |-> Nobody]
  /\ told = [s \in Submissions |-> Nobody]
  /\ routeLapses = 0 /\ routeMishaps = 0

-----------------------------------------------------------------------------
Fault(s, fault) == fault \in submitted[s].faults
RateKey(s) == IF submitted[s].kind = "base64" THEN "verify" ELSE "verify_async"

Proceed(s, step) ==
  LET route == Route[submitted[s].kind]
      i == CHOOSE k \in DOMAIN route : route[k] = step
  IN at' = [at EXCEPT ![s] = route[i + 1]] /\ UNCHANGED reply

(* Mutant of Conclude: the slot is taken back only after a success. *)
ConcludeKeeping(s, code, reserved) ==
  /\ reply' = [reply EXCEPT ![s] = code]
  /\ at' = [at EXCEPT ![s] =
              IF reserved /\ code = "pending" THEN "release" ELSE "end"]

(* The route ends; its finally clause takes the slot back. *)
Conclude(s, code, reserved) ==
  /\ reply' = [reply EXCEPT ![s] = code]
  /\ at' = [at EXCEPT ![s] = IF reserved THEN "release" ELSE "end"]

RouteMishap ==
  /\ Troubles < MaxRouteTroubles
  /\ routeMishaps' = routeMishaps + 1
NoRouteMishap == UNCHANGED <<routeLapses, routeMishaps>>

counters == <<slot, inSystem, rate, window>>
jobVars == <<row, phase, envelope>>

(* _resolve_liveness and its inline copies: an admission that needs an active
   challenge, or an invalid token, is turned away. *)
Gate(s) ==
  /\ at[s] = "gate"
  /\ IF Fault(s, "gate") THEN Conclude(s, "refused", slot[s]) ELSE Proceed(s, "gate")
  /\ UNCHANGED <<submitted, counters, jobVars, told>> /\ NoRouteMishap

(* verify_async_base64 first looks at the counter. *)
Inflight(s) ==
  /\ at[s] = "inflight"
  /\ IF inSystem >= InflightLimit
       THEN Conclude(s, "limited", FALSE) ELSE Proceed(s, "inflight")
  /\ UNCHANGED <<submitted, counters, jobVars, told>> /\ NoRouteMishap

(* try_reserve_slot: count oneself, and take that back if one is too many.
   When Redis fails, before or after it counted, nobody takes it back. *)
Admits(count) == count <= MaxActive
Reserve(s) ==
  /\ at[s] = "reserve"
  /\ \/ /\ inSystem' = inSystem + 1
        /\ slot' = [slot EXCEPT ![s] = TRUE]
        /\ IF Admits(inSystem + 1)
             THEN Proceed(s, "reserve") ELSE Conclude(s, "limited", TRUE)
        /\ UNCHANGED routeMishaps
     \/ /\ RouteMishap
        /\ inSystem' \in {inSystem, inSystem + 1}
        /\ Conclude(s, "failed", FALSE)
        /\ UNCHANGED slot
  /\ UNCHANGED <<submitted, rate, window, jobVars, told, routeLapses>>

(* decrement_active; below zero the counter is set to zero by a second call. *)
Release(s) ==
  /\ at[s] = "release"
  /\ inSystem' = inSystem - 1
  /\ slot' = [slot EXCEPT ![s] = FALSE]
  /\ at' = [at EXCEPT ![s] = IF inSystem - 1 < 0 THEN "zero" ELSE "end"]
  /\ UNCHANGED <<submitted, reply, rate, window, jobVars, told>> /\ NoRouteMishap

SetZero(s) ==
  /\ at[s] = "zero"
  /\ inSystem' = 0
  /\ at' = [at EXCEPT ![s] = "end"]
  /\ UNCHANGED <<submitted, reply, slot, rate, window, jobVars, told>>
  /\ NoRouteMishap

(* Mutant of OpensWindow: the counter is taken for its value before INCR. *)
OpensAtZero(count) == count = 0

(* RateLimiter.check: count the request; the first of a window sets the
   expiry.  A call that raises may have been applied. *)
OpensWindow(count) == count = 1
CountRate(s) ==
  /\ at[s] = "rate"
  /\ LET key == RateKey(s)
         count == rate[key] + 1
     IN \/ /\ rate' = [rate EXCEPT ![key] = count]
           /\ IF OpensWindow(count)
                THEN at' = [at EXCEPT ![s] = "expire"] /\ UNCHANGED reply
                ELSE IF count > RateLimit THEN Conclude(s, "limited", slot[s])
                ELSE Proceed(s, "rate")
           /\ UNCHANGED routeMishaps
        \/ /\ RouteMishap
           /\ Conclude(s, "failed", slot[s])
           /\ rate' \in {rate, [rate EXCEPT ![key] = count]}
  /\ UNCHANGED <<submitted, slot, inSystem, window, jobVars, told, routeLapses>>

SetExpiry(s) ==
  /\ at[s] = "expire"
  /\ \/ /\ window' = [window EXCEPT ![RateKey(s)] = TRUE]
        /\ Proceed(s, "rate")
        /\ UNCHANGED routeMishaps
     \/ /\ RouteMishap /\ Conclude(s, "failed", slot[s])
        /\ window' \in {window, [window EXCEPT ![RateKey(s)] = TRUE]}
  /\ UNCHANGED <<submitted, slot, inSystem, rate, jobVars, told, routeLapses>>

Validate(s) ==
  /\ at[s] = "validate"
  /\ IF Fault(s, "content")
       THEN Conclude(s, "refused", slot[s]) ELSE Proceed(s, "validate")
  /\ UNCHANGED <<submitted, counters, jobVars, told>> /\ NoRouteMishap

(* _enqueue_verify_job commits the row before it looks at the priority.  When
   the database fails, the row may be there all the same. *)
CreateRow(s) ==
  /\ at[s] = "row"
  /\ \/ /\ row' = [row EXCEPT ![s] = "pending"]
        /\ IF Fault(s, "priority")
             THEN Conclude(s, "refused", slot[s]) ELSE Proceed(s, "row")
        /\ UNCHANGED routeMishaps
     \/ /\ RouteMishap
        /\ row' \in {row, [row EXCEPT ![s] = "pending"]}
        /\ Conclude(s, "failed", slot[s])
  /\ UNCHANGED <<submitted, counters, phase, envelope, told, routeLapses>>

(* Something fails on the way to the queue.  The row says "pending" for ever if
   it was the making of the store's client, before the try, or if the row
   could not be updated either. *)
GivesUp(s) ==
  /\ RouteMishap
  /\ row' \in {row, [row EXCEPT ![s] = "failed"]}
  /\ Conclude(s, "failed", slot[s])

UploadPhoto(s) ==
  /\ at[s] = "upload"
  /\ \/ /\ at' = [at EXCEPT ![s] = "enqueue"]
        /\ UNCHANGED <<reply, row, routeMishaps>>
     \/ GivesUp(s)
  /\ UNCHANGED <<submitted, counters, phase, envelope, told, routeLapses>>

PushAndMark(s) ==
  /\ Queue!Accept(s)
  /\ envelope' = [envelope EXCEPT ![s] = "processing"]

(* The queue takes the job, or is too full for it, or breaks, before or after
   it took it. *)
EnqueueJob(s) ==
  /\ at[s] = "enqueue"
  /\ \/ /\ PushAndMark(s)
        /\ Conclude(s, "pending", slot[s])
        /\ UNCHANGED <<row, routeMishaps>>
     \/ /\ row' = [row EXCEPT ![s] = "failed"]
        /\ Conclude(s, "failed", slot[s])
        /\ UNCHANGED <<phase, envelope, routeMishaps>>
     \/ GivesUp(s) /\ UNCHANGED <<phase, envelope>>
     \/ GivesUp(s) /\ PushAndMark(s)
  /\ UNCHANGED <<submitted, counters, told, routeLapses>>

-----------------------------------------------------------------------------
(* The worker, by its contract. *)

WorkerClaims(s) ==
  /\ Queue!Claim(s)
  /\ UNCHANGED <<submitted, at, reply, counters, row, envelope, told>>
  /\ NoRouteMishap

WorkerAnswers(s, outcome) ==
  /\ Queue!Finish({s}, {})
  /\ envelope' = [envelope EXCEPT ![s] = outcome]
  /\ UNCHANGED <<submitted, at, reply, counters, row, told>> /\ NoRouteMishap

WorkerLoses(s) ==
  /\ RouteMishap /\ Queue!Finish({}, {s})
  /\ UNCHANGED <<submitted, at, reply, counters, row, envelope, told, routeLapses>>

-----------------------------------------------------------------------------
(* What a client that was given a job id hears. *)

(* get_verify_result: the envelope, or else the row, which no worker updates. *)
VerifyResult(s) == IF envelope[s] # Nobody THEN envelope[s] ELSE row[s]
(* get_job_status *)
JobStatus(s) == IF envelope[s] # Nobody THEN envelope[s] ELSE "not_found"
(* Mutant of Hit: only a job that is done ends the wait, as in stream_job. *)
HitDone(status) == status = "done"

(* wait_job: polls until the job is settled or the deadline passes. *)
Hit(status) == status \in Terminal \cup {"failed"}
WaitResult(s) == IF Hit(envelope[s]) THEN envelope[s] ELSE "processing"

(* Only an outcome is news to the client. *)
Hear(s, status) ==
  /\ reply[s] = "pending"
  /\ told' = IF status \in Terminal THEN [told EXCEPT ![s] = status] ELSE told
  /\ UNCHANGED <<submitted, at, reply, counters, jobVars>> /\ NoRouteMishap

AskResult(s) == Hear(s, VerifyResult(s))
AskStatus(s) == Hear(s, JobStatus(s))
WaitJob(s) == Hear(s, WaitResult(s))
(* stream_job says nothing until the job is done, and then ends. *)
StreamJob(s) == envelope[s] = "done" /\ Hear(s, "done")

-----------------------------------------------------------------------------
(* Expiry and failures. *)

RouteLapse ==
  /\ Troubles < MaxRouteTroubles
  /\ routeLapses' = routeLapses + 1
  /\ UNCHANGED routeMishaps

(* Nothing was reserved for a minute. *)
CounterLapses ==
  /\ inSystem # 0 /\ inSystem' = 0
  /\ RouteLapse
  /\ UNCHANGED <<submitted, at, reply, slot, rate, window, jobVars, told>>

WindowEnds(key) ==
  /\ window[key]
  /\ window' = [window EXCEPT ![key] = FALSE]
  /\ rate' = [rate EXCEPT ![key] = 0]
  /\ UNCHANGED <<submitted, at, reply, slot, inSystem, jobVars, told>>
  /\ NoRouteMishap

EnvelopeLapses(s) ==
  /\ envelope[s] # Nobody
  /\ envelope' = [envelope EXCEPT ![s] = Nobody]
  /\ RouteLapse
  /\ UNCHANGED <<submitted, at, reply, counters, row, phase, told>>

(* The process dies. *)
ProcessDies(s) ==
  /\ at[s] \notin {"end", "dead"} /\ RouteMishap
  /\ at' = [at EXCEPT ![s] = "dead"]
  /\ UNCHANGED <<submitted, reply, counters, jobVars, told, routeLapses>>

(* DECR fails and is swallowed. *)
ReleaseFails(s) ==
  /\ at[s] = "release" /\ RouteMishap
  /\ at' = [at EXCEPT ![s] = "end"]
  /\ UNCHANGED <<submitted, reply, counters, jobVars, told, routeLapses>>

Serve(s) ==
  \/ Gate(s) \/ Inflight(s) \/ Reserve(s) \/ Release(s) \/ SetZero(s)
  \/ CountRate(s) \/ SetExpiry(s) \/ Validate(s) \/ CreateRow(s)
  \/ UploadPhoto(s) \/ EnqueueJob(s)
Work(s) == WorkerClaims(s) \/ \E outcome \in Terminal : WorkerAnswers(s, outcome)

RouteNext ==
  \/ \E s \in Submissions :
       \/ Serve(s) \/ Work(s) \/ WorkerLoses(s)
       \/ AskResult(s) \/ AskStatus(s) \/ WaitJob(s) \/ StreamJob(s)
       \/ EnvelopeLapses(s) \/ ProcessDies(s) \/ ReleaseFails(s)
  \/ CounterLapses
  \/ \E key \in {"verify", "verify_async"} : WindowEnds(key)

RouteSpec == RouteInit /\ [][RouteNext]_routeVars

-----------------------------------------------------------------------------
Owing == {s \in Submissions : slot[s] /\ at[s] # "end"}
Living == {s \in Owing : at[s] # "dead"}
Active == {s \in Living : reply[s] = Nobody}

(* The counter of active requests can be trusted.  Until it expires under
   them, no more requests are active than it allows, and it counts everyone
   who has not given a slot back.  Whatever expiries and resets to zero cut
   across reservations, it counts nobody too many but one for every failure
   (a handler that dies keeps its slot); and without one it is back at zero
   when nobody is left to give a slot back. *)
SlotsAccounted ==
  /\ routeLapses = 0 =>
       Cardinality(Active) <= MaxActive /\ Cardinality(Owing) <= inSystem
  /\ inSystem <= Cardinality(Living) + routeMishaps
  /\ (Owing = {} /\ routeMishaps = 0
       /\ \A s \in Submissions : at[s] # "zero") => inSystem = 0

(* The rate counters that count without an expiry, and without a request about
   to set it: they refuse their client for ever. *)
Locked ==
  {key \in {"verify", "verify_async"} :
     /\ rate[key] > 0 /\ ~window[key]
     /\ \A s \in Submissions : RateKey(s) # key \/ at[s] # "expire"}

(* However requests interleave, windows end and processes die, nobody is
   locked out for longer than a window but by a failure between the two calls
   of RateLimiter.check, and by each at one counter only. *)
WindowSet == Cardinality(Locked) <= routeMishaps

(* A client that keeps waiting for its job hears how it ended, whatever the
   end was, unless the job was lost or the result expired unheard. *)
WaiterHears ==
  \A s \in Submissions :
    [](reply[s] = "pending" =>
         <>(told[s] # Nobody \/ phase[s] = "lost" \/ routeLapses > 0))
=============================================================================
