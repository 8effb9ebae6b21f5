---------------------------- MODULE Verification ----------------------------
(***************************************************************************)
(* From the features of a face to an answer and a row of verification_logs:*)
(* app/services/verification_service.py, run by synchronous requests       *)
(* (POST /verify) and, over one batch of jobs, by a worker (the loop of    *)
(* app/workers/verify_worker.py that follows preparation and search), with *)
(* the anti-replay keys they share in Redis.                               *)
(*                                                                         *)
(* A request extracts features in a thread, holding one of the permits of  *)
(* the process, and writes its log in a background task with a session of  *)
(* its own.  The jobs of a batch share one session: their logs are flushed *)
(* one by one, their answers published as they come, and the session is    *)
(* committed after the last.  So a job whose answer could not be published *)
(* is answered "error" and keeps the row that was flushed for it.          *)
(* Similarities are percentages.                                           *)
(***************************************************************************)
EXTENDS FaceGate, Functions

CONSTANTS Requests,     \* synchronous requests
          Batch,        \* the jobs of the worker's batch, in order
          RequestCases, \* what may be asked: see CaseOK
          JobCases,
          Users,        \* internal ids in the users table
          Registered,   \* external id -> internal id, None if not registered
          AsInteger,    \* external id -> its value as an integer, None if none
          Permits,      \* API_INFER_CONCURRENCY
          MaxSetbacks   \* failures and expiries of keys, together

HighThreshold == 45     \* HIGH_THRESHOLD
LowThreshold == 30      \* LOW_THRESHOLD
MarginLow == 5          \* CHALLENGE_MARGIN_LOW
MarginHigh == 20        \* CHALLENGE_MARGIN_HIGH
LivenessPerMille == 859 \* LIVENESS_THRESHOLD

JobSet == {Batch[i] : i \in DOMAIN Batch}
Verifications == Requests \cup JobSet
Claims == DOMAIN Registered

(* A case: the image sent (its hash), the external id claimed or None,
   whether liveness is required, what the pipeline made of the photograph and
   the neighbours the search returns, best first. *)
CaseOK(case) ==
  /\ case.claim \in Claims \cup {None}
  /\ case.strict \in BOOLEAN
  /\ case.features.status \in
       {"ok", "retry", "quality_reject", "spoof", "raised", "failed"}
  /\ case.top \in Seq([user : Users, similarity : Int])

Cases == RequestCases \cup JobCases

Statuses ==
  {"match", "low_confidence", "no_match", "retry", "quality_reject",
   "spoof_detected", "processing_failed", "error"}
Answers ==
  [status : Statuses, user : Users \cup {None},
   confidence : {"high", "medium", "low", None}, live : BOOLEAN \cup {None},
   replay : BOOLEAN, challenge : BOOLEAN]

(* POST /verify, the only caller of verify_face, does not require liveness.
   No request is a job, and no job is in the batch twice. *)
ASSUME CasesAssumption ==
  /\ \A case \in Cases : CaseOK(case)
  /\ \A case \in RequestCases : ~case.strict
  /\ IsFiniteSet(Verifications) /\ Requests \cap JobSet = {}
  /\ Batch \in Seq(JobSet)
  /\ \A i, k \in DOMAIN Batch : Batch[i] = Batch[k] => i = k
  /\ None \notin BOOLEAN \cup Answers
  /\ Permits \in Nat

VARIABLES asked,     \* the case of each verification
          stage,     \* where each request is
          permits,   \* free permits of the inference semaphore
          seen,      \* images whose anti-replay key is held
          replay,    \* what the anti-replay check said, None before it
          answer,    \* the answer given, None before it
          tasks,     \* logs that background tasks have yet to write
          next,      \* the position of the next job of the batch
          session,   \* the session of the batch: "open", "broken" by an
                     \* error of the database, "committed" or "lost"
          pending,   \* logs flushed in it
          logs,      \* rows of verification_logs
          lapses,    \* times the anti-replay key of an image expired
          failures

verifyVars == <<asked, stage, permits, seen, replay, answer, tasks, next,
                session, pending, logs, lapses, failures>>

Images == {case.image : case \in Cases}
Stages == {"new", "extracting", "extracted", "searching", "answered", "lost"}

VerifyTypeOK ==
  /\ asked \in [Verifications -> Cases]
  /\ stage \in [Requests -> Stages]
  /\ permits \in 0 .. Permits
  /\ seen \subseteq Images
  /\ replay \in [Verifications -> BOOLEAN \cup {None}]
  /\ answer \in [Verifications -> Answers \cup {None}]
  /\ next \in 1 .. Len(Batch) + 1
  /\ session \in {"open", "broken", "committed", "lost"}
  /\ lapses \in [Images -> Nat] /\ failures \in Nat

VerifyInit ==
  /\ \E ofRequests \in [Requests -> RequestCases], ofJobs \in [JobSet -> JobCases] :
       asked = [v \in Verifications |->
                  IF v \in Requests THEN ofRequests[v] ELSE ofJobs[v]]
  /\ stage = [r \in Requests |-> "new"]
  /\ permits = Permits
  /\ seen = {}
  /\ replay = [v \in Verifications |-> None]
  /\ answer = [v \in Verifications |-> None]
  /\ tasks = {} /\ pending = {} /\ logs = {}
  /\ next = 1 /\ session = "open"
  /\ lapses = [i \in Images |-> 0]
  /\ failures = 0

-----------------------------------------------------------------------------
(* Liveness, decision and answer. *)

(* LivenessService.fuse, in thousandths: signals are numbers or None. *)
Fuse(signals) ==
  LET Signal(s) == IF s = None THEN 0 ELSE s
  IN IF signals.passive # None
       THEN (600 * signals.passive + 250 * Signal(signals.texture)
               + 150 * Signal(signals.blur)) \div 1000
       ELSE (700 * Signal(signals.texture) + 300 * Signal(signals.blur)) \div 1000
LivenessPassed(signals) == Fuse(signals) >= LivenessPerMille
NoSignals == [passive |-> None, texture |-> None, blur |-> None]

(* extract_features hands a request an empty dict of signals, which is fused;
   a job's features have none, and the model's own verdict stands (no verdict
   is a score of zero). *)
LiveOf(v, features) ==
  IF v \in Requests THEN LivenessPassed(NoSignals) ELSE features.live = TRUE

Decide(top) ==
  IF top = <<>> THEN "no_match"
  ELSE IF top[1].similarity >= HighThreshold THEN "match"
  ELSE IF top[1].similarity <= LowThreshold THEN "no_match"
  ELSE "low_confidence"

Top(top) == IF top = <<>> THEN 0 ELSE top[1].similarity
Margin(top) == Top(top) - (IF Len(top) > 1 THEN top[2].similarity ELSE 0)
TopUser(top) == IF top = <<>> THEN None ELSE top[1].user

ConfidenceLabel(similarity, status) ==
  IF status \notin {"match", "low_confidence", "no_match"} THEN None
  ELSE IF similarity >= HighThreshold THEN "high"
  ELSE IF similarity >= LowThreshold THEN "medium"
  ELSE "low"

ChallengeRecommended(top) ==
  /\ Decide(top) = "match"
  /\ MarginLow < Margin(top) /\ Margin(top) < MarginHigh

Answer(status, user, confidence, live, flagged, challenge) ==
  [status |-> status, user |-> user, confidence |-> confidence, live |-> live,
   replay |-> flagged, challenge |-> challenge]

Decided(v, case, flagged) ==
  LET status == Decide(case.top) IN
  Answer(status, IF status = "match" THEN TopUser(case.top) ELSE None,
         ConfidenceLabel(Top(case.top), status), LiveOf(v, case.features),
         flagged, ChallengeRecommended(case.top))

(* The answers that need no search; None when one is needed. *)
Unsearched(v, case, flagged) ==
  LET status == case.features.status IN
  CASE status \in {"retry", "quality_reject"} ->
         Answer(status, None, None, None, flagged, FALSE)
    [] status = "spoof" \/ (case.strict /\ ~LiveOf(v, case.features)) ->
         Answer("spoof_detected", None, None, FALSE, flagged, FALSE)
    [] OTHER -> None

(* What verify_from_pipeline_result returns for v once its image is checked. *)
Result(v) ==
  LET early == Unsearched(v, asked[v], replay[v])
  IN IF early # None THEN early ELSE Decided(v, asked[v], replay[v])

(* What the worker tells the client of a job it could not verify or publish. *)
Error == Answer("error", None, None, None, FALSE, FALSE)

(* _verify_face_impl when the extraction raised. *)
ExtractionError(features) ==
  IF features.status = "failed"
    THEN Answer("processing_failed", None, None, FALSE, FALSE, FALSE)
  ELSE IF features.reason = "Invalid embedding vector"
    THEN Answer("no_match", None, ConfidenceLabel(0, "no_match"), None, FALSE,
                FALSE)
  ELSE Answer("processing_failed", None, None, None, FALSE, FALSE)

(* _resolve_is_genuine in its simple mode. *)
Genuine(case) ==
  IF case.claim = None THEN None
  ELSE Registered[case.claim] # None
       /\ TopUser(case.top) = Registered[case.claim]

-----------------------------------------------------------------------------
(* The log of an answer: whose it is, whether it counts as a success, and
   the owner of the face as far as it is known.  A refused photograph is
   logged under the claimed id read as a number; the task of a request
   compares the claim with nobody, and finds it false. *)

NumericClaim(case) == IF case.claim = None THEN None ELSE AsInteger[case.claim]

Log(v, user, success, genuine) ==
  [of |-> v, user |-> user, success |-> success, genuine |-> genuine]

GenuineOfRefused(v) == IF v \in Requests THEN FALSE ELSE None

(* Mutant of LogOf: a face that is only similar counts as a success. *)
LogOfSimilar(v, case, reply) ==
  IF reply.status \in {"match", "low_confidence", "no_match"}
    THEN Log(v, TopUser(case.top), reply.status # "no_match", Genuine(case))
    ELSE Log(v, NumericClaim(case), FALSE, GenuineOfRefused(v))

LogOf(v, case, reply) ==
  IF reply.status \in {"match", "low_confidence", "no_match"}
    THEN Log(v, TopUser(case.top), reply.status = "match", Genuine(case))
    ELSE Log(v, NumericClaim(case), FALSE, GenuineOfRefused(v))

(* A retry is not an outcome of verification and is not logged; neither is a
   failed extraction, nor an answer without a user. *)
LogDue(v, case, reply) ==
  IF \/ reply.status = "retry"
     \/ case.features.status \in {"raised", "failed"}
     \/ LogOf(v, case, reply).user = None
    THEN {} ELSE {LogOf(v, case, reply)}

Storable(log) == log.user \in Users

-----------------------------------------------------------------------------
(* Synchronous requests. *)

UNCHANGEDBatch == UNCHANGED <<next, session, pending>>

Setbacks == failures + FoldFunction(+, 0, lapses)
Setback == Setbacks < MaxSetbacks /\ failures' = failures + 1

Start(r) ==
  /\ stage[r] = "new" /\ permits > 0
  /\ permits' = permits - 1
  /\ stage' = [stage EXCEPT ![r] = "extracting"]
  /\ UNCHANGED <<asked, seen, replay, answer, tasks, logs, lapses, failures>>
  /\ UNCHANGEDBatch

(* Mutant of Released: the error path releases, and so does the end. *)
ReleasedTwice == permits + 2

(* The end of the thread; the permit is given back whatever it raised. *)
Released == permits + 1
Extract(r) ==
  /\ stage[r] = "extracting"
  /\ permits' = Released
  /\ LET features == asked[r].features IN
       IF features.status \in {"raised", "failed"}
         THEN /\ answer' = [answer EXCEPT ![r] = ExtractionError(features)]
              /\ stage' = [stage EXCEPT ![r] = "answered"]
         ELSE /\ stage' = [stage EXCEPT ![r] = "extracted"]
              /\ UNCHANGED answer
  /\ UNCHANGED <<asked, seen, replay, tasks, logs, lapses, failures>>
  /\ UNCHANGEDBatch

(* Mutant of Flagged: what SET NX returned is not looked at. *)
NeverFlagged(v) == FALSE

(* The anti-replay check of an image: set the key if it is absent.  A check
   that fails, before or after Redis set the key, lets the image pass as
   fresh. *)
Flagged(v) == asked[v].image \in seen
CheckReplay(v) ==
  \/ /\ replay' = [replay EXCEPT ![v] = Flagged(v)]
     /\ seen' = seen \cup {asked[v].image}
     /\ UNCHANGED failures
  \/ /\ Setback
     /\ replay' = [replay EXCEPT ![v] = FALSE]
     /\ seen' \in {seen, seen \cup {asked[v].image}}

Check(r) ==
  /\ stage[r] = "extracted"
  /\ CheckReplay(r)
  /\ LET reply == Unsearched(r, asked[r], replay'[r]) IN
       IF reply = None
         THEN /\ stage' = [stage EXCEPT ![r] = "searching"]
              /\ UNCHANGED <<answer, tasks>>
         ELSE /\ stage' = [stage EXCEPT ![r] = "answered"]
              /\ answer' = [answer EXCEPT ![r] = reply]
              /\ tasks' = tasks \cup LogDue(r, asked[r], reply)
  /\ UNCHANGED <<asked, permits, logs, lapses>>
  /\ UNCHANGEDBatch

Search(r) ==
  /\ stage[r] = "searching"
  /\ LET reply == Decided(r, asked[r], replay[r]) IN
       /\ answer' = [answer EXCEPT ![r] = reply]
       /\ tasks' = tasks \cup LogDue(r, asked[r], reply)
  /\ stage' = [stage EXCEPT ![r] = "answered"]
  /\ UNCHANGED <<asked, permits, seen, replay, logs, lapses, failures>>
  /\ UNCHANGEDBatch

(* The search, or the look at the claimed user, fails: the client gets a 500. *)
SearchFails(r) ==
  /\ stage[r] = "searching" /\ Setback
  /\ stage' = [stage EXCEPT ![r] = "lost"]
  /\ UNCHANGED <<asked, permits, seen, replay, answer, tasks, logs, lapses>>
  /\ UNCHANGEDBatch

(* _persist_verification_log_background: a log of an unknown user violates
   the foreign key, is rolled back and leaves no row.  Any other failure is
   only reported, and the row may be there or not. *)
WriteLog(log) ==
  /\ tasks' = tasks \ {log}
  /\ LET written == IF Storable(log) THEN logs \cup {log} ELSE logs IN
       \/ logs' = written /\ UNCHANGED failures
       \/ Setback /\ logs' \in {logs, written}
  /\ UNCHANGED <<asked, stage, permits, seen, replay, answer, lapses>>
  /\ UNCHANGEDBatch

-----------------------------------------------------------------------------
(* The worker's batch. *)

UNCHANGEDRequests == UNCHANGED <<asked, stage, permits, tasks, lapses>>

(* create_log without a commit.  Its rollback is that of the session: the
   logs flushed for the jobs before it go too. *)
Flush(due) ==
  IF \E log \in due : ~Storable(log) THEN {} ELSE pending \cup due

AtHand == session \in {"open", "broken"} /\ next <= Len(Batch)
Current == Batch[next]

(* A job whose photograph was refused was answered before this loop. *)
SkipJob ==
  /\ AtHand /\ asked[Current].features.status # "ok"
  /\ next' = next + 1
  /\ UNCHANGED <<session, pending, seen, replay, answer, logs, failures>>
  /\ UNCHANGEDRequests

CheckJob ==
  /\ AtHand /\ asked[Current].features.status = "ok" /\ replay[Current] = None
  /\ CheckReplay(Current)
  /\ UNCHANGED <<next, session, pending, answer, logs>>
  /\ UNCHANGEDRequests

(* The job at hand is past its check; it looks for the claimed user and
   flushes its log, if it has one. *)
InJudgement == AtHand /\ replay[Current] # None
UsesDatabase(j) ==
  \/ LogDue(j, asked[j], Result(j)) # {}
  \/ asked[j].claim # None /\ Unsearched(j, asked[j], replay[j]) = None
Judgeable == InJudgement /\ (session = "open" \/ ~UsesDatabase(Current))

(* The log is flushed, then the answer published with set_done.  When that
   raises, whether or not the answer was stored, the except branch answers
   the job with set_error; the log stays flushed. *)
JudgeJob ==
  /\ Judgeable
  /\ next' = next + 1
  /\ pending' = Flush(LogDue(Current, asked[Current], Result(Current)))
  /\ \/ answer' = [answer EXCEPT ![Current] = Result(Current)] /\ UNCHANGED failures
     \/ answer' = [answer EXCEPT ![Current] = Error] /\ Setback
  /\ UNCHANGED <<session, seen, replay, logs>>
  /\ UNCHANGEDRequests

(* An error of the database other than that of Flush also ends in the except
   branch, and leaves the session unusable: whatever job of the batch needs it
   afterwards fails too, and the commit stores nothing.  (A session with nothing
   flushed survives when no connection was to be had.) *)
DatabaseFails ==
  /\ InJudgement /\ UsesDatabase(Current)
  /\ next' = next + 1
  /\ \/ session = "broken" /\ UNCHANGED failures
     \/ session = "open" /\ Setback
  /\ session' \in IF pending = {} THEN {session, "broken"} ELSE {"broken"}
  /\ pending' = {}
  /\ answer' = [answer EXCEPT ![Current] = Error]
  /\ UNCHANGED <<seen, replay, logs>>
  /\ UNCHANGEDRequests

CommitBatch ==
  /\ next > Len(Batch)
  /\ \/ session = "open" /\ session' = "committed" /\ logs' = logs \cup pending
     \/ session = "broken" /\ session' = "lost" /\ UNCHANGED logs
  /\ pending' = {}
  /\ UNCHANGED <<next, seen, replay, answer, failures>>
  /\ UNCHANGEDRequests

-----------------------------------------------------------------------------
(* Expiry and failures. *)

LapseKey(image) ==
  /\ image \in seen /\ Setbacks < MaxSetbacks
  /\ seen' = seen \ {image}
  /\ lapses' = [lapses EXCEPT ![image] = @ + 1]
  /\ UNCHANGED <<asked, stage, permits, replay, answer, tasks, logs, failures>>
  /\ UNCHANGEDBatch

(* The worker dies, or cannot even publish an error, at a job whose answer may
   be out already; or the commit fails, which does not say that it was not
   applied. *)
SessionLost ==
  /\ session \in {"open", "broken"} /\ Setback
  /\ session' = "lost" /\ pending' = {}
  /\ \/ UNCHANGED answer
     \/ Judgeable /\ answer' = [answer EXCEPT ![Current] = Result(Current)]
     \/ InJudgement /\ answer' = [answer EXCEPT ![Current] = Error]
  /\ \/ UNCHANGED logs
     \/ next > Len(Batch) /\ session = "open" /\ logs' = logs \cup pending
  /\ UNCHANGED <<next, seen, replay>>
  /\ UNCHANGEDRequests

(* The API process restarts: its requests and background tasks are gone. *)
Restart ==
  /\ Setback
  /\ tasks' = {} /\ permits' = Permits
  /\ stage' = [r \in Requests |->
                 IF stage[r] \in {"new", "answered"} THEN stage[r] ELSE "lost"]
  /\ UNCHANGED <<asked, seen, replay, answer, logs, lapses>>
  /\ UNCHANGEDBatch

VerifyNext ==
  \/ \E r \in Requests : Start(r) \/ Extract(r) \/ Check(r) \/ Search(r)
                           \/ SearchFails(r)
  \/ \E log \in tasks : WriteLog(log)
  \/ SkipJob \/ CheckJob \/ JudgeJob \/ DatabaseFails
  \/ CommitBatch \/ SessionLost \/ Restart
  \/ \E image \in Images : LapseKey(image)

VerifySpec == VerifyInit /\ [][VerifyNext]_verifyVars

-----------------------------------------------------------------------------
(* An image is taken as fresh once per life of its key, however its requests
   and jobs interleave, plus once for every failed check; and it is flagged
   only if it was indeed checked for another verification before. *)
ReplayFlagged ==
  \A image \in Images :
    LET checked == {v \in Verifications :
                      asked[v].image = image /\ replay[v] # None}
        fresh == {v \in checked : ~replay[v]}
    IN /\ Cardinality(fresh) <= 1 + lapses[image] + failures
       /\ fresh # checked => fresh # {}

(* What may excuse a missing log of a job: a later job of its batch, or the
   job itself, whose numeric external id is nobody's internal id. *)
RolledBack(v) ==
  \E i, k \in DOMAIN Batch :
    /\ Batch[i] = v /\ i <= k /\ k < next
    /\ answer[Batch[k]] # None
    /\ \E log \in LogDue(Batch[k], asked[Batch[k]], answer[Batch[k]]) :
         ~Storable(log)

(* Jobs told of an error although they have a row. *)
Contradicted ==
  {j \in JobSet : answer[j] = Error /\ \E log \in logs \cup pending : log.of = j}

(* A row of verification_logs tells what the verification it is about came to,
   a success only for a match, and its client was told the same; unless a
   failure came between the flush and the answer, one for every job that was
   told of an error instead.  And without a failure no row that is due is
   missing, once its writer is done, but for those a rollback of the batch's
   session took along. *)
LogsAccounted ==
  /\ \A log \in logs :
       /\ Result(log.of).status # "retry"
       /\ log.success <=> Result(log.of).status = "match"
       /\ answer[log.of] = Result(log.of) \/ log.of \in Contradicted
  /\ Cardinality(Contradicted) <= failures
  /\ failures = 0 =>
       \A v \in Verifications :
         answer[v] # None =>
           \A log \in LogDue(v, asked[v], answer[v]) :
             log \in logs \cup tasks \cup pending
               \/ ~Storable(log) \/ RolledBack(v)
=============================================================================
