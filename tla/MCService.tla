----------------------------- MODULE MCService -----------------------------
(***************************************************************************)
(* One instance of the parts that surround the queue: preparation of a     *)
(* batch, verification, the legacy routes, the verdict of a challenge and  *)
(* the autoscaler.  They share no state here, so each behaviour runs one   *)
(* of them (part) and leaves the others in an initial state.               *)
(***************************************************************************)
EXTENDS BatchPreparation, Verification, VerifyRoutes, ChallengeVerdict,
        Autoscaler, TLC

CONSTANT Parts
VARIABLE part

-----------------------------------------------------------------------------
(* Photographs: an ordinary one, its face at the sizes that the gate tells
   apart, and one attribute at a time that differs. *)
Clean ==
  [encoding |-> "opencv", frame |-> <<960, 720>>, box |-> <<100, 40, 260, 240>>,
   faces |-> 1, landmarks |-> TRUE, faults |-> {}, worn |-> {}, live |-> "live"]
Middling == [Clean EXCEPT !.box = <<100, 40, 213, 240>>]
Small == [Clean EXCEPT !.box = <<100, 40, 200, 240>>]
Bare == [Clean EXCEPT !.landmarks = FALSE]
Outside == [Bare EXCEPT !.box = <<600, 40, 640, 90>>]
NoFace == [Clean EXCEPT !.faces = 0]
Blurred == [Clean EXCEPT !.faults = {"image_blurry"}]
Bases == {Clean, Middling, Small, Bare}

MCPhotos ==
  {Outside, [Blurred EXCEPT !.faults = @ \cup {"bad_pose", "bad_lighting"}]}
    \cup Bases
    \cup {[p EXCEPT !.faults = {f}] : p \in {Clean, Bare}, f \in Faults}
    \cup {[p EXCEPT !.worn = {w}] : p \in Bases, w \in Occlusions}
    \cup {[Clean EXCEPT !.encoding = e] : e \in {"heif", "broken"}}
    \cup {[Clean EXCEPT !.faces = n] : n \in {0, 2}}
    \cup {[Clean EXCEPT !.live = l] : l \in {"spoof", "fails"}}
MCBatches ==
  {<<p>> : p \in MCPhotos}
    \cup {<<p, q>> : p \in MCPhotos, q \in {Clean, NoFace, Blurred}}
    \cup {<<q, p>> : p \in MCPhotos, q \in {Clean, NoFace, Blurred}}
(* Two jobs of which one shows no face. *)
MCFacelessPairs == {<<NoFace, Clean>>, <<Clean, NoFace>>}

Settings(gate, pose, lighting, detects, liveness) ==
  [gate |-> gate, pose |-> pose, lighting |-> lighting, noise |-> pose,
   detects |-> detects, liveness |-> liveness, heif |-> gate = "hard"]
MCPolicies ==
  {Settings("soft", "off", "off", {"mask"}, TRUE)}
    \cup {Settings(gate, pose, lighting, Occlusions, gate = "hard" \/ pose = "hard") :
            gate \in {"hard", "soft"}, pose \in {"hard", "off"},
            lighting \in {"hard", "soft"}}

(* Verifications. *)
Features(status, reason, live) ==
  [status |-> status, reason |-> reason, live |-> live]
Case(image, claim, strict, features, top) ==
  [image |-> image, claim |-> claim, strict |-> strict, features |-> features,
   top |-> top]
Near(user, similarity) == [user |-> user, similarity |-> similarity]

MCRequestCases ==
  {Case("p", "ann", FALSE, Features("ok", None, TRUE), <<Near(1, 50), Near(2, 20)>>),
   Case("p", "1", FALSE, Features("quality_reject", None, None), <<>>),
   Case("q", "1", FALSE, Features("retry", None, None), <<>>),
   Case("p", "1", FALSE, Features("raised", "Invalid embedding vector", None), <<>>)}
MCJobCases ==
  {Case("p", "9", TRUE, Features("ok", None, FALSE), <<>>),
   Case("p", "ann", FALSE, Features("ok", None, TRUE), <<Near(1, 50), Near(2, 42)>>),
   Case("q", "1", FALSE, Features("ok", None, None), <<Near(1, 44)>>),
   Case("q", None, FALSE, Features("quality_reject", None, None), <<>>)}
MCRegistered == "ann" :> 1 @@ "1" :> 2 @@ "9" :> None
MCAsInteger == "ann" :> None @@ "1" :> 1 @@ "9" :> 9
MCBatch == <<"first", "second">>

(* Two submissions, on different routes. *)
Sent(kind, faults) == [kind |-> kind, faults |-> faults]
MCSubmissions == {"first", "second"}
MCCases ==
  [first |-> {Sent("async", {}), Sent("async", {"content"})},
   second |-> {Sent("file", {}), Sent("file", {"priority"}), Sent("base64", {}),
               Sent("base64", {"gate"})}]

(* Frames of a stream. *)
Face(box, ear, yaw, pitch, mouth, passive) ==
  [box |-> box, confidence |-> 90, ear |-> ear, yaw |-> yaw, pitch |-> pitch,
   mouth |-> mouth, passive |-> passive]
Resting == Face(<<10, 10, 30, 30>>, 30, 0, 50, 40, 90)
Winking == [Resting EXCEPT !.ear = 10]
Turning == Face(<<12, 10, 32, 30>>, 30, 30, 50, 50, 10)
Nodding == Face(<<10, 10, 30, 30>>, NoEar, -2, 70, 38, 90)
Away == [Resting EXCEPT !.box = <<40, 40, 60, 60>>]
Duplicate == [Resting EXCEPT !.box = <<11, 10, 31, 30>>, !.confidence = 80]
Bystander == [Away EXCEPT !.box = <<50, 50, 55, 55>>, !.confidence = 95]
MCFrames ==
  {<<>>, <<Resting>>, <<Bystander, Winking, Duplicate>>, <<Turning>>, <<Nodding>>,
   <<Away>>}

(* Loads. *)
MCLoads ==
  {[delay |-> 0, length |-> 0], [delay |-> 100, length |-> 10],
   [delay |-> 500, length |-> 0], [delay |-> 2000, length |-> 60]}

-----------------------------------------------------------------------------
(* The parts that do not run are left in one of their initial states. *)
Idle(p) ==
  CASE p = "batch" ->
         /\ claimed = <<Clean>>
         /\ policy = Settings("soft", "off", "off", {"mask"}, TRUE)
    [] p = "verify" ->
         asked = [v \in Verifications |->
           CHOOSE case \in (IF v \in Requests THEN RequestCases ELSE JobCases) : TRUE]
    [] p = "routes" ->
         submitted = [s \in Submissions |-> CHOOSE x \in SubmissionCases[s] : TRUE]
    [] p = "verdict" -> actions = {"blink", "nod"}
    [] p = "scale" -> workers = MinWorkers /\ load = [delay |-> 0, length |-> 0]

ServiceInit ==
  /\ part \in Parts
  /\ \A p \in {"batch", "verify", "routes", "verdict", "scale"} \ {part} : Idle(p)
  /\ VerifyInit /\ RouteInit /\ VerdictInit /\ ScaleInit /\ BatchInit

serviceVars == <<part, batchVars, verifyVars, routeVars, verdictVars, scaleVars>>

(* A step of one part. *)
Batched(A) ==
  /\ part = "batch" /\ A
  /\ UNCHANGED <<part, verifyVars, routeVars, verdictVars, scaleVars>>
Verified(A) ==
  /\ part = "verify" /\ A
  /\ UNCHANGED <<part, batchVars, routeVars, verdictVars, scaleVars>>
Routed(A) ==
  /\ part = "routes" /\ A
  /\ UNCHANGED <<part, batchVars, verifyVars, verdictVars, scaleVars>>
Judged(A) ==
  /\ part = "verdict" /\ A
  /\ UNCHANGED <<part, batchVars, verifyVars, routeVars, scaleVars>>
Scaled(A) ==
  /\ part = "scale" /\ A
  /\ UNCHANGED <<part, batchVars, verifyVars, routeVars, verdictVars>>

ServiceNext ==
  \/ Batched(DecodePhoto) \/ Batched(Judge) \/ Batched(DetectBatch)
  \/ Batched(FinishPhoto) \/ Batched(Prepared) \/ Batched(PreparationFails)
  \/ \E r \in Requests :
       \/ Verified(Start(r)) \/ Verified(Extract(r)) \/ Verified(Check(r))
       \/ Verified(Search(r)) \/ Verified(SearchFails(r))
  \/ \E log \in tasks : Verified(WriteLog(log))
  \/ \E image \in Images : Verified(LapseKey(image))
  \/ Verified(SkipJob) \/ Verified(CheckJob) \/ Verified(JudgeJob)
  \/ Verified(DatabaseFails) \/ Verified(CommitBatch) \/ Verified(SessionLost)
  \/ Verified(Restart)
  \/ \E s \in Submissions :
       \/ Routed(Gate(s)) \/ Routed(Inflight(s)) \/ Routed(Reserve(s))
       \/ Routed(Release(s)) \/ Routed(SetZero(s)) \/ Routed(CountRate(s))
       \/ Routed(SetExpiry(s)) \/ Routed(Validate(s)) \/ Routed(CreateRow(s))
       \/ Routed(UploadPhoto(s)) \/ Routed(EnqueueJob(s))
       \/ Routed(WorkerClaims(s)) \/ Routed(WorkerLoses(s))
       \/ \E outcome \in Terminal : Routed(WorkerAnswers(s, outcome))
       \/ Routed(AskResult(s)) \/ Routed(AskStatus(s)) \/ Routed(WaitJob(s))
       \/ Routed(StreamJob(s)) \/ Routed(EnvelopeLapses(s))
       \/ Routed(ProcessDies(s)) \/ Routed(ReleaseFails(s))
  \/ Routed(CounterLapses)
  \/ \E key \in {"verify", "verify_async"} : Routed(WindowEnds(key))
  \/ Judged(Judgement)
  \/ \E frame \in Frames : Judged(ObserveFrame(frame))
  \/ Scaled(Cycle) \/ Scaled(LoadChanges)

(* Route handlers and workers run on, a client goes on waiting for its job,
   and the loop of the autoscaler turns. *)
ServiceSpec ==
  /\ ServiceInit /\ [][ServiceNext]_serviceVars
  /\ \A s \in Submissions :
       /\ WF_serviceVars(Routed(Serve(s)))
       /\ WF_serviceVars(Routed(Work(s)))
       /\ WF_serviceVars(Routed(WaitJob(s)))
  /\ WF_serviceVars(Scaled(Cycle))

(* The state of every part is of its type. *)
ServiceTypeOK ==
  /\ BatchTypeOK /\ VerifyTypeOK /\ RouteTypeOK /\ VerdictTypeOK
  /\ ScaleTypeOK
=============================================================================
