-------------------------- MODULE BatchPreparation --------------------------
(***************************************************************************)
(* How the worker prepares the photographs of one batch together: the      *)
(* first half of process_batch of app/workers/verify_worker.py, with       *)
(* prepare_face_inputs_from_images of app/ml/pipeline_v2.py, and what the  *)
(* jobs that need no verification are answered.                            *)
(*                                                                         *)
(* The worker decodes every photograph with OpenCV and answers the jobs    *)
(* whose photograph it cannot decode; the others become candidates.  The   *)
(* pipeline then handles the candidates in three loops: every image is     *)
(* judged, the detector runs over the ones that passed, and the faces are  *)
(* matched back to their images by index and judged.  An exception in a    *)
(* loop of the pipeline leaves all the candidates without results.         *)
(***************************************************************************)
EXTENDS FaceGate, Functions

CONSTANTS Batches,       \* the batches considered: sequences of photographs
          BatchPolicies  \* the settings considered

VARIABLES claimed,    \* job_datas: the photographs of the jobs popped
          read,       \* how many of them were decoded
          candidates, \* batch_candidates: positions of the jobs in claimed
          policy,     \* the settings of the process
          gates,      \* image_qualities, one verdict per image judged
          eligible,   \* eligible_indices: the images that passed
          faces,      \* eligible_fast_faces_list, None before detection
          prepared,   \* results
          error,      \* the exception that ended the preparation
          answers,    \* what each job is told, None while it has no answer
          over        \* the preparation is over: what has no answer yet is
                      \* verified next

batchVars ==
  <<claimed, read, candidates, policy, gates, eligible, faces, prepared, error,
    answers, over>>

(* What the queue hands over are batches of photographs; None is no
   outcome. *)
ASSUME BatchAssumption ==
  /\ Batches \subseteq Seq(Photos)
  /\ BatchPolicies \subseteq Policies
  /\ \A outcome \in {Raised("Face not detected"), Failed} : None # outcome

(* The images the pipeline is given. *)
photos == [k \in DOMAIN candidates |-> claimed[candidates[k]]]

BatchTypeOK ==
  /\ policy \in Policies
  /\ Range(claimed) \subseteq Photos /\ read \in 0 .. Len(claimed)
  /\ Range(candidates) \subseteq 1 .. read
  /\ Len(gates) <= Len(candidates) /\ Len(prepared) <= Len(candidates)
  /\ faces = None \/ faces \in Seq(0 .. 2)
  /\ DOMAIN answers = DOMAIN claimed /\ over \in BOOLEAN

BatchInit ==
  /\ claimed \in Batches
  /\ policy \in BatchPolicies
  /\ read = 0 /\ candidates = <<>>
  /\ gates = <<>> /\ eligible = <<>> /\ prepared = <<>>
  /\ faces = None /\ error = None
  /\ answers = [i \in DOMAIN claimed |-> None] /\ over = FALSE

-----------------------------------------------------------------------------
(* The worker's own loop.  cv2.imdecode knows neither HEIF nor its kin. *)

JobAnswer(status, reason) == [status |-> status, reason |-> reason]

DecodePhoto ==
  /\ read < Len(claimed)
  /\ read' = read + 1
  /\ IF claimed[read'].encoding = "opencv"
       THEN candidates' = Append(candidates, read') /\ UNCHANGED answers
       ELSE /\ answers' = [answers EXCEPT ![read'] =
                             JobAnswer("processing_failed", "invalid_image")]
            /\ UNCHANGED candidates
  /\ UNCHANGED <<claimed, policy, gates, eligible, faces, prepared, error, over>>

-----------------------------------------------------------------------------
(* The pipeline's loops. *)

Judge ==
  /\ read = Len(claimed) /\ faces = None /\ Len(gates) < Len(photos)
  /\ LET gate == EvaluateImage(photos[Len(gates) + 1], policy) IN
       /\ gates' = Append(gates, gate)
       /\ eligible' = IF gate.passed THEN Append(eligible, Len(gates) + 1)
                                     ELSE eligible
  /\ UNCHANGED <<claimed, read, candidates, policy, faces, prepared, error,
                 answers, over>>

(* detect_batch turns the failure of one detection into "no face". *)
Detected(photo) ==
  IF "detector_fails" \in photo.faults THEN 0 ELSE photo.faces

DetectBatch ==
  /\ read = Len(claimed) /\ candidates # <<>>
  /\ faces = None /\ Len(gates) = Len(photos)
  /\ faces' = [k \in DOMAIN eligible |-> Detected(photos[eligible[k]])]
  /\ UNCHANGED <<claimed, read, candidates, policy, gates, eligible, prepared,
                 error, answers, over>>

(* Mutant of FacesOf: detections are matched by position among the images. *)
FacesByPosition(i) == IF i \in DOMAIN faces THEN faces[i] ELSE 0

(* eligible_fast_faces_by_index: the faces found in the i-th image. *)
FacesOf(i) == faces[CHOOSE k \in DOMAIN eligible : eligible[k] = i]

(* The last loop, up to the first image that raises. *)
FinishPhoto ==
  /\ error = None /\ faces # None /\ Len(prepared) < Len(photos)
  /\ LET i == Len(prepared) + 1
         result == IF gates[i].passed
                     THEN PrepareFromDetection(photos[i], FacesOf(i), policy)
                     ELSE RejectedBy("quality_reject", gates[i])
     IN IF result.status \in {"raised", "failed"}
          THEN error' = result /\ UNCHANGED prepared
          ELSE prepared' = Append(prepared, result) /\ UNCHANGED error
  /\ UNCHANGED <<claimed, read, candidates, policy, gates, eligible, faces,
                 answers, over>>

-----------------------------------------------------------------------------
(* process_batch: what the jobs are answered without being verified. *)

(* _classify_prepare_exception: an expected refusal by its message; any other
   exception is an error whose text is not shown. *)
Classify(raised) ==
  IF raised.status = "failed" THEN JobAnswer("error", None)
  ELSE CASE raised.reason = "Face not detected" -> JobAnswer("no_face", "no_face")
         [] raised.reason = "Multiple faces not allowed" ->
              JobAnswer("no_face", "multiple_faces")
         [] raised.reason = "bad crop" -> JobAnswer("quality_reject", "bad_crop")
         [] raised.reason = "Low confidence face detection" ->
              JobAnswer("quality_reject", "low_confidence")
         [] raised.reason = "Invalid image file" ->
              JobAnswer("processing_failed", "invalid_image")

AnswerPrepared(result) ==
  CASE result.status = "ok" -> None
    [] result.status \in {"quality_reject", "retry"} ->
         JobAnswer(result.status, result.reason)
    [] result.status = "spoof" -> JobAnswer("spoof_detected", None)

(* The exception of one image is the answer of every candidate. *)
AnswerAll(raised) == [k \in DOMAIN candidates |-> Classify(raised)]

(* What the jobs have been told once the candidates get these replies. *)
Told(replies) ==
  [i \in DOMAIN claimed |->
     IF i \in Range(candidates)
       THEN replies[CHOOSE k \in DOMAIN candidates : candidates[k] = i]
       ELSE answers[i]]

Prepared ==
  /\ read = Len(claimed) /\ ~over
  /\ error = None /\ Len(prepared) = Len(photos)
  /\ answers' = Told([k \in DOMAIN prepared |-> AnswerPrepared(prepared[k])])
  /\ over' = TRUE
  /\ UNCHANGED <<claimed, read, candidates, policy, gates, eligible, faces,
                 prepared, error>>

PreparationFails ==
  /\ error # None /\ ~over
  /\ answers' = Told(AnswerAll(error))
  /\ over' = TRUE
  /\ UNCHANGED <<claimed, read, candidates, policy, gates, eligible, faces,
                 prepared, error>>

BatchNext ==
  \/ DecodePhoto \/ Judge \/ DetectBatch \/ FinishPhoto \/ Prepared
  \/ PreparationFails
BatchSpec == BatchInit /\ [][BatchNext]_batchVars

-----------------------------------------------------------------------------
(* What the pipeline would say of the photograph alone, a failing detector
   counted as a photograph without a face. *)
Alone(photo) ==
  PrepareFaceInput(
    IF "detector_fails" \in photo.faults
      THEN [photo EXCEPT !.faces = 0, !.faults = @ \ {"detector_fails"}]
      ELSE photo,
    policy)

Refused(outcome) == outcome.status \in {"raised", "failed"}

(* Preparing photographs together gives each the result it would get alone
   (the synchronous path), whichever of them were left out of the batch or of
   detection; and when the batch fails, it fails as the first of its
   photographs that the detection refuses would alone. *)
BatchAgrees ==
  /\ \A k \in DOMAIN prepared : prepared[k] = Alone(photos[k])
  /\ error # None =>
       LET refused == {k \in DOMAIN photos : Refused(Alone(photos[k]))}
       IN refused # {} /\ error = Alone(photos[Min(refused)])

(* No face covered by a mask or glasses is prepared for matching, whatever
   the soft and off modes let through: a face too small for the occlusion
   checks is refused outright.  What remains is a face the detector gave no
   landmarks for. *)
NothingUnchecked ==
  \A i \in DOMAIN prepared :
    prepared[i].status = "ok" /\ photos[i].landmarks =>
      photos[i].worn \cap policy.detects = {}

(* "These exceptions are the expected condition 'no usable face'", says
   _classify_prepare_exception, mapped to a meaningful status and reason for
   the client: so the reason a job is given is that of its own photograph. *)
ReasonIsOwn ==
  \A k \in DOMAIN photos :
    answers[candidates[k]] # None =>
      LET own == Alone(photos[k]) IN
        answers[candidates[k]] =
          IF Refused(own) THEN Classify(own) ELSE AnswerPrepared(own)
=============================================================================
