------------------------------ MODULE FaceGate ------------------------------
(***************************************************************************)
(* What the face pipeline decides about one photograph, before any         *)
(* embedding is computed: app/ml/pipeline_v2.py with the quality gate of   *)
(* app/ml/quality/image_quality_gate.py, the preprocessor and the          *)
(* detector they call, and the stand-alone liveness score of               *)
(* app/ml/liveness/scoring.py.                                             *)
(*                                                                         *)
(* Pure operators on two records.  A photograph says what the measures     *)
(* would find in it: its frame, the detected box (in the coordinates of    *)
(* the downscaled frame), which thresholds it misses (faults), what covers *)
(* the face (worn) and what the liveness model would say.  A policy is the *)
(* part of the settings the verdict depends on.  Boxes and sides are whole *)
(* pixels, computed exactly where the code rounds floats.                  *)
(***************************************************************************)
EXTENDS Integers, FiniteSets, Sequences, FiniteSetsExt

CONSTANT None            \* the code's None: no reason, no liveness verdict

Modes == {"hard", "soft", "off"}

MaxSide == 480           \* PREPROCESS_MAX_SIDE
MinFaceSide == 72        \* QUALITY_MIN_FACE_SIDE
OccMinFaceSide == 64     \* QUALITY_OCC_MIN_FACE_SIDE
ExpandPercent == 30      \* FAST_BBOX_EXPAND_SCALE

(* The thresholds of evaluate_image, in the order it tries them. *)
ImageFaults ==
  <<"image_too_small", "image_blurry", "image_too_dark", "image_too_bright",
    "low_contrast">>
LightingFaults == <<"hard_shadow", "bad_lighting">>
Faults ==
  {ImageFaults[i] : i \in DOMAIN ImageFaults}
    \cup {LightingFaults[i] : i \in DOMAIN LightingFaults}
    \cup {"bad_pose", "high_noise", "low_confidence", "dark_crop",
          "detector_fails"}
Occlusions == {"mask", "glasses", "sunglasses"}

Pixels == Nat \ {0}
Photos ==
  [encoding : {"opencv", "heif", "broken"}, frame : Pixels \X Pixels,
   box : Nat \X Nat \X Nat \X Nat,
   faces : 0 .. 2, landmarks : BOOLEAN, faults : SUBSET Faults,
   worn : SUBSET Occlusions, live : {"live", "spoof", "fails"}]
Policies ==
  [gate : Modes, pose : Modes, lighting : Modes, noise : Modes,
   detects : SUBSET Occlusions, liveness : BOOLEAN, heif : BOOLEAN]

(* OpenCV decodes the common formats, PIL the rest where pillow-heif is
   installed. *)
Decodes(photo, policy) ==
  photo.encoding = "opencv" \/ (photo.encoding = "heif" /\ policy.heif)

-----------------------------------------------------------------------------
(* Geometry: a frame is <<width, height>>, a box <<x1, y1, x2, y2>>. *)

Lesser(a, b) == IF a < b THEN a ELSE b
Greater(a, b) == IF a > b THEN a ELSE b
Within(x, limit) == Greater(0, Lesser(x, limit))

(* The frame the detector sees: its long side is at most MaxSide. *)
Downscaled(frame) ==
  LET long == Greater(frame[1], frame[2])
      Shrunk(side) == Greater(1, (side * MaxSide) \div long)
  IN IF long <= MaxSide THEN frame ELSE <<Shrunk(frame[1]), Shrunk(frame[2])>>

ScaleToOriginal(box, frame) ==
  LET seen == Downscaled(frame)
      X(v) == (v * frame[1]) \div seen[1]
      Y(v) == (v * frame[2]) \div seen[2]
  IN <<X(box[1]), Y(box[2]), X(box[3]), Y(box[4])>>

(* The scale is below one: the "expanded" box is the middle of the face. *)
ExpandBox(box, frame) ==
  LET Edge(low, high, sign) ==
        (100 * (low + high) + sign * ExpandPercent * (high - low)) \div 200
  IN <<Greater(0, Edge(box[1], box[3], -1)),
       Greater(0, Edge(box[2], box[4], -1)),
       Lesser(frame[1], Edge(box[1], box[3], 1)),
       Lesser(frame[2], Edge(box[2], box[4], 1))>>

RawBox(photo) == ScaleToOriginal(photo.box, photo.frame)
FaceBox(photo) == ExpandBox(RawBox(photo), photo.frame)

FaceSide(box) ==
  Lesser(Greater(0, box[3] - box[1]), Greater(0, box[4] - box[2]))

CropExists(box, frame) ==
  /\ Within(box[1], frame[1]) < Within(box[3], frame[1])
  /\ Within(box[2], frame[2]) < Within(box[4], frame[2])

-----------------------------------------------------------------------------
(* The quality gate. *)

(* The first of the listed faults that the photograph has, None if it has
   none. *)
FirstFault(order, photo) ==
  LET found == {i \in DOMAIN order : order[i] \in photo.faults}
  IN IF found = {} THEN None ELSE order[Min(found)]

(* A missed threshold refuses the photograph in hard mode only; in every
   mode it is kept as the warning. *)
Wrap(reason, mode) ==
  [passed |-> reason = None \/ mode # "hard",
   reason |-> IF mode = "hard" THEN reason ELSE None,
   warning |-> reason]
Refuse(reason) == [passed |-> FALSE, reason |-> reason, warning |-> reason]

EvaluateImage(photo, policy) ==
  Wrap(FirstFault(ImageFaults, photo), policy.gate)

(* What _check_occlusion flags on an existing crop: nothing without
   landmarks; a mask and dark lenses only on a crop large enough to measure
   them, the frame of glasses at any size. *)
MaskSeen(photo, side, policy) ==
  "mask" \in photo.worn \cap policy.detects /\ side >= OccMinFaceSide
GlassesSeen(photo, policy) == "glasses" \in photo.worn \cap policy.detects
DarkLensesSeen(photo, side, policy) ==
  "sunglasses" \in photo.worn \cap policy.detects /\ side >= OccMinFaceSide
Occluded(photo, side, policy) ==
  /\ photo.landmarks
  /\ \/ MaskSeen(photo, side, policy)
     \/ GlassesSeen(photo, policy)
     \/ DarkLensesSeen(photo, side, policy)

PoseRefused(photo, policy) ==
  policy.pose = "hard" /\ photo.landmarks /\ "bad_pose" \in photo.faults
LightingRefused(photo, policy) ==
  policy.lighting = "hard" /\ FirstFault(LightingFaults, photo) # None
NoiseRefused(photo, policy) ==
  policy.noise = "hard" /\ "high_noise" \in photo.faults

(* Mutant of TooSmallToCheck: there is no hard minimum. *)
NeverTooSmall(side) == FALSE

(* The hard minimum: below it neither the occlusion checks nor the liveness
   model are trusted. *)
TooSmallToCheck(side) == side < OccMinFaceSide

EvaluateDetection(photo, policy) ==
  LET box == FaceBox(photo)
      side == FaceSide(box)
      crop == CropExists(box, photo.frame)
  IN IF crop /\ Occluded(photo, side, policy) THEN Refuse("remove_occlusion")
     ELSE IF TooSmallToCheck(side) THEN Refuse("face_too_small")
     ELSE IF side < MinFaceSide THEN Wrap("face_too_small", policy.gate)
     ELSE IF PoseRefused(photo, policy) THEN Wrap("bad_pose", policy.gate)
     ELSE IF crop /\ LightingRefused(photo, policy)
       THEN Wrap(FirstFault(LightingFaults, photo), policy.lighting)
     ELSE IF crop /\ NoiseRefused(photo, policy)
       THEN Wrap("high_noise", policy.noise)
     ELSE Wrap(None, policy.gate)

-----------------------------------------------------------------------------
(* The pipeline.  Its outcome is a result with a status, an expected refusal
   it raises as a ValueError ("raised"), or any other exception
   ("failed"). *)

Outcome(status, reason, live, warning) ==
  [status |-> status, reason |-> reason, live |-> live, warning |-> warning]
Raised(message) == Outcome("raised", message, None, None)
Failed == Outcome("failed", None, None, None)
RejectedBy(status, verdict) ==
  Outcome(status, verdict.reason, None, verdict.warning)

(* The liveness verdict of a photograph that passed the gate.  A model that
   breaks leaves None, and the photograph is let through. *)
PassiveLiveness(photo, policy) ==
  IF ~policy.liveness THEN None
  ELSE CASE photo.live = "live" -> TRUE
         [] photo.live = "spoof" -> FALSE
         [] photo.live = "fails" -> None

(* The crop of a face the detector put outside the frame is empty: its mean
   is no number, it passes as bright, and only a face without landmarks needs
   its pixels. *)
DetectionError(photo, faces) ==
  IF faces = 0 THEN Raised("Face not detected")
  ELSE IF faces > 1 THEN Raised("Multiple faces not allowed")
  ELSE IF "low_confidence" \in photo.faults
    THEN Raised("Low confidence face detection")
  ELSE IF CropExists(FaceBox(photo), photo.frame)
    THEN IF "dark_crop" \in photo.faults THEN Raised("bad crop") ELSE None
  ELSE IF photo.landmarks THEN None ELSE Failed

PrepareFromDetection(photo, faces, policy) ==
  LET error == DetectionError(photo, faces)
      face == EvaluateDetection(photo, policy)
      live == PassiveLiveness(photo, policy)
      image == EvaluateImage(photo, policy)
  IN IF error # None THEN error
     ELSE IF ~face.passed
       THEN RejectedBy(IF face.reason = "remove_occlusion"
                       THEN "retry" ELSE "quality_reject", face)
     ELSE IF live = FALSE THEN Outcome("spoof", None, FALSE, None)
     ELSE Outcome("ok", None, live,
                  IF image.warning # None THEN image.warning
                                          ELSE face.warning)

(* One photograph alone: a synchronous request, an enrolment. *)
PrepareFaceInput(photo, policy) ==
  IF ~Decodes(photo, policy) THEN Raised("Invalid image file")
  ELSE IF ~EvaluateImage(photo, policy).passed
    THEN RejectedBy("quality_reject", EvaluateImage(photo, policy))
  ELSE IF "detector_fails" \in photo.faults THEN Failed
  ELSE PrepareFromDetection(photo, photo.faces, policy)

(* The stand-alone score of POST /liveness on a decoded photograph: no gate,
   the main face of several, and a broken model raises. *)
ScoreImageLiveness(photo) ==
  IF photo.faces = 0 THEN [liveness |-> FALSE, face |-> FALSE]
  ELSE [liveness |-> photo.live = "live", face |-> TRUE]
=============================================================================
