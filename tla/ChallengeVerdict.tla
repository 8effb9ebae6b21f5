-------------------------- MODULE ChallengeVerdict --------------------------
(***************************************************************************)
(* How the frames of one active-liveness stream become a verdict:          *)
(* app/ml/liveness/challenge.py, which the stream of LivenessChallenge     *)
(* calls, and app/ml/detection/face_selection.py, which picks the face to  *)
(* follow in each frame.                                                   *)
(*                                                                         *)
(* A frame is the list of the faces a detector found in it.  A face has a  *)
(* box, a confidence and the signals measured on its landmarks: eye        *)
(* aspect ratio, nose and mouth position and mouth width in percent, yaw in*)
(* degrees, and the score of the passive model in percent.  The mean of a  *)
(* baseline or a score is never divided out: both sides of a comparison    *)
(* are multiplied instead.                                                 *)
(***************************************************************************)
EXTENDS Integers, Sequences, FiniteSets, FiniteSetsExt

CONSTANTS Frames,      \* what a frame may show
          NoEar,       \* the eyes were not measured
          Open,        \* no verdict yet
          MinFrames,   \* LIVENESS_MIN_FRAMES
          MaxFrames,   \* LIVENESS_WS_MAX_FRAMES
          Asked        \* LIVENESS_CHALLENGE_ACTIONS

YawMin == 25           \* LIVENESS_YAW_MIN_DEG
PitchMin == 10         \* LIVENESS_PITCH_MIN_EXCURSION
EarDip == 30           \* LIVENESS_EAR_DIP_RATIO
SmileDelta == 4        \* LIVENESS_SMILE_DELTA
AreaCV == 25           \* LIVENESS_CONSISTENCY_AREA_CV
TrackIoU == 30         \* LIVENESS_CONSISTENCY_IOU_MIN
MergeIoU == 50         \* _IOU_MERGE
LiveThreshold == 859   \* LIVENESS_THRESHOLD, per mille

Turns == {"turn_left", "turn_right"}
Gestures == {"blink", "nod", "smile"} \cup Turns

Faces ==
  [box : Int \X Int \X Int \X Int, confidence : 0 .. 100,
   ear : Nat \cup {NoEar}, yaw : Int, pitch : Int, mouth : Nat,
   passive : 0 .. 100]

ASSUME VerdictAssumption ==
  /\ Frames \subseteq Seq(Faces)
  /\ MinFrames \in Nat \ {0} /\ Asked \in Nat \ {0}
  /\ NoEar \notin Nat /\ Open \notin [live : BOOLEAN, reason : STRING]

VARIABLES actions,  \* the actions the challenge asks for
          obs,      \* the observations: the face followed, frame by frame
          verdict

verdictVars == <<actions, obs, verdict>>

Reasons == {"ok", "too_few_frames", "consistency_fail", "actions_incomplete",
            "below_threshold"}

VerdictTypeOK ==
  /\ actions \in SUBSET Gestures
  /\ obs \in Seq(Faces)
  /\ verdict \in [live : BOOLEAN, reason : Reasons] \cup {Open}

(* sample_actions: one of the turns at most. *)
SampleActions ==
  {sample \in SUBSET Gestures :
     /\ Cardinality(sample) = (IF Asked < 4 THEN Asked ELSE 4)
     /\ ~(Turns \subseteq sample)}

VerdictInit ==
  /\ actions \in SampleActions
  /\ obs = <<>>
  /\ verdict = Open

-----------------------------------------------------------------------------
(* The face to follow. *)

Positive(x) == IF x > 0 THEN x ELSE 0
Smaller(a, b) == IF a < b THEN a ELSE b
Larger(a, b) == IF a > b THEN a ELSE b

Area(box) == Positive(box[3] - box[1]) * Positive(box[4] - box[2])
Shared(a, b) ==
  Area(<<Larger(a[1], b[1]), Larger(a[2], b[2]),
         Smaller(a[3], b[3]), Smaller(a[4], b[4])>>)

(* Two boxes that share enough of their union are of one face. *)
Overlap(a, b) ==
  LET union == Area(a) + Area(b) - Shared(a, b)
  IN union > 0 /\ 100 * Shared(a, b) >= MergeIoU * union

(* The faces that lead a group of detections: one that overlaps the leader of
   an earlier group is a duplicate of its face. *)
Leaders(faces) ==
  LET among[n \in 0 .. Len(faces)] ==
        IF n = 0 THEN {}
        ELSE IF \E k \in among[n - 1] : Overlap(faces[n].box, faces[k].box)
          THEN among[n - 1] ELSE among[n - 1] \cup {n}
  IN among[Len(faces)]

(* A leader and the duplicates for which its group is the first to join. *)
Group(faces, leader) ==
  {leader} \cup
    {i \in DOMAIN faces \ Leaders(faces) :
       leader = Min({k \in Leaders(faces) :
                       k < i /\ Overlap(faces[i].box, faces[k].box)})}

(* The first of the indices with the largest value. *)
Best(indices, Value(_)) ==
  CHOOSE i \in indices :
    \A k \in indices :
      Value(k) < Value(i) \/ (Value(k) = Value(i) /\ i <= k)

(* Each group is represented by its most confident detection. *)
SelectMainFace(faces) ==
  LET Confidence(i) == faces[i].confidence
      Represents(leader) == Best(Group(faces, leader), Confidence)
      Composite(leader) ==
        Confidence(Represents(leader)) * Area(faces[Represents(leader)].box)
  IN faces[Represents(Best(Leaders(faces), Composite))]

-----------------------------------------------------------------------------
(* The actions, each by a signal that leaves its baseline: the mean of its
   first three values. *)

Baseline3(values) == values[1] + values[2] + values[3]
Leaves(values, Away(_)) ==
  /\ Len(values) >= 4
  /\ \E i \in DOMAIN values : Away(3 * values[i] - Baseline3(values))
Magnitude(x) == IF x < 0 THEN -x ELSE x

(* The eyes where they were measured. *)
Ears(stream) ==
  LET among[n \in 0 .. Len(stream)] ==
        IF n = 0 THEN <<>>
        ELSE IF stream[n].ear = NoEar THEN among[n - 1]
        ELSE Append(among[n - 1], stream[n].ear)
  IN among[Len(stream)]
Yaws(stream) == [i \in DOMAIN stream |-> stream[i].yaw]
Pitches(stream) == [i \in DOMAIN stream |-> stream[i].pitch]
Mouths(stream) == [i \in DOMAIN stream |-> stream[i].mouth]

(* The eyes close and are open again at the end. *)
DetectBlink(stream) ==
  LET ears == Ears(stream)
      Fraction(ear) == 100 * 3 * ear
  IN /\ Len(ears) >= 4 /\ Baseline3(ears) > 0
     /\ \E i \in DOMAIN ears :
          Fraction(ears[i]) <= (100 - EarDip) * Baseline3(ears)
     /\ 2 * Fraction(ears[Len(ears)]) >= (200 - EarDip) * Baseline3(ears)
DetectTurn(stream) ==
  LET Turned(x) == Magnitude(x) >= 3 * YawMin IN Leaves(Yaws(stream), Turned)
DetectNod(stream) ==
  LET Nodded(x) == Magnitude(x) >= 3 * PitchMin IN Leaves(Pitches(stream), Nodded)
(* Mutant of DetectSmile: the width of the mouth is not compared with rest. *)
DetectWideMouth(stream) ==
  LET Wide(x) == x + Baseline3(Mouths(stream)) >= 3 * SmileDelta
  IN Leaves(Mouths(stream), Wide)

DetectSmile(stream) ==
  LET Widened(x) == x >= 3 * SmileDelta IN Leaves(Mouths(stream), Widened)

Performed(stream, action) ==
  CASE action = "blink" -> DetectBlink(stream)
    [] action \in Turns -> DetectTurn(stream)
    [] action = "nod" -> DetectNod(stream)
    [] action = "smile" -> DetectSmile(stream)

(* The box of a frame and of the next one, whose areas are not clamped here. *)
Extent(box) == (box[3] - box[1]) * (box[4] - box[2])
Tracked(a, b) ==
  LET union == Extent(a) + Extent(b) - Shared(a, b)
  IN union > 0 /\ 100 * Shared(a, b) >= TrackIoU * union

Passives(stream) == [i \in DOMAIN stream |-> stream[i].passive]
Sizes(stream) == [i \in DOMAIN stream |-> Extent(stream[i].box)]

Total(values) ==
  LET upTo[n \in 0 .. Len(values)] ==
        IF n = 0 THEN 0 ELSE upTo[n - 1] + values[n]
  IN upTo[Len(values)]

(* The variance of the area against its mean, and the track of the box. *)
Consistent(stream) ==
  LET sizes == Sizes(stream)
      sum == Total(sizes)
      squares == Total([i \in DOMAIN sizes |-> sizes[i] * sizes[i]])
      spread == Len(stream) * squares - sum * sum
  IN /\ Len(stream) >= MinFrames
     /\ sum > 0
     /\ (100 \div AreaCV) * (100 \div AreaCV) * spread <= sum * sum
     /\ \A i \in 1 .. Len(stream) - 1 :
          Tracked(stream[i].box, stream[i + 1].box)

(* Half the score for the actions, three tenths for the passive model, two
   for consistency, which is given here. *)
ScoreReaches(stream, asked, threshold) ==
  LET done == Cardinality({a \in asked : Performed(stream, a)})
      of == Larger(1, Cardinality(asked))
      whole == 100 * Len(stream) * of
  IN 500 * done * 100 * Len(stream) + 300 * Total(Passives(stream)) * of
       + 200 * whole >= threshold * whole

Verdict(live, reason) == [live |-> live, reason |-> reason]
VerifyChallengeStream(stream, asked) ==
  IF Len(stream) < MinFrames THEN Verdict(FALSE, "too_few_frames")
  ELSE IF ~Consistent(stream) THEN Verdict(FALSE, "consistency_fail")
  ELSE IF \E a \in asked : ~Performed(stream, a)
    THEN Verdict(FALSE, "actions_incomplete")
  ELSE IF ~ScoreReaches(stream, asked, LiveThreshold)
    THEN Verdict(FALSE, "below_threshold")
  ELSE Verdict(TRUE, "ok")

-----------------------------------------------------------------------------
(* A frame without a face, or one the detector fails on, is passed over. *)
ObserveFrame(frame) ==
  /\ verdict = Open /\ Len(obs) < MaxFrames
  /\ obs' = IF frame = <<>> THEN obs ELSE Append(obs, SelectMainFace(frame))
  /\ UNCHANGED <<actions, verdict>>

(* The client is done or cancels, the time is up or the connection lost: the
   frames seen so far are judged all the same. *)
Judgement ==
  /\ verdict = Open
  /\ verdict' = VerifyChallengeStream(obs, actions)
  /\ UNCHANGED <<actions, obs>>

VerdictNext == Judgement \/ \E frame \in Frames : ObserveFrame(frame)
VerdictSpec == VerdictInit /\ [][VerdictNext]_verdictVars

-----------------------------------------------------------------------------
(* What each action takes, in terms of the frames alone: two frames that
   differ by what the action asks for, for a blink the last one. *)
Apart(values, least) ==
  \E i, k \in DOMAIN values : values[i] - values[k] >= least
Gesture(stream, action) ==
  CASE action = "blink" ->
         LET ears == Ears(stream) IN
           \E i \in DOMAIN ears :
             ears[Len(ears)] > 0 /\ 17 * ears[i] <= 14 * ears[Len(ears)]
    [] action \in Turns -> Apart(Yaws(stream), YawMin)
    [] action = "nod" -> Apart(Pitches(stream), PitchMin)
    [] action = "smile" -> Apart(Mouths(stream), SmileDelta)

(* No picture that is only moved about, and no stream the passive model finds
   rather a spoof, is live: a live verdict takes, for every action asked, two
   frames that differ by it, and a mean passive score above one half, however
   well the actions were performed.  And one turn never serves two of the
   actions asked. *)
LiveEarned ==
  verdict # Open /\ verdict.live =>
    /\ \A a \in actions : Gesture(obs, a)
    /\ 2 * Total(Passives(obs)) > 100 * Len(obs)
    /\ ~(Turns \subseteq actions)
=============================================================================
