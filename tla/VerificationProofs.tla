-------------------------- MODULE VerificationProofs --------------------------
(* Proofs about the way from photographs to answers and their logs.  About
   BatchPreparation, for batches of any size and any policies: photographs
   prepared together get the results they would get alone, and no covered face
   passes the gate.  About Verification, for any number of requests, any batch
   and any cases: permits, anti-replay keys and the rows of verification_logs. *)
EXTENDS BatchPreparation, Verification, FiniteSetTheorems, TLAPS

-----------------------------------------------------------------------------
(* The geometry of a face box. *)

LEMMA DivInt == \A a \in Int, b \in Nat \ {0} : a \div b \in Int
  OBVIOUS

LEMMA DownscaledPixels ==
  ASSUME NEW frame \in Pixels \X Pixels
  PROVE  Downscaled(frame) \in Pixels \X Pixels
<1> DEFINE long == Greater(frame[1], frame[2])
           Shrunk(side) == Greater(1, (side * MaxSide) \div long)
<1>1. frame[1] \in Nat \ {0} /\ frame[2] \in Nat \ {0} /\ long \in Nat \ {0}
  BY DEF Pixels, Greater
<1>2. ASSUME NEW side \in Nat PROVE Shrunk(side) \in Nat \ {0}
  <2>1. (side * MaxSide) \div long \in Int
    BY <1>1, DivInt DEF MaxSide
  <2> QED BY <2>1 DEF Greater
<1>3. Shrunk(frame[1]) \in Nat \ {0} /\ Shrunk(frame[2]) \in Nat \ {0}
  BY <1>1, <1>2
<1> QED BY <1>1, <1>3 DEF Downscaled, Pixels

LEMMA RawBoxInts ==
  ASSUME NEW photo \in Photos
  PROVE  \A i \in 1 .. 4 : RawBox(photo)[i] \in Int
<1> DEFINE scaled == Downscaled(photo.frame)
<1>1. photo.frame \in Pixels \X Pixels /\ photo.box \in Nat \X Nat \X Nat \X Nat
  BY DEF Photos
<1>2. scaled \in Pixels \X Pixels
  BY <1>1, DownscaledPixels
<1>3. ASSUME NEW v \in Nat, NEW side \in Pixels, NEW of \in Pixels
      PROVE (v * side) \div of \in Int
  <2>1. v * side \in Int /\ of \in Nat \ {0}
    BY DEF Pixels
  <2> QED BY <2>1, DivInt
<1>4. /\ scaled[1] \in Pixels /\ scaled[2] \in Pixels
      /\ photo.frame[1] \in Pixels /\ photo.frame[2] \in Pixels
      /\ \A i \in 1 .. 4 : photo.box[i] \in Nat
  BY <1>1, <1>2
<1> HIDE DEF scaled
<1>5. RawBox(photo) = <<(photo.box[1] * photo.frame[1]) \div scaled[1],
                        (photo.box[2] * photo.frame[2]) \div scaled[2],
                        (photo.box[3] * photo.frame[1]) \div scaled[1],
                        (photo.box[4] * photo.frame[2]) \div scaled[2]>>
  BY DEF RawBox, ScaleToOriginal, scaled
<1> QED BY <1>3, <1>4, <1>5

LEMMA FaceBoxFits ==
  ASSUME NEW photo \in Photos
  PROVE  LET box == FaceBox(photo) IN
         /\ \A i \in 1 .. 4 : box[i] \in Int
         /\ box[1] >= 0 /\ box[2] >= 0
         /\ box[3] <= photo.frame[1] /\ box[4] <= photo.frame[2]
<1> DEFINE raw == RawBox(photo)
           Edge(low, high, sign) ==
             (100 * (low + high) + sign * 30 * (high - low)) \div 200
<1>1. \A i \in 1 .. 4 : raw[i] \in Int
  BY RawBoxInts
<1>2. photo.frame[1] \in Nat /\ photo.frame[2] \in Nat
  BY DEF Photos, Pixels
<1>3. ASSUME NEW low \in Int, NEW high \in Int
      PROVE  Edge(low, high, -1) \in Int /\ Edge(low, high, 1) \in Int
  OBVIOUS
<1>4. /\ Edge(raw[1], raw[3], -1) \in Int /\ Edge(raw[2], raw[4], -1) \in Int
      /\ Edge(raw[1], raw[3], 1) \in Int /\ Edge(raw[2], raw[4], 1) \in Int
  BY <1>1, <1>3
<1>5. FaceBox(photo) = <<Greater(0, Edge(raw[1], raw[3], -1)),
                         Greater(0, Edge(raw[2], raw[4], -1)),
                         Lesser(photo.frame[1], Edge(raw[1], raw[3], 1)),
                         Lesser(photo.frame[2], Edge(raw[2], raw[4], 1))>>
  BY DEF FaceBox, ExpandBox, ExpandPercent
<1> HIDE DEF Edge
<1> QED BY <1>2, <1>4, <1>5 DEF Greater, Lesser

LEMMA LargeFaceHasCrop ==
  ASSUME NEW photo \in Photos, ~TooSmallToCheck(FaceSide(FaceBox(photo)))
  PROVE  CropExists(FaceBox(photo), photo.frame)
<1>1. photo.frame[1] \in Nat /\ photo.frame[2] \in Nat
  BY DEF Photos, Pixels
<1> QED
  BY <1>1, FaceBoxFits
  DEF TooSmallToCheck, FaceSide, CropExists, Within, Greater, Lesser,
      OccMinFaceSide

-----------------------------------------------------------------------------
(* What passes the gate. *)

LEMMA OkUncovered ==
  ASSUME NEW photo \in Photos, NEW set \in Policies, NEW n,
         PrepareFromDetection(photo, n, set).status = "ok", photo.landmarks
  PROVE  photo.worn \cap set.detects = {}
<1> DEFINE side == FaceSide(FaceBox(photo))
           face == EvaluateDetection(photo, set)
<1>1. DetectionError(photo, n) = None
  BY DEF PrepareFromDetection, DetectionError, Raised, Failed, Outcome
<1>2. face.passed
  BY <1>1 DEF PrepareFromDetection, RejectedBy, Outcome
<1>3. ~TooSmallToCheck(side)
  BY <1>2 DEF EvaluateDetection, Refuse
<1>4. CropExists(FaceBox(photo), photo.frame)
  BY <1>3, LargeFaceHasCrop
<1>5. ~Occluded(photo, side, set)
  BY <1>2, <1>4 DEF EvaluateDetection, Refuse
<1>6. side >= OccMinFaceSide
  <2>1. photo.frame[1] \in Nat /\ photo.frame[2] \in Nat
    BY DEF Photos, Pixels
  <2> QED BY <1>3, <2>1, FaceBoxFits
          DEF TooSmallToCheck, FaceSide, Greater, Lesser, OccMinFaceSide
<1>7. photo.worn \subseteq {"mask", "glasses", "sunglasses"}
  BY DEF Photos, Occlusions
<1> QED BY <1>5, <1>6, <1>7 DEF Occluded, MaskSeen, GlassesSeen, DarkLensesSeen

(* The result of a photograph alone, in terms of what the batch knows of it. *)
LEMMA AloneResult ==
  ASSUME NEW photo \in Photos, Decodes(photo, policy)
  PROVE  Alone(photo) =
           IF EvaluateImage(photo, policy).passed
             THEN PrepareFromDetection(photo, Detected(photo), policy)
             ELSE RejectedBy("quality_reject", EvaluateImage(photo, policy))
<1>1. CASE "detector_fails" \notin photo.faults
  BY <1>1 DEF Alone, PrepareFaceInput, Detected
<1>2. CASE "detector_fails" \in photo.faults
  <2> DEFINE calm == [photo EXCEPT !.faces = 0, !.faults = @ \ {"detector_fails"}]
  <2>1. /\ calm.encoding = photo.encoding /\ calm.faces = 0
        /\ calm.faults = photo.faults \ {"detector_fails"}
    BY DEF Photos
  <2> HIDE DEF calm
  <2>2. EvaluateImage(calm, policy) = EvaluateImage(photo, policy)
    <3>1. \A i \in DOMAIN ImageFaults : ImageFaults[i] # "detector_fails"
      BY DEF ImageFaults
    <3>2. {i \in DOMAIN ImageFaults : ImageFaults[i] \in calm.faults}
            = {i \in DOMAIN ImageFaults : ImageFaults[i] \in photo.faults}
      BY <2>1, <3>1
    <3>3. FirstFault(ImageFaults, calm) = FirstFault(ImageFaults, photo)
      BY <3>2 DEF FirstFault
    <3> QED BY <3>3 DEF EvaluateImage
  <2>3. Decodes(calm, policy)
    BY <2>1 DEF Decodes
  <2>4. /\ PrepareFromDetection(calm, 0, policy) = Raised("Face not detected")
        /\ PrepareFromDetection(photo, 0, policy) = Raised("Face not detected")
    BY BatchAssumption DEF PrepareFromDetection, DetectionError
  <2>5. Alone(photo) = PrepareFaceInput(calm, policy)
    BY <1>2 DEF Alone, calm
  <2>6. Detected(photo) = 0
    BY <1>2 DEF Detected
  <2>7. "detector_fails" \notin calm.faults
    BY <2>1
  <2>8. CASE EvaluateImage(photo, policy).passed
    BY <2>1, <2>2, <2>3, <2>4, <2>5, <2>6, <2>7, <2>8 DEF PrepareFaceInput
  <2>9. CASE ~EvaluateImage(photo, policy).passed
    BY <2>2, <2>3, <2>5, <2>9 DEF PrepareFaceInput
  <2> QED BY <2>8, <2>9
<1> QED BY <1>1, <1>2

-----------------------------------------------------------------------------
(* The inductive invariant: what each loop has left behind. *)

Verdicts == {EvaluateImage(photo, set) : photo \in Photos, set \in Policies}

Setting ==
  /\ claimed \in Seq(Photos) /\ policy \in Policies
  /\ read \in 0 .. Len(claimed)
  /\ candidates \in Seq(Nat)
  /\ \A k \in 1 .. Len(candidates) :
       candidates[k] \in 1 .. read /\ claimed[candidates[k]].encoding = "opencv"

Answering == DOMAIN answers = DOMAIN claimed /\ over \in BOOLEAN

(* The pipeline starts when the last photograph is decoded. *)
Reading ==
  read < Len(claimed) =>
    gates = <<>> /\ eligible = <<>> /\ faces = None /\ prepared = <<>> /\ error = None

ImagesDecoded ==
  /\ photos \in Seq(Photos) /\ Len(photos) = Len(candidates)
  /\ \A k \in 1 .. Len(photos) : Decodes(photos[k], policy)

GatesJudged ==
  /\ gates \in Seq(Verdicts) /\ Len(gates) <= Len(photos)
  /\ eligible \in Seq(Nat)
  /\ \A i \in 1 .. Len(gates) : gates[i] = EvaluateImage(photos[i], policy)
  /\ \A k \in 1 .. Len(eligible) : eligible[k] \in 1 .. Len(gates)
  /\ \A i \in 1 .. Len(gates) :
       gates[i].passed => \E k \in 1 .. Len(eligible) : eligible[k] = i

Matched ==
  faces # None =>
    /\ faces \in Seq(0 .. 2) /\ Len(faces) = Len(eligible)
    /\ Len(gates) = Len(photos)
    /\ \A k \in 1 .. Len(faces) : faces[k] = Detected(photos[eligible[k]])

Outcomes == {Alone(photo) : photo \in Photos}

Finished ==
  /\ prepared \in Seq(Outcomes) /\ Len(prepared) <= Len(photos)
  /\ \A i \in 1 .. Len(prepared) :
       prepared[i] = Alone(photos[i]) /\ ~Refused(prepared[i])

FailsAsAlone ==
  error # None =>
    LET refused == {k \in DOMAIN photos : Refused(Alone(photos[k]))}
    IN refused # {} /\ error = Alone(photos[Min(refused)])

BatchInv ==
  /\ Setting /\ Answering /\ Reading
  /\ GatesJudged /\ Matched /\ Finished /\ FailsAsAlone

LEMMA GivenImages == Setting => ImagesDecoded
<1> SUFFICES ASSUME Setting PROVE ImagesDecoded
  OBVIOUS
<1>1. /\ DOMAIN candidates = 1 .. Len(candidates) /\ Len(candidates) \in Nat
      /\ \A k \in 1 .. Len(candidates) :
           /\ claimed[candidates[k]] \in Photos
           /\ claimed[candidates[k]].encoding = "opencv"
  BY DEF Setting
<1>2. photos = [k \in 1 .. Len(candidates) |-> claimed[candidates[k]]]
  BY <1>1 DEF photos
<1>3. photos \in Seq(Photos) /\ Len(photos) = Len(candidates)
  BY <1>1, <1>2
<1>4. \A k \in 1 .. Len(photos) : Decodes(photos[k], policy)
  BY <1>1, <1>2, <1>3 DEF Decodes
<1> QED BY <1>3, <1>4 DEF ImagesDecoded

(* The steps of the pipeline leave the worker's part alone. *)
LEMMA SettingKept ==
  ASSUME Setting, UNCHANGED <<claimed, read, candidates, policy>>
  PROVE  Setting' /\ photos' = photos
  BY DEF Setting, photos

LEMMA FirstIsMin ==
  ASSUME NEW S \in SUBSET Nat, NEW i \in S, \A k \in S : i <= k
  PROVE  Min(S) = i
<1>1. \A x \in S : (\A y \in S : x =< y) => x = i
  OBVIOUS
<1>2. \E x \in S : \A y \in S : x =< y
  OBVIOUS
<1>3. Min(S) \in S /\ \A y \in S : Min(S) =< y
  BY <1>2 DEF Min
<1> QED BY <1>1, <1>3

LEMMA InitInv == BatchInit => BatchInv
<1> SUFFICES ASSUME BatchInit PROVE BatchInv
  OBVIOUS
<1>1. Setting
  <2>1. claimed \in Seq(Photos) /\ policy \in Policies /\ read = 0 /\ candidates = <<>>
    BY BatchAssumption DEF BatchInit
  <2>2. read \in 0 .. Len(claimed) /\ candidates \in Seq(Nat) /\ Len(candidates) = 0
    BY <2>1
  <2> QED BY <2>1, <2>2 DEF Setting
<1>2. Answering /\ Reading
  BY DEF BatchInit, Answering, Reading
<1>3. ImagesDecoded
  BY <1>1, GivenImages
<1>4. GatesJudged
  BY <1>3 DEF BatchInit, GatesJudged, ImagesDecoded
<1>5. Finished
  BY <1>3 DEF BatchInit, Finished, ImagesDecoded
<1> QED
  BY <1>1, <1>2, <1>4, <1>5 DEF BatchInit, BatchInv, Matched, FailsAsAlone

LEMMA DecodeInv ==
  ASSUME BatchInv, DecodePhoto PROVE BatchInv'
<1> USE DEF BatchInv
<1>1. /\ read < Len(claimed) /\ read' = read + 1
      /\ UNCHANGED <<claimed, policy, gates, eligible, faces, prepared, error, over>>
      /\ gates = <<>> /\ eligible = <<>> /\ faces = None /\ prepared = <<>>
      /\ error = None
  BY DEF DecodePhoto, Reading
<1>2. read' \in 1 .. Len(claimed) /\ read \in Nat /\ Len(claimed) \in Nat
  BY <1>1 DEF Setting
<1>3. Setting' /\ Answering'
  <2>1. CASE claimed[read'].encoding = "opencv"
    <3>1. candidates' = Append(candidates, read') /\ answers' = answers
      BY <2>1 DEF DecodePhoto
    <3>2. /\ candidates' \in Seq(Nat) /\ Len(candidates') = Len(candidates) + 1
          /\ candidates'[Len(candidates) + 1] = read'
          /\ \A k \in 1 .. Len(candidates) : candidates'[k] = candidates[k]
      BY <1>2, <3>1 DEF Setting
    <3>3. ASSUME NEW k \in 1 .. Len(candidates')
          PROVE  /\ candidates'[k] \in 1 .. read'
                 /\ claimed[candidates'[k]].encoding = "opencv"
      <4>1. CASE k = Len(candidates) + 1
        BY <1>2, <2>1, <3>2, <4>1
      <4>2. CASE k # Len(candidates) + 1
        <5>1. k \in 1 .. Len(candidates)
          BY <3>2, <4>2 DEF Setting
        <5>2. candidates[k] \in 1 .. read /\ claimed[candidates[k]].encoding = "opencv"
          BY <5>1 DEF Setting
        <5> QED BY <1>1, <1>2, <3>2, <5>1, <5>2
      <4> QED BY <4>1, <4>2
    <3> QED BY <1>1, <1>2, <3>1, <3>2, <3>3 DEF Setting, Answering
  <2>2. CASE claimed[read'].encoding # "opencv"
    <3>1. candidates' = candidates /\ DOMAIN answers' = DOMAIN answers
      BY <2>2 DEF DecodePhoto
    <3>2. \A k \in 1 .. Len(candidates) : candidates[k] \in 1 .. read'
      BY <1>1, <1>2 DEF Setting
    <3> QED BY <1>1, <1>2, <3>1, <3>2 DEF Setting, Answering
  <2> QED BY <2>1, <2>2
<1>4. ImagesDecoded'
  BY <1>3, GivenImages, PTL
<1>5. GatesJudged'
  BY <1>1, <1>4 DEF GatesJudged, ImagesDecoded
<1>6. Finished'
  BY <1>1, <1>4 DEF Finished, ImagesDecoded
<1>7. Reading' /\ Matched' /\ FailsAsAlone'
  BY <1>1 DEF Reading, Matched, FailsAsAlone
<1> QED BY <1>3, <1>5, <1>6, <1>7

LEMMA FinishedKept ==
  ASSUME Finished, UNCHANGED <<photos, policy, prepared>> PROVE Finished'
  BY DEF Finished, Outcomes, Alone

LEMMA JudgeInv ==
  ASSUME BatchInv, Judge PROVE BatchInv'
<1> USE DEF BatchInv
<1> DEFINE place == Len(gates) + 1
           photo == photos[place]
           gate == EvaluateImage(photo, policy)
<1>1. /\ UNCHANGED <<claimed, read, candidates, policy, faces, prepared, error,
                     answers, over>>
      /\ read = Len(claimed) /\ faces = None /\ Len(gates) < Len(photos)
  BY DEF Judge
<1>2. photo \in Photos /\ place \in 1 .. Len(photos) /\ gate \in Verdicts
  BY <1>1, GivenImages DEF ImagesDecoded, Setting, GatesJudged, Verdicts
<1>3. /\ Setting' /\ photos' = photos /\ Answering' /\ Reading' /\ Matched'
      /\ Finished' /\ FailsAsAlone'
  <2>1. Setting' /\ photos' = photos
    BY <1>1, SettingKept
  <2>2. Answering' /\ Reading' /\ Matched'
    BY <1>1, <2>1 DEF Answering, Reading, Matched
  <2>3. Finished'
    BY <1>1, <2>1, FinishedKept
  <2>4. FailsAsAlone'
    BY <1>1, <2>1 DEF FailsAsAlone, Alone
  <2> QED BY <2>1, <2>2, <2>3, <2>4
<1>4. GatesJudged'
  <2>1. /\ gates' = Append(gates, gate)
        /\ eligible' = IF gate.passed THEN Append(eligible, place) ELSE eligible
    BY DEF Judge
  <2> HIDE DEF gate
  <2>2. /\ gates' \in Seq(Verdicts) /\ Len(gates') = place
        /\ gates'[place] = gate
        /\ \A i \in 1 .. Len(gates) : gates'[i] = gates[i]
    BY <1>2, <2>1 DEF GatesJudged
  <2>3. \A i \in 1 .. Len(gates') : gates'[i] = EvaluateImage(photos[i], policy)
    <3> SUFFICES ASSUME NEW i \in 1 .. Len(gates')
                 PROVE  gates'[i] = EvaluateImage(photos[i], policy)
      OBVIOUS
    <3>1. CASE i = place
      BY <2>2, <3>1 DEF gate
    <3>2. CASE i # place
      <4>1. i \in 1 .. Len(gates)
        BY <2>2, <3>2 DEF GatesJudged
      <4> QED BY <2>2, <4>1 DEF GatesJudged
    <3> QED BY <3>1, <3>2
  <2>4. CASE gate.passed
    <3>1. /\ eligible' \in Seq(Nat) /\ Len(eligible') = Len(eligible) + 1
          /\ eligible'[Len(eligible) + 1] = place
          /\ \A k \in 1 .. Len(eligible) : eligible'[k] = eligible[k]
      BY <2>1, <2>4 DEF GatesJudged
    <3>2. \A k \in 1 .. Len(eligible') : eligible'[k] \in 1 .. Len(gates')
      <4> SUFFICES ASSUME NEW k \in 1 .. Len(eligible')
                   PROVE  eligible'[k] \in 1 .. place
        BY <2>2
      <4>1. CASE k = Len(eligible) + 1
        BY <1>2, <3>1, <4>1
      <4>2. CASE k # Len(eligible) + 1
        <5>1. k \in 1 .. Len(eligible)
          BY <3>1, <4>2 DEF GatesJudged
        <5>2. eligible'[k] \in 1 .. Len(gates) /\ Len(gates) \in Nat
          BY SMTT(30), <3>1, <5>1 DEF GatesJudged
        <5> QED BY <5>2
      <4> QED BY <4>1, <4>2
    <3>3. ASSUME NEW i \in 1 .. Len(gates'), gates'[i].passed
          PROVE  \E k \in 1 .. Len(eligible') : eligible'[k] = i
      <4>1. CASE i = place
        <5>1. Len(eligible) + 1 \in 1 .. Len(eligible')
          BY <3>1 DEF GatesJudged
        <5> QED BY <3>1, <4>1, <5>1
      <4>2. CASE i # place
        <5>1. i \in 1 .. Len(gates) /\ gates[i].passed
          BY <2>2, <3>3, <4>2 DEF GatesJudged
        <5>2. PICK k \in 1 .. Len(eligible) : eligible[k] = i
          BY <5>1 DEF GatesJudged
        <5>3. k \in 1 .. Len(eligible') /\ eligible'[k] = i
          BY SMTT(30), <3>1, <5>2 DEF GatesJudged
        <5> QED BY <5>3
      <4> QED BY <4>1, <4>2
    <3> QED
      BY <1>1, <1>2, <1>3, <2>2, <2>3, <3>1, <3>2, <3>3, GivenImages
      DEF GatesJudged, Setting, ImagesDecoded
  <2>5. CASE ~gate.passed
    <3>1. eligible' = eligible
      BY <2>1, <2>5
    <3>2. \A k \in 1 .. Len(eligible') : eligible'[k] \in 1 .. Len(gates')
      <4> SUFFICES ASSUME NEW k \in 1 .. Len(eligible')
                   PROVE  eligible'[k] \in 1 .. place
        BY <2>2
      <4>1. CASE k = Len(eligible) + 1
        BY <1>2, <3>1, <4>1
      <4>2. CASE k # Len(eligible) + 1
        <5>1. k \in 1 .. Len(eligible)
          BY <3>1, <4>2 DEF GatesJudged
        <5>2. eligible'[k] \in 1 .. Len(gates) /\ Len(gates) \in Nat
          BY <3>1, <5>1 DEF GatesJudged
        <5> QED BY <5>2
      <4> QED BY <4>1, <4>2
    <3>3. ASSUME NEW i \in 1 .. Len(gates'), gates'[i].passed
          PROVE  \E k \in 1 .. Len(eligible') : eligible'[k] = i
      <4>1. i \in 1 .. Len(gates) /\ gates[i].passed
        BY <2>2, <2>5, <3>3 DEF GatesJudged
      <4> QED BY <3>1, <4>1 DEF GatesJudged
    <3> QED
      BY <1>1, <1>2, <1>3, <2>2, <2>3, <3>1, <3>2, <3>3, GivenImages
      DEF GatesJudged, Setting, ImagesDecoded
  <2> QED BY <2>4, <2>5
<1> QED BY <1>3, <1>4

LEMMA DetectInv ==
  ASSUME BatchInv, DetectBatch PROVE BatchInv'
<1> USE DEF BatchInv
<1>1. /\ UNCHANGED <<claimed, read, candidates, policy, gates, eligible, prepared,
                     error, answers, over>>
      /\ read = Len(claimed) /\ Len(gates) = Len(photos)
      /\ faces' = [k \in DOMAIN eligible |-> Detected(photos[eligible[k]])]
  BY DEF DetectBatch
<1>2. Setting' /\ photos' = photos /\ Answering' /\ Reading' /\ GatesJudged'
  <2>1. Setting' /\ photos' = photos
    BY <1>1, SettingKept
  <2>2. Answering'
    BY <1>1 DEF Answering
  <2>3. Reading'
    BY <1>1 DEF Reading
  <2>4. GatesJudged'
    BY <1>1, <2>1 DEF GatesJudged
  <2> QED BY <2>1, <2>2, <2>3, <2>4
<1>3. Finished' /\ FailsAsAlone'
  BY <1>1, <1>2, FinishedKept DEF FailsAsAlone, Alone
<1>4. DOMAIN eligible = 1 .. Len(eligible) /\ Len(eligible) \in Nat
  BY DEF GatesJudged
<1>5. ASSUME NEW k \in 1 .. Len(eligible)
      PROVE  Detected(photos[eligible[k]]) \in 0 .. 2
  <2>1. photos[eligible[k]] \in Photos
    BY <1>1, GivenImages DEF GatesJudged, ImagesDecoded
  <2> QED BY <2>1 DEF Detected, Photos
<1>6. faces' \in Seq(0 .. 2) /\ Len(faces') = Len(eligible)
  BY <1>1, <1>4, <1>5
<1>7. Matched'
  BY <1>1, <1>2, <1>4, <1>6 DEF Matched
<1> QED BY <1>2, <1>3, <1>7

LEMMA FinishInv ==
  ASSUME BatchInv, FinishPhoto PROVE BatchInv'
<1> USE DEF BatchInv
<1> DEFINE i == Len(prepared) + 1
           photo == photos[i]
           result == IF gates[i].passed
                       THEN PrepareFromDetection(photo, FacesOf(i), policy)
                       ELSE RejectedBy("quality_reject", gates[i])
<1>1. /\ UNCHANGED <<claimed, read, candidates, policy, gates, eligible, faces,
                     answers, over>>
      /\ error = None /\ faces # None /\ Len(prepared) < Len(photos)
      /\ Len(gates) = Len(photos) /\ Len(faces) = Len(eligible)
  BY DEF FinishPhoto, Matched
<1>2. /\ i \in 1 .. Len(photos) /\ i \in 1 .. Len(gates) /\ photo \in Photos
      /\ Len(prepared) \in Nat
  BY <1>1, GivenImages DEF Finished, ImagesDecoded
<1>3. /\ Setting' /\ photos' = photos /\ Answering' /\ Reading'
      /\ GatesJudged' /\ Matched'
  <2>1. Setting' /\ photos' = photos
    BY <1>1, SettingKept
  <2>2. read = Len(claimed)
    BY <1>1 DEF Reading, Setting
  <2> QED BY <1>1, <2>1, <2>2 DEF Setting, Answering, Reading, GatesJudged, Matched
<1>4. Decodes(photo, policy) /\ gates[i] = EvaluateImage(photo, policy)
  BY <1>2, GivenImages DEF GatesJudged, ImagesDecoded
<1>5. gates[i].passed => FacesOf(i) = Detected(photo)
  <2> SUFFICES ASSUME gates[i].passed PROVE FacesOf(i) = Detected(photo)
    OBVIOUS
  <2>1. DOMAIN eligible = 1 .. Len(eligible)
    BY DEF GatesJudged
  <2>2. \E k \in DOMAIN eligible : eligible[k] = i
    BY <1>2, <2>1 DEF GatesJudged
  <2> DEFINE k == CHOOSE k \in DOMAIN eligible : eligible[k] = i
  <2>3. k \in DOMAIN eligible /\ eligible[k] = i
    BY <2>2
  <2>4. FacesOf(i) = faces[k]
    BY DEF FacesOf
  <2> HIDE DEF k
  <2>5. faces[k] = Detected(photos[eligible[k]])
    BY <1>1, <2>1, <2>3 DEF Matched
  <2> QED BY <2>3, <2>4, <2>5
<1>6. result = Alone(photo)
  BY <1>2, <1>4, <1>5, AloneResult
<1>7. IF Refused(result)
        THEN error' = result /\ UNCHANGED prepared
        ELSE prepared' = Append(prepared, result) /\ UNCHANGED error
  BY DEF FinishPhoto, Refused
<1> HIDE DEF result, photo
<1>8. CASE Refused(result)
  <2> DEFINE refused == {j \in DOMAIN photos : Refused(Alone(photos[j]))}
  <2>1. DOMAIN photos = 1 .. Len(photos)
    BY GivenImages DEF ImagesDecoded
  <2>3. i \in refused
    BY <1>2, <1>6, <1>8, <2>1 DEF photo
  <2>4. \A j \in refused : i <= j
    <3> SUFFICES ASSUME NEW j \in refused, j < i PROVE FALSE
      BY <1>2, <2>1
    <3>1. j \in 1 .. Len(prepared)
      BY <1>2, <2>1
    <3> QED BY <3>1 DEF Finished
  <2>5. Min(refused) = i
    <3>1. refused \in SUBSET Nat
      BY <2>1
    <3> QED BY <2>3, <2>4, <3>1, FirstIsMin
  <2>6. refused # {} /\ result = Alone(photos[Min(refused)])
    BY <1>6, <2>3, <2>5 DEF photo
  <2> HIDE DEF refused
  <2>7. refused # {} /\ error' = Alone(photos[Min(refused)])
    BY <1>7, <1>8, <2>6
  <2>8. FailsAsAlone'
    BY <1>1, <1>3, <2>7 DEF FailsAsAlone, Alone, refused
  <2>9. Finished'
    BY <1>1, <1>3, <1>7, <1>8, FinishedKept
  <2> QED BY <1>3, <2>8, <2>9
<1>9. CASE ~Refused(result)
  <2>1. prepared' = Append(prepared, result) /\ error' = error
    BY <1>7, <1>9
  <2>2. result \in Outcomes
    BY <1>2, <1>6 DEF Outcomes
  <2>3. /\ prepared' \in Seq(Outcomes) /\ Len(prepared') = i
        /\ prepared'[i] = result
        /\ \A j \in 1 .. Len(prepared) : prepared'[j] = prepared[j]
    BY <2>1, <2>2 DEF Finished
  <2>4. ASSUME NEW j \in 1 .. Len(prepared')
        PROVE  prepared'[j] = Alone(photos[j]) /\ ~Refused(prepared'[j])
    <3>1. CASE j = i
      BY <1>6, <1>9, <2>3, <3>1 DEF photo
    <3>2. CASE j # i
      <4>1. j \in 1 .. Len(prepared)
        BY <1>2, <2>3, <3>2
      <4> QED BY <2>3, <4>1 DEF Finished
    <3> QED BY <3>1, <3>2
  <2>5. Finished'
    <3>1. Outcomes' = Outcomes /\ \A p \in Photos : Alone(p)' = Alone(p)
      BY <1>1 DEF Outcomes, Alone
    <3>2. \A j \in 1 .. Len(prepared') : photos[j] \in Photos
      BY <1>2, <2>3, GivenImages DEF ImagesDecoded
    <3>3. \A j \in 1 .. Len(prepared') :
            prepared'[j] = Alone(photos[j])' /\ ~Refused(prepared'[j])
      BY <1>1, <1>3, <2>4, <3>2 DEF Alone
    <3> QED BY <1>1, <1>2, <1>3, <2>3, <3>1, <3>3 DEF Finished
  <2>6. FailsAsAlone'
    BY <1>1, <2>1 DEF FailsAsAlone
  <2> QED BY <1>3, <2>5, <2>6
<1> QED BY <1>8, <1>9

(* The end of the preparation changes nothing but the answers. *)
LEMMA ToldInv ==
  ASSUME BatchInv, Prepared \/ PreparationFails PROVE BatchInv'
<1> USE DEF BatchInv
<1>1. /\ UNCHANGED <<claimed, read, candidates, policy, gates, eligible, faces,
                     prepared, error>>
      /\ over' = TRUE /\ DOMAIN answers' = DOMAIN claimed
  BY DEF Prepared, PreparationFails, Told
<1>2. Setting' /\ photos' = photos
  BY <1>1, SettingKept
<1>3. Answering' /\ Reading' /\ GatesJudged' /\ Matched'
  BY <1>1, <1>2 DEF Answering, Reading, GatesJudged, Matched
<1>4. Finished' /\ FailsAsAlone'
  BY <1>1, <1>2, FinishedKept DEF FailsAsAlone, Alone
<1> QED BY <1>2, <1>3, <1>4

LEMMA BatchStep == BatchInv /\ [BatchNext]_batchVars => BatchInv'
<1> SUFFICES ASSUME BatchInv, [BatchNext]_batchVars PROVE BatchInv'
  OBVIOUS
<1>1. CASE DecodePhoto
  BY <1>1, DecodeInv
<1>2. CASE Judge
  BY <1>2, JudgeInv
<1>3. CASE DetectBatch
  BY <1>3, DetectInv
<1>4. CASE FinishPhoto
  BY <1>4, FinishInv
<1>5. CASE Prepared \/ PreparationFails
  BY <1>5, ToldInv
<1>6. CASE UNCHANGED batchVars
  <2>1. UNCHANGED <<claimed, read, candidates, policy, gates, eligible, faces,
                    prepared, error, answers, over>>
    BY <1>6 DEF batchVars
  <2>2. Setting' /\ photos' = photos
    BY <2>1, SettingKept DEF BatchInv
  <2>3. Answering' /\ Reading' /\ GatesJudged' /\ Matched'
    BY <2>1, <2>2 DEF BatchInv, Answering, Reading, GatesJudged, Matched
  <2>4. Finished' /\ FailsAsAlone'
    BY <2>1, <2>2, FinishedKept DEF BatchInv, FailsAsAlone, Alone
  <2> QED BY <2>2, <2>3, <2>4 DEF BatchInv
<1> QED BY <1>1, <1>2, <1>3, <1>4, <1>5, <1>6 DEF BatchNext

-----------------------------------------------------------------------------

(* The types of the batch preparation's state: no loop of
   prepare_face_inputs_from_images runs past the batch. *)
THEOREM BatchTypeCorrect == BatchSpec => []BatchTypeOK
<1>1. BatchInv => BatchTypeOK
  <2> SUFFICES ASSUME BatchInv PROVE BatchTypeOK
    OBVIOUS
  <2>1. Len(photos) = Len(candidates)
    BY GivenImages DEF BatchInv, ImagesDecoded
  <2>2. Range(claimed) \subseteq Photos /\ Range(candidates) \subseteq 1 .. read
    BY DEF BatchInv, Setting, Range
  <2> QED
    BY <2>1, <2>2
    DEF BatchInv, BatchTypeOK, Setting, Answering, GatesJudged, Matched, Finished
<1> QED BY <1>1, InitInv, BatchStep, PTL DEF BatchSpec

(* Every photograph of a batch gets from prepare_face_inputs_from_images what
   prepare_face_input gives it alone, and a batch fails only as its first bad
   photograph would: for batches of every size. *)
THEOREM PreparedAsAlone == BatchSpec => []BatchAgrees
<1>1. BatchInv => BatchAgrees
  <2> SUFFICES ASSUME BatchInv PROVE BatchAgrees
    OBVIOUS
  <2>1. \A i \in DOMAIN prepared : prepared[i] = Alone(photos[i])
    BY DEF BatchInv, Finished
  <2> QED BY <2>1 DEF BatchInv, BatchAgrees, FailsAsAlone
<1> QED BY <1>1, InitInv, BatchStep, PTL DEF BatchSpec

(* No photograph the batch prepares for matching has landmarks and a covering
   the detectors know: for every frame, box and policy. *)
THEOREM CoveredRefused == BatchSpec => []NothingUnchecked
<1>1. ASSUME BatchInv, NEW i \in DOMAIN prepared,
             prepared[i].status = "ok", photos[i].landmarks
      PROVE  photos[i].worn \cap policy.detects = {}
  <2>1. /\ photos[i] \in Photos /\ policy \in Policies
        /\ prepared[i] = Alone(photos[i])
    BY <1>1, GivenImages DEF BatchInv, ImagesDecoded, Setting, Finished
  <2>2. Decodes(photos[i], policy)
    BY <1>1, GivenImages DEF BatchInv, ImagesDecoded, Finished
  <2>3. CASE EvaluateImage(photos[i], policy).passed
    <3>1. PrepareFromDetection(photos[i], Detected(photos[i]), policy).status = "ok"
      BY <1>1, <2>1, <2>2, <2>3, AloneResult
    <3> QED BY <1>1, <2>1, <3>1, OkUncovered
  <2>4. CASE ~EvaluateImage(photos[i], policy).passed
    <3>1. prepared[i] = RejectedBy("quality_reject", EvaluateImage(photos[i], policy))
      BY <2>1, <2>2, <2>4, AloneResult
    <3> QED BY <1>1, <3>1 DEF RejectedBy, Outcome
  <2> QED BY <2>3, <2>4
<1>2. BatchInv => NothingUnchecked
  BY <1>1 DEF NothingUnchecked
<1> QED BY <1>2, InitInv, BatchStep, PTL DEF BatchSpec

-----------------------------------------------------------------------------
(* The types of the state of verification.  They rest on the permits, every
   one that is out held by a request whose extraction runs, and on the order of
   the stages: who searches was checked. *)

Extracting == {r \in Requests : stage[r] = "extracting"}

Checked == \A r \in Requests : stage[r] = "searching" => replay[r] \in BOOLEAN

TypeInv ==
  VerifyTypeOK /\ permits + Cardinality(Extracting) <= Permits /\ Checked

LEMMA ExtractingFinite ==
  IsFiniteSet(Extracting) /\ Cardinality(Extracting) \in Nat
<1>1. Extracting \subseteq Verifications
  BY DEF Extracting, Verifications
<1> QED BY <1>1, FS_Subset, FS_CardinalityType, CasesAssumption

LEMMA LiveBoolean == \A v, features : LiveOf(v, features) \in BOOLEAN
<1>1. LivenessPassed(NoSignals) \in BOOLEAN
  BY DEF LivenessPassed
<1> QED BY <1>1 DEF LiveOf

LEMMA LabelType ==
  \A similarity, status :
    ConfidenceLabel(similarity, status) \in {"high", "medium", "low", None}
BY DEF ConfidenceLabel

LEMMA ElementIn ==
  ASSUME NEW S, NEW seq \in Seq(S), NEW i \in DOMAIN seq PROVE seq[i] \in S
  OBVIOUS

LEMMA CaseFields ==
  ASSUME NEW case \in Cases
  PROVE  /\ TopUser(case.top) \in Users \cup {None}
         /\ case.features.status \in
              {"ok", "retry", "quality_reject", "spoof", "raised", "failed"}
<1>1. CaseOK(case)
  BY CasesAssumption
<1>2. CASE case.top = <<>>
  BY <1>1, <1>2 DEF CaseOK, TopUser
<1>3. CASE case.top # <<>>
  <2>1. case.top \in Seq([user : Users, similarity : Int])
    BY <1>1 DEF CaseOK
  <2>2. 1 \in DOMAIN case.top
    BY <1>3, <2>1
  <2>3. case.top[1] \in [user : Users, similarity : Int]
    BY <2>1, <2>2, ElementIn
  <2> QED BY <1>1, <1>3, <2>3 DEF CaseOK, TopUser
<1> QED BY <1>2, <1>3

LEMMA DecidedType ==
  ASSUME NEW v, NEW case \in Cases, NEW flagged \in BOOLEAN
  PROVE  Decided(v, case, flagged) \in Answers
<1>1. Decide(case.top) \in {"match", "low_confidence", "no_match"}
  BY DEF Decide
<1>2. ChallengeRecommended(case.top) \in BOOLEAN
  BY DEF ChallengeRecommended
<1>3. LiveOf(v, case.features) \in BOOLEAN
  BY LiveBoolean
<1>4. ConfidenceLabel(Top(case.top), Decide(case.top)) \in
        {"high", "medium", "low", None}
  BY LabelType
<1>5. (IF Decide(case.top) = "match" THEN TopUser(case.top) ELSE None)
        \in Users \cup {None}
  BY CaseFields
<1> QED BY <1>1, <1>2, <1>3, <1>4, <1>5 DEF Decided, Answer, Answers, Statuses

LEMMA UnsearchedType ==
  ASSUME NEW v, NEW case \in Cases, NEW flagged \in BOOLEAN
  PROVE  Unsearched(v, case, flagged) \in Answers \cup {None}
<1>1. Answer("spoof_detected", None, None, FALSE, flagged, FALSE) \in Answers
  BY DEF Answer, Answers, Statuses
<1>2. \A status \in {"retry", "quality_reject"} :
        Answer(status, None, None, None, flagged, FALSE) \in Answers
  BY DEF Answer, Answers, Statuses
<1> QED BY <1>1, <1>2 DEF Unsearched

LEMMA ErrorType ==
  ASSUME NEW features
  PROVE  ExtractionError(features) \in Answers
<1>1. \A live \in {FALSE, None} :
        Answer("processing_failed", None, None, live, FALSE, FALSE) \in Answers
  BY DEF Answer, Answers, Statuses
<1>2. ConfidenceLabel(0, "no_match") \in {"high", "medium", "low", None}
  BY LabelType
<1>3. Answer("no_match", None, ConfidenceLabel(0, "no_match"), None, FALSE, FALSE)
        \in Answers
  BY <1>2 DEF Answer, Answers, Statuses
<1> QED BY <1>1, <1>3 DEF ExtractionError

(* What the anti-replay check of v leaves behind. *)
LEMMA CheckedType ==
  ASSUME VerifyTypeOK, NEW v \in Verifications, CheckReplay(v)
  PROVE  /\ replay' \in [Verifications -> BOOLEAN \cup {None}]
         /\ replay'[v] \in BOOLEAN
         /\ seen' \subseteq Images
         /\ failures' \in Nat /\ (failures' = 0 => failures = 0)
<1>1. asked[v].image \in Images /\ seen \subseteq Images /\ failures \in Nat
  BY DEF VerifyTypeOK, Images
<1>2. Flagged(v) \in BOOLEAN
  BY DEF Flagged
<1>3. CASE /\ replay' = [replay EXCEPT ![v] = Flagged(v)]
           /\ seen' = seen \cup {asked[v].image}
           /\ UNCHANGED failures
  BY <1>1, <1>2, <1>3 DEF VerifyTypeOK
<1>4. CASE /\ Setback
           /\ replay' = [replay EXCEPT ![v] = FALSE]
           /\ seen' \in {seen, seen \cup {asked[v].image}}
  <2>1. failures' = failures + 1
    BY <1>4 DEF Setback
  <2> QED BY <1>1, <1>4, <2>1 DEF VerifyTypeOK
<1> QED BY <1>3, <1>4 DEF CheckReplay

LEMMA OtherKept ==
  ASSUME VerifyTypeOK, NEW v \in Verifications, CheckReplay(v),
         NEW w \in Verifications \ {v}
  PROVE  replay'[w] = replay[w]
BY DEF CheckReplay, VerifyTypeOK

(* The job at hand and what may be answered for it. *)
LEMMA JobAtHand ==
  ASSUME VerifyTypeOK, AtHand
  PROVE  /\ next \in DOMAIN Batch /\ next \in Nat /\ next <= Len(Batch)
         /\ next + 1 \in 1 .. Len(Batch) + 1
         /\ Current \in JobSet /\ Current \in Verifications \ Requests
         /\ asked[Current] \in Cases
<1>1. next \in DOMAIN Batch /\ next + 1 \in 1 .. Len(Batch) + 1
  BY CasesAssumption DEF AtHand, VerifyTypeOK
<1>2. Current \in JobSet
  BY <1>1 DEF Current, JobSet
<1> QED BY <1>1, <1>2, CasesAssumption DEF AtHand, VerifyTypeOK, Verifications

LEMMA ResultType ==
  ASSUME VerifyTypeOK, NEW v \in Verifications, replay[v] \in BOOLEAN
  PROVE  Result(v) \in Answers
<1>1. asked[v] \in Cases
  BY DEF VerifyTypeOK
<1> QED BY <1>1, UnsearchedType, DecidedType DEF Result

LEMMA JobErrorType == Error \in Answers
BY DEF Error, Answer, Answers, Statuses

LEMMA JudgedType ==
  ASSUME VerifyTypeOK, InJudgement
  PROVE  replay[Current] \in BOOLEAN /\ Result(Current) \in Answers
<1>1. Current \in Verifications
  BY JobAtHand DEF InJudgement
<1>2. replay[Current] \in BOOLEAN
  BY <1>1 DEF InJudgement, VerifyTypeOK
<1> QED BY <1>1, <1>2, ResultType

LEMMA AskedInit == VerifyInit => asked \in [Verifications -> Cases]
<1> SUFFICES ASSUME VerifyInit PROVE asked \in [Verifications -> Cases]
  OBVIOUS
<1>1. PICK f \in [Requests -> RequestCases], g \in [JobSet -> JobCases] :
        asked = [v \in Verifications |-> IF v \in Requests THEN f[v] ELSE g[v]]
  BY DEF VerifyInit
<1> QED BY <1>1 DEF Verifications, Cases

LEMMA VerifyInitTypes == VerifyInit => TypeInv
<1> SUFFICES ASSUME VerifyInit PROVE TypeInv
  OBVIOUS
<1>1. VerifyTypeOK
  <2>1. Len(Batch) \in Nat
    BY CasesAssumption
  <2>2. 1 \in 1 .. Len(Batch) + 1
    BY <2>1
  <2>3. permits \in 0 .. Permits
    BY CasesAssumption DEF VerifyInit
  <2> QED BY AskedInit, <2>2, <2>3 DEF VerifyInit, VerifyTypeOK, Stages
<1>2. Extracting = {}
  BY DEF VerifyInit, Extracting
<1>3. Cardinality(Extracting) = 0
  BY <1>2, FS_EmptySet
<1> QED BY <1>1, <1>3, CasesAssumption DEF TypeInv, VerifyInit, Checked

LEMMA TypeStep == TypeInv /\ [VerifyNext]_verifyVars => TypeInv'
<1> SUFFICES ASSUME TypeInv, [VerifyNext]_verifyVars PROVE TypeInv'
  OBVIOUS
<1> USE DEF UNCHANGEDBatch, UNCHANGEDRequests
<1>0. /\ VerifyTypeOK /\ permits \in Nat /\ Permits \in Nat
      /\ permits + Cardinality(Extracting) <= Permits
      /\ IsFiniteSet(Extracting) /\ Cardinality(Extracting) \in Nat
      /\ stage \in [Requests -> Stages] /\ failures \in Nat
      /\ Checked
  BY ExtractingFinite, CasesAssumption DEF TypeInv, VerifyTypeOK
<1>1. ASSUME NEW r \in Requests, Start(r) PROVE TypeInv'
  <2>1. /\ permits' = permits - 1 /\ permits > 0
        /\ stage' = [stage EXCEPT ![r] = "extracting"] /\ stage[r] = "new"
        /\ UNCHANGED <<asked, seen, replay, answer, next, session, lapses, failures>>
    BY <1>1 DEF Start
  <2>2. Extracting' = Extracting \cup {r} /\ r \notin Extracting
    BY <1>0, <2>1 DEF Extracting
  <2>3. Cardinality(Extracting') = Cardinality(Extracting) + 1
    BY <1>0, <2>2, FS_AddElement
  <2>4. permits' \in 0 .. Permits /\ permits' + Cardinality(Extracting') <= Permits
    BY <1>0, <2>1, <2>3
  <2>5. VerifyTypeOK'
    BY <1>0, <2>1, <2>4 DEF VerifyTypeOK, Stages
  <2>6. Checked'
    BY <1>0, <2>1 DEF Checked
  <2> QED BY <2>4, <2>5, <2>6 DEF TypeInv, Extracting
<1>2. ASSUME NEW r \in Requests, Extract(r) PROVE TypeInv'
  <2>1. /\ permits' = permits + 1 /\ stage[r] = "extracting"
        /\ \E to \in {"extracted", "answered"} : stage' = [stage EXCEPT ![r] = to]
        /\ \/ UNCHANGED answer
           \/ answer' = [answer EXCEPT ![r] = ExtractionError(asked[r].features)]
        /\ UNCHANGED <<asked, seen, replay, next, session, lapses, failures>>
    BY <1>2 DEF Extract, Released
  <2>2. Extracting' = Extracting \ {r} /\ r \in Extracting
    BY <1>0, <2>1 DEF Extracting
  <2>3. Cardinality(Extracting') = Cardinality(Extracting) - 1
    BY <1>0, <2>2, FS_RemoveElement
  <2>4. Cardinality(Extracting') \in Nat
    BY <1>0, <2>2, FS_RemoveElement, FS_CardinalityType
  <2>5. permits' \in 0 .. Permits /\ permits' + Cardinality(Extracting') <= Permits
    BY <1>0, <2>1, <2>3, <2>4
  <2>6. answer' \in [Verifications -> Answers \cup {None}]
    BY <1>0, <2>1, ErrorType DEF VerifyTypeOK
  <2>7. VerifyTypeOK'
    BY <1>0, <2>1, <2>5, <2>6 DEF VerifyTypeOK, Stages
  <2>8. Checked'
    BY <1>0, <2>1 DEF Checked
  <2> QED BY <2>5, <2>7, <2>8 DEF TypeInv, Extracting
<1>3. ASSUME UNCHANGED permits, Extracting' = Extracting, VerifyTypeOK', Checked'
      PROVE  TypeInv'
  BY <1>0, <1>3 DEF TypeInv
<1>4. ASSUME NEW r \in Requests, Check(r) PROVE TypeInv'
  <2>1. /\ stage[r] = "extracted" /\ CheckReplay(r)
        /\ \E to \in {"searching", "answered"} : stage' = [stage EXCEPT ![r] = to]
        /\ UNCHANGED <<asked, permits, next, session, lapses>>
    BY <1>4 DEF Check
  <2>2. r \in Verifications /\ asked[r] \in Cases
    BY <1>0 DEF Verifications, VerifyTypeOK
  <2>3. /\ replay' \in [Verifications -> BOOLEAN \cup {None}]
        /\ replay'[r] \in BOOLEAN /\ seen' \subseteq Images /\ failures' \in Nat
    BY <1>0, <2>1, <2>2, CheckedType
  <2>4. answer' \in [Verifications -> Answers \cup {None}]
    <3>1. \/ UNCHANGED answer
          \/ answer' = [answer EXCEPT ![r] = Unsearched(r, asked[r], replay'[r])]
      BY <1>4 DEF Check
    <3>2. Unsearched(r, asked[r], replay'[r]) \in Answers \cup {None}
      BY <2>2, <2>3, UnsearchedType
    <3> QED BY <1>0, <3>1, <3>2 DEF VerifyTypeOK
  <2>5. VerifyTypeOK'
    BY <1>0, <2>1, <2>3, <2>4 DEF VerifyTypeOK, Stages
  <2>6. Extracting' = Extracting
    BY <1>0, <2>1 DEF Extracting
  <2>7. Checked'
    <3>1. \A q \in Requests \ {r} : stage'[q] = stage[q] /\ replay'[q] = replay[q]
      BY <1>0, <2>1, OtherKept DEF VerifyTypeOK, Verifications
    <3> QED BY <1>0, <2>3, <3>1 DEF Checked
  <2> QED BY <1>3, <2>1, <2>5, <2>6, <2>7
<1>5. ASSUME NEW r \in Requests, Search(r) PROVE TypeInv'
  <2>1. /\ stage[r] = "searching" /\ stage' = [stage EXCEPT ![r] = "answered"]
        /\ answer' = [answer EXCEPT ![r] = Decided(r, asked[r], replay[r])]
        /\ UNCHANGED <<asked, permits, seen, replay, next, session, lapses, failures>>
    BY <1>5 DEF Search
  <2>2. r \in Verifications /\ asked[r] \in Cases
    BY <1>0 DEF Verifications, VerifyTypeOK
  <2>3. Decided(r, asked[r], replay[r]) \in Answers
    BY <1>0, <2>1, <2>2, DecidedType DEF Checked
  <2>4. VerifyTypeOK'
    BY <1>0, <2>1, <2>3 DEF VerifyTypeOK, Stages
  <2>5. Extracting' = Extracting
    BY <1>0, <2>1 DEF Extracting
  <2>6. Checked'
    BY <1>0, <2>1 DEF Checked
  <2> QED BY <1>3, <2>1, <2>4, <2>5, <2>6
<1>6. CASE CheckJob
  <2>1. /\ CheckReplay(Current) /\ AtHand
        /\ UNCHANGED <<asked, stage, permits, answer, next, session, lapses>>
    BY <1>6 DEF CheckJob
  <2>2. Current \in Verifications \ Requests
    BY <1>0, <2>1, JobAtHand
  <2>3. /\ replay' \in [Verifications -> BOOLEAN \cup {None}]
        /\ seen' \subseteq Images /\ failures' \in Nat
    BY <1>0, <2>1, <2>2, CheckedType
  <2>4. VerifyTypeOK' /\ Extracting' = Extracting
    BY <1>0, <2>1, <2>3 DEF VerifyTypeOK, Extracting
  <2>5. \A q \in Requests : replay'[q] = replay[q]
    BY <1>0, <2>1, <2>2, OtherKept DEF VerifyTypeOK, Verifications
  <2>6. Checked'
    BY <1>0, <2>1, <2>5 DEF Checked
  <2> QED BY <1>3, <2>1, <2>4, <2>6
<1>7. CASE \/ SkipJob \/ JudgeJob \/ DatabaseFails \/ SessionLost
  <2>1. /\ UNCHANGED <<asked, stage, permits, seen, replay, lapses>>
        /\ failures' \in {failures, failures + 1}
        /\ session' \in {session, "broken", "lost"}
        /\ \/ next' = next
           \/ AtHand /\ next' = next + 1
    <3>1. CASE SkipJob
      BY <3>1 DEF SkipJob
    <3>2. CASE JudgeJob
      BY <3>2 DEF JudgeJob, Judgeable, InJudgement, Setback
    <3>3. CASE DatabaseFails
      BY <3>3 DEF DatabaseFails, InJudgement, Setback
    <3>4. CASE SessionLost
      BY <3>4 DEF SessionLost, Setback
    <3> QED BY <1>7, <3>1, <3>2, <3>3, <3>4
  <2>2. \/ UNCHANGED answer
        \/ InJudgement /\ answer' = [answer EXCEPT ![Current] = Result(Current)]
        \/ InJudgement /\ answer' = [answer EXCEPT ![Current] = Error]
    BY <1>7 DEF SkipJob, JudgeJob, DatabaseFails, SessionLost, Judgeable
  <2>3. answer' \in [Verifications -> Answers \cup {None}]
    BY <1>0, <2>2, JudgedType, JobErrorType DEF VerifyTypeOK
  <2>4. next' \in 1 .. Len(Batch) + 1
    BY <1>0, <2>1, JobAtHand DEF VerifyTypeOK
  <2>5. VerifyTypeOK' /\ Checked' /\ Extracting' = Extracting
    BY <1>0, <2>1, <2>3, <2>4 DEF VerifyTypeOK, Checked, Extracting
  <2> QED BY <1>3, <2>1, <2>5
<1>8. ASSUME NEW r \in Requests, SearchFails(r) PROVE TypeInv'
  <2>1. /\ stage[r] = "searching" /\ stage' = [stage EXCEPT ![r] = "lost"]
        /\ failures' = failures + 1
        /\ UNCHANGED <<asked, permits, seen, replay, answer, next, session, lapses>>
    BY <1>8 DEF SearchFails, Setback
  <2>2. VerifyTypeOK' /\ Checked' /\ Extracting' = Extracting
    BY <1>0, <2>1 DEF VerifyTypeOK, Stages, Checked, Extracting
  <2> QED BY <1>3, <2>1, <2>2
<1>9. ASSUME NEW image \in Images, LapseKey(image) PROVE TypeInv'
  <2>1. /\ seen' = seen \ {image} /\ lapses' = [lapses EXCEPT ![image] = @ + 1]
        /\ UNCHANGED <<asked, stage, permits, replay, answer, next, session, failures>>
    BY <1>9 DEF LapseKey
  <2>2. VerifyTypeOK' /\ Checked' /\ Extracting' = Extracting
    BY <1>0, <2>1 DEF VerifyTypeOK, Checked, Extracting
  <2> QED BY <1>3, <2>1, <2>2
<1>10. CASE \/ \E log \in tasks : WriteLog(log)
           \/ CommitBatch \/ UNCHANGED verifyVars
  <2>1. /\ UNCHANGED <<asked, stage, permits, seen, replay, answer, next, lapses>>
        /\ session' \in {session, "committed", "lost"}
        /\ failures' \in {failures, failures + 1}
    BY <1>10 DEF WriteLog, CommitBatch, Setback, verifyVars
  <2>2. VerifyTypeOK' /\ Checked' /\ Extracting' = Extracting
    BY <1>0, <2>1 DEF VerifyTypeOK, Checked, Extracting
  <2> QED BY <1>3, <2>1, <2>2
<1>11. CASE Restart
  <2>1. /\ UNCHANGED <<asked, seen, replay, answer, next, session, lapses>>
        /\ failures' = failures + 1 /\ permits' = Permits
        /\ stage' = [r \in Requests |->
                       IF stage[r] \in {"new", "answered"} THEN stage[r] ELSE "lost"]
    BY <1>11 DEF Restart, Setback
  <2>2. VerifyTypeOK' /\ Checked' /\ Extracting' = {}
    BY <1>0, <2>1 DEF VerifyTypeOK, Checked, Extracting, Stages
  <2>3. Cardinality(Extracting') = 0
    BY <2>2, FS_EmptySet
  <2> QED BY <1>0, <2>1, <2>2, <2>3 DEF TypeInv
<1> QED BY <1>1, <1>2, <1>4, <1>5, <1>6, <1>7, <1>8, <1>9, <1>10, <1>11 DEF VerifyNext

(* The types of what verification keeps, among them that no more permits are
   given back than were taken, for any number of requests and restarts. *)
THEOREM VerifyTypeCorrect == VerifySpec => []VerifyTypeOK
<1>1. TypeInv => VerifyTypeOK
  BY DEF TypeInv
<1> QED BY <1>1, VerifyInitTypes, TypeStep, PTL DEF VerifySpec

-----------------------------------------------------------------------------
(* The anti-replay keys.  Every verification is checked once. *)

Fresh(image) ==
  {v \in Verifications : asked[v].image = image /\ replay[v] = FALSE}

(* replay is None until the check, which is that of the job at hand at the
   latest. *)
Unchecked ==
  /\ \A r \in Requests :
       stage[r] \in {"new", "extracting", "extracted"} => replay[r] = None
  /\ next \in Nat \ {0}
  /\ \A k \in DOMAIN Batch : k > next => replay[Batch[k]] = None

(* An image is fresh once for every time its key was not there. *)
Once ==
  \A image \in Images :
    /\ Cardinality(Fresh(image)) <=
         lapses[image] + failures + (IF image \in seen THEN 1 ELSE 0)
    /\ image \in seen => Fresh(image) # {}
    /\ \A v \in Verifications :
         asked[v].image = image /\ replay[v] = TRUE => Fresh(image) # {}

ReplayInv ==
  /\ asked \in [Verifications -> Cases]
  /\ stage \in [Requests -> Stages]
  /\ replay \in [Verifications -> BOOLEAN \cup {None}]
  /\ lapses \in [Images -> Nat] /\ failures \in Nat
  /\ seen \subseteq Images
  /\ Unchecked /\ Once

LEMMA FreshFinite ==
  ASSUME NEW image
  PROVE  IsFiniteSet(Fresh(image)) /\ Cardinality(Fresh(image)) \in Nat
<1>1. Fresh(image) \subseteq Verifications
  BY DEF Fresh
<1> QED BY <1>1, FS_Subset, FS_CardinalityType, CasesAssumption

LEMMA ReplayInitInv == VerifyInit => ReplayInv
<1> SUFFICES ASSUME VerifyInit PROVE ReplayInv
  OBVIOUS
<1>1. /\ asked \in [Verifications -> Cases]
      /\ stage \in [Requests -> Stages]
      /\ replay \in [Verifications -> BOOLEAN \cup {None}]
      /\ \A v \in Verifications : replay[v] = None
      /\ lapses \in [Images -> Nat] /\ failures = 0 /\ seen = {} /\ next = 1
      /\ \A image \in Images : lapses[image] = 0
  BY AskedInit DEF VerifyInit, Stages
<1>2. Unchecked
  BY <1>1 DEF Unchecked, Verifications, JobSet
<1>3. \A image : Fresh(image) = {}
  BY <1>1, CasesAssumption DEF Fresh
<1>4. \A image : Cardinality(Fresh(image)) = 0
  BY <1>3, FS_EmptySet
<1>5. \A v \in Verifications : replay[v] # TRUE
  BY <1>1, CasesAssumption
<1>6. Once
  <2> SUFFICES ASSUME NEW image \in Images
               PROVE  Cardinality(Fresh(image)) <=
                        lapses[image] + failures + (IF image \in seen THEN 1 ELSE 0)
    BY <1>1, <1>5 DEF Once
  <2>1. lapses[image] = 0 /\ image \notin seen
    BY <1>1
  <2> QED BY <1>1, <1>4, <2>1
<1> QED BY <1>1, <1>2, <1>6 DEF ReplayInv

(* The check of one verification that was not checked before. *)
LEMMA CheckedOnce ==
  ASSUME ReplayInv, NEW v \in Verifications, replay[v] = None, CheckReplay(v),
         UNCHANGED <<asked, lapses>>
  PROVE  /\ Once'
         /\ replay' \in [Verifications -> BOOLEAN \cup {None}]
         /\ \A w \in Verifications \ {v} : replay'[w] = replay[w]
         /\ failures' \in Nat /\ seen' \subseteq Images
<1>1. /\ asked[v].image \in Images
      /\ replay \in [Verifications -> BOOLEAN \cup {None}]
      /\ failures \in Nat /\ seen \subseteq Images /\ lapses \in [Images -> Nat]
  BY DEF ReplayInv, Images
<1>2. PICK flagged \in BOOLEAN : replay' = [replay EXCEPT ![v] = flagged]
  <2>1. Flagged(v) \in BOOLEAN
    BY DEF Flagged
  <2>2. \/ replay' = [replay EXCEPT ![v] = Flagged(v)]
        \/ replay' = [replay EXCEPT ![v] = FALSE]
    BY DEF CheckReplay
  <2> QED BY <2>1, <2>2
<1>3. /\ replay' \in [Verifications -> BOOLEAN \cup {None}]
      /\ replay'[v] = flagged
      /\ \A w \in Verifications \ {v} : replay'[w] = replay[w]
  BY <1>1, <1>2
<1>4. /\ failures' \in Nat /\ failures' >= failures
      /\ seen \subseteq seen' /\ seen' \subseteq seen \cup {asked[v].image}
      /\ \/ /\ flagged = (asked[v].image \in seen) /\ asked[v].image \in seen'
            /\ failures' = failures
         \/ ~flagged /\ failures' = failures + 1
  <2>1. replay'[v] = flagged
    BY <1>3
  <2>2. CASE /\ replay' = [replay EXCEPT ![v] = Flagged(v)]
             /\ seen' = seen \cup {asked[v].image} /\ UNCHANGED failures
    <3>1. flagged = Flagged(v)
      BY <1>1, <2>1, <2>2
    <3> QED BY <1>1, <2>2, <3>1 DEF Flagged
  <2>3. CASE /\ Setback /\ replay' = [replay EXCEPT ![v] = FALSE]
             /\ seen' \in {seen, seen \cup {asked[v].image}}
    <3>1. ~flagged /\ failures' = failures + 1
      BY <1>1, <2>1, <2>3 DEF Setback
    <3> QED BY <1>1, <2>3, <3>1
  <2> QED BY <2>2, <2>3 DEF CheckReplay
<1>5. ASSUME NEW image \in Images
      PROVE  /\ Cardinality(Fresh(image)') <=
                  lapses[image] + failures' + (IF image \in seen' THEN 1 ELSE 0)
             /\ image \in seen' => Fresh(image)' # {}
             /\ \A w \in Verifications :
                  asked[w].image = image /\ replay'[w] = TRUE => Fresh(image)' # {}
  <2>1. /\ Cardinality(Fresh(image)) <=
             lapses[image] + failures + (IF image \in seen THEN 1 ELSE 0)
        /\ image \in seen => Fresh(image) # {}
        /\ \A w \in Verifications :
             asked[w].image = image /\ replay[w] = TRUE => Fresh(image) # {}
    BY DEF ReplayInv, Once
  <2>2. lapses[image] \in Nat /\ Cardinality(Fresh(image)) \in Nat
    BY <1>1, FreshFinite
  <2>3. v \notin Fresh(image)
    BY CasesAssumption DEF Fresh
  <2>4. CASE image # asked[v].image \/ flagged
    <3>1. Fresh(image)' = Fresh(image)
      BY <1>3, <2>3, <2>4 DEF Fresh
    <3>2. image \in seen' <=> image \in seen
      BY <1>4, <2>4
    <3>3. Cardinality(Fresh(image)') <=
            lapses[image] + failures' + (IF image \in seen' THEN 1 ELSE 0)
      BY <1>1, <1>4, <2>1, <2>2, <3>1, <3>2
    <3>4. image = asked[v].image => image \in seen
      BY <1>4, <2>4
    <3>5. ASSUME NEW w \in Verifications, asked[w].image = image, replay'[w] = TRUE
          PROVE  Fresh(image)' # {}
      <4>1. CASE w = v
        BY <2>1, <3>1, <3>4, <3>5, <4>1
      <4>2. CASE w # v
        BY <1>3, <2>1, <3>1, <3>5, <4>2
      <4> QED BY <4>1, <4>2
    <3> QED BY <2>1, <3>1, <3>2, <3>3, <3>5
  <2>5. CASE image = asked[v].image /\ ~flagged
    <3>1. Fresh(image)' = Fresh(image) \cup {v}
      BY <1>3, <2>5 DEF Fresh
    <3>2. Cardinality(Fresh(image)') = Cardinality(Fresh(image)) + 1
      BY <2>3, <3>1, FreshFinite, FS_AddElement
    <3>3. \/ image \notin seen /\ image \in seen' /\ failures' = failures
          \/ failures' = failures + 1
      BY <1>4, <2>5
    <3>4. Cardinality(Fresh(image)') <=
            lapses[image] + failures' + (IF image \in seen' THEN 1 ELSE 0)
      BY <1>1, <1>4, <2>1, <2>2, <3>2, <3>3
    <3> QED BY <3>1, <3>4
  <2> QED BY <2>4, <2>5
<1>6. Once'
  BY <1>5 DEF Once
<1> QED BY <1>1, <1>3, <1>4, <1>6

(* The steps that check nothing. *)
LEMMA UncheckedKept ==
  ASSUME ReplayInv, UNCHANGED <<asked, replay, seen, lapses>>,
         failures' \in {failures, failures + 1},
         stage' \in [Requests -> Stages],
         \A r \in Requests :
           stage'[r] \in {"new", "extracting", "extracted"} =>
             stage[r] \in {"new", "extracting", "extracted"},
         next' \in {next, next + 1}
  PROVE  ReplayInv'
<1>1. Unchecked'
  <2>1. next \in Nat \ {0} /\ next' \in Nat \ {0} /\ next' >= next
    BY DEF ReplayInv, Unchecked
  <2>2. ASSUME NEW k \in DOMAIN Batch, k > next' PROVE replay[Batch[k]] = None
    <3>1. k \in Nat
      BY CasesAssumption
    <3> QED BY <2>1, <2>2, <3>1 DEF ReplayInv, Unchecked
  <2>3. \A r \in Requests :
          stage'[r] \in {"new", "extracting", "extracted"} => replay[r] = None
    BY DEF ReplayInv, Unchecked
  <2> QED BY <2>1, <2>2, <2>3 DEF Unchecked
<1>2. \A image : Fresh(image)' = Fresh(image)
  BY DEF Fresh
<1>3. failures' \in Nat /\ failures' >= failures
  BY DEF ReplayInv
<1>4. Once'
  <2> SUFFICES ASSUME NEW image \in Images
      PROVE  /\ Cardinality(Fresh(image)) <=
                  lapses[image] + failures' + (IF image \in seen THEN 1 ELSE 0)
             /\ image \in seen => Fresh(image) # {}
             /\ \A v \in Verifications :
                  asked[v].image = image /\ replay[v] = TRUE => Fresh(image) # {}
    BY <1>2 DEF Once
  <2>1. lapses[image] \in Nat /\ Cardinality(Fresh(image)) \in Nat /\ failures \in Nat
    BY FreshFinite DEF ReplayInv
  <2> QED BY <1>3, <2>1 DEF ReplayInv, Once
<1> QED BY <1>1, <1>3, <1>4 DEF ReplayInv

LEMMA LapseKeyInv ==
  ASSUME ReplayInv, NEW image \in Images, LapseKey(image) PROVE ReplayInv'
<1>1. /\ image \in seen /\ seen' = seen \ {image}
      /\ lapses' = [lapses EXCEPT ![image] = @ + 1]
      /\ UNCHANGED <<asked, stage, replay, failures, next>>
  BY DEF LapseKey, UNCHANGEDBatch
<1>2. lapses \in [Images -> Nat] /\ failures \in Nat
  BY DEF ReplayInv
<1>3. lapses' \in [Images -> Nat] /\ Unchecked'
  BY <1>1, <1>2 DEF ReplayInv, Unchecked
<1>4. \A other : Fresh(other)' = Fresh(other)
  BY <1>1 DEF Fresh
<1>5. Once'
  <2> SUFFICES ASSUME NEW other \in Images
      PROVE  /\ Cardinality(Fresh(other)) <=
                  lapses'[other] + failures + (IF other \in seen' THEN 1 ELSE 0)
             /\ other \in seen' => Fresh(other) # {}
             /\ \A v \in Verifications :
                  asked[v].image = other /\ replay[v] = TRUE => Fresh(other) # {}
    BY <1>1, <1>4 DEF Once
  <2>1. /\ Cardinality(Fresh(other)) <=
             lapses[other] + failures + (IF other \in seen THEN 1 ELSE 0)
        /\ other \in seen => Fresh(other) # {}
        /\ \A v \in Verifications :
             asked[v].image = other /\ replay[v] = TRUE => Fresh(other) # {}
    BY DEF ReplayInv, Once
  <2>2. lapses[other] \in Nat /\ Cardinality(Fresh(other)) \in Nat
    BY <1>2, FreshFinite
  <2>3. CASE other = image
    <3>1. lapses'[other] = lapses[other] + 1 /\ other \in seen /\ other \notin seen'
      BY <1>1, <1>2, <2>3
    <3> QED BY <1>2, <2>1, <2>2, <3>1
  <2>4. CASE other # image
    <3>1. lapses'[other] = lapses[other] /\ (other \in seen' <=> other \in seen)
      BY <1>1, <1>2, <2>4
    <3> QED BY <2>1, <3>1
  <2> QED BY <2>3, <2>4
<1> QED BY <1>1, <1>3, <1>5 DEF ReplayInv

LEMMA CheckInv ==
  ASSUME ReplayInv, NEW r \in Requests, Check(r) PROVE ReplayInv'
<1>1. /\ stage[r] = "extracted" /\ CheckReplay(r)
      /\ UNCHANGED <<asked, lapses, next>>
      /\ \E to \in {"searching", "answered"} : stage' = [stage EXCEPT ![r] = to]
  BY DEF Check, UNCHANGEDBatch
<1>2. r \in Verifications /\ replay[r] = None
  BY <1>1 DEF Verifications, ReplayInv, Unchecked
<1>3. /\ Once' /\ replay' \in [Verifications -> BOOLEAN \cup {None}]
      /\ \A w \in Verifications \ {r} : replay'[w] = replay[w]
      /\ failures' \in Nat /\ seen' \subseteq Images
  BY <1>1, <1>2, CheckedOnce
<1>4. stage' \in [Requests -> Stages]
  BY <1>1 DEF ReplayInv, Stages
<1>5. Unchecked'
  <2>1. \A q \in Requests :
          stage'[q] \in {"new", "extracting", "extracted"} => replay'[q] = None
    BY <1>1, <1>3 DEF ReplayInv, Unchecked, Verifications
  <2>2. \A k \in DOMAIN Batch : Batch[k] \in Verifications \ {r}
    BY CasesAssumption DEF JobSet, Verifications
  <2> QED BY <1>1, <1>3, <2>1, <2>2 DEF ReplayInv, Unchecked
<1> QED BY <1>1, <1>3, <1>4, <1>5 DEF ReplayInv

LEMMA CheckJobInv ==
  ASSUME ReplayInv, CheckJob PROVE ReplayInv'
<1>1. /\ next <= Len(Batch) /\ CheckReplay(Current) /\ replay[Current] = None
      /\ UNCHANGED <<asked, stage, lapses, next>>
  BY DEF CheckJob, AtHand, UNCHANGEDRequests
<1>2. next \in DOMAIN Batch /\ next \in Nat
  BY <1>1, CasesAssumption DEF ReplayInv, Unchecked
<1>3. Current \in Verifications \ Requests
  BY <1>2, CasesAssumption DEF Current, JobSet, Verifications
<1>4. /\ Once' /\ replay' \in [Verifications -> BOOLEAN \cup {None}]
      /\ \A w \in Verifications \ {Current} : replay'[w] = replay[w]
      /\ failures' \in Nat /\ seen' \subseteq Images
  BY <1>1, <1>3, CheckedOnce
<1>5. Unchecked'
  <2>1. \A r \in Requests :
          stage'[r] \in {"new", "extracting", "extracted"} => replay'[r] = None
    BY <1>1, <1>3, <1>4 DEF ReplayInv, Unchecked, Verifications
  <2>2. ASSUME NEW k \in DOMAIN Batch, k > next
        PROVE  replay'[Batch[k]] = None
    <3>1. k # next
      BY <1>2, <2>2
    <3>2. Batch[k] # Current /\ Batch[k] \in Verifications
      BY <1>2, <3>1, CasesAssumption DEF Current, JobSet, Verifications
    <3> QED BY <1>4, <2>2, <3>2 DEF ReplayInv, Unchecked
  <2> QED BY <1>1, <2>1, <2>2 DEF ReplayInv, Unchecked
<1> QED BY <1>1, <1>4, <1>5 DEF ReplayInv

LEMMA VerifyStep == ReplayInv /\ [VerifyNext]_verifyVars => ReplayInv'
<1> SUFFICES ASSUME ReplayInv, [VerifyNext]_verifyVars PROVE ReplayInv'
  OBVIOUS
<1> USE DEF UNCHANGEDBatch, UNCHANGEDRequests
<1>0. stage \in [Requests -> Stages]
  BY DEF ReplayInv
<1>1. ASSUME NEW r \in Requests, Start(r) \/ Extract(r) \/ Search(r) \/ SearchFails(r)
      PROVE  ReplayInv'
  <2>1. /\ UNCHANGED <<asked, replay, seen, lapses, next>>
        /\ failures' \in {failures, failures + 1}
        /\ \/ /\ stage[r] = "new" /\ stage' = [stage EXCEPT ![r] = "extracting"]
           \/ /\ stage[r] = "extracting"
              /\ \E to \in {"extracted", "answered"} : stage' = [stage EXCEPT ![r] = to]
           \/ \E to \in {"answered", "lost"} : stage' = [stage EXCEPT ![r] = to]
    BY <1>1 DEF Start, Extract, Search, SearchFails, Setback
  <2>2. /\ stage' \in [Requests -> Stages]
        /\ \A q \in Requests :
             stage'[q] \in {"new", "extracting", "extracted"} =>
               stage[q] \in {"new", "extracting", "extracted"}
    BY <1>0, <2>1 DEF Stages
  <2> QED BY <2>1, <2>2, UncheckedKept
<1>2. CASE \/ \E log \in tasks : WriteLog(log)
           \/ SkipJob \/ JudgeJob \/ DatabaseFails
           \/ CommitBatch \/ SessionLost \/ UNCHANGED verifyVars
  <2>1. /\ UNCHANGED <<asked, stage, replay, seen, lapses>>
        /\ failures' \in {failures, failures + 1}
        /\ next' \in {next, next + 1}
    <3>1. CASE \E log \in tasks : WriteLog(log)
      BY <3>1 DEF WriteLog, Setback
    <3>2. CASE SkipJob \/ JudgeJob
      BY <3>2 DEF SkipJob, JudgeJob, Setback
    <3>3. CASE DatabaseFails
      BY <3>3 DEF DatabaseFails, Setback
    <3>4. CASE CommitBatch \/ SessionLost \/ UNCHANGED verifyVars
      BY <3>4 DEF CommitBatch, SessionLost, Setback, verifyVars
    <3> QED BY <1>2, <3>1, <3>2, <3>3, <3>4
  <2> QED BY <1>0, <2>1, UncheckedKept
<1>3. CASE Restart
  <2>1. /\ UNCHANGED <<asked, replay, seen, lapses, next>>
        /\ failures' = failures + 1
        /\ stage' = [r \in Requests |->
                       IF stage[r] \in {"new", "answered"} THEN stage[r] ELSE "lost"]
    BY <1>3 DEF Restart, Setback
  <2>2. /\ stage' \in [Requests -> Stages]
        /\ \A q \in Requests :
             stage'[q] \in {"new", "extracting", "extracted"} =>
               stage[q] \in {"new", "extracting", "extracted"}
    BY <1>0, <2>1 DEF Stages
  <2> QED BY <2>1, <2>2, UncheckedKept
<1> QED BY <1>1, <1>2, <1>3, CheckInv, CheckJobInv, LapseKeyInv DEF VerifyNext

(* anti_replay_service.py takes an image as fresh once per life of its key,
   plus once for every failed check, and flags it only after it was checked:
   for any number of requests and jobs in any order. *)
THEOREM ReplaysFlagged == VerifySpec => []ReplayFlagged
<1>1. ReplayInv => ReplayFlagged
  <2> SUFFICES ASSUME ReplayInv, NEW image \in Images
               PROVE  LET checked == {v \in Verifications :
                                        asked[v].image = image /\ replay[v] # None}
                          fresh == {v \in checked : ~replay[v]}
                      IN /\ Cardinality(fresh) <= 1 + lapses[image] + failures
                         /\ fresh # checked => fresh # {}
    BY DEF ReplayFlagged
  <2> DEFINE checked == {v \in Verifications :
                           asked[v].image = image /\ replay[v] # None}
             fresh == {v \in checked : ~replay[v]}
  <2>1. fresh = Fresh(image)
    BY CasesAssumption DEF Fresh, ReplayInv
  <2>2. /\ lapses[image] \in Nat /\ failures \in Nat
        /\ Cardinality(Fresh(image)) \in Nat
    BY FreshFinite DEF ReplayInv
  <2>3. Cardinality(fresh) <= 1 + lapses[image] + failures
    <3>1. Cardinality(Fresh(image)) <=
            lapses[image] + failures + (IF image \in seen THEN 1 ELSE 0)
      BY DEF ReplayInv, Once
    <3> QED BY SMTT(30), <2>1, <2>2, <3>1
  <2>4. ASSUME fresh # checked PROVE fresh # {}
    <3>1. PICK v \in Verifications : asked[v].image = image /\ replay[v] = TRUE
      BY <2>4 DEF ReplayInv
    <3> QED BY <2>1, <3>1 DEF ReplayInv, Once
  <2> QED BY <2>3, <2>4
<1> QED BY <1>1, ReplayInitInv, VerifyStep, PTL DEF VerifySpec

-----------------------------------------------------------------------------
(* The rows of verification_logs and the answers they record. *)

(* A log belongs to a verification that was answered, and is the one due for
   its verdict; a job may have been told of an error instead. *)
Backed(log) ==
  /\ log.of \in Verifications
  /\ answer[log.of] # None /\ replay[log.of] \in BOOLEAN
  /\ log \in LogDue(log.of, asked[log.of], Result(log.of))
  /\ \/ answer[log.of] = Result(log.of)
     \/ log.of \in JobSet /\ answer[log.of] = Error

Unanswered ==
  /\ \A r \in Requests :
       /\ stage[r] # "answered" => answer[r] = None
       /\ stage[r] = "searching" => Unsearched(r, asked[r], replay[r]) = None
  /\ session \in {"open", "broken"} =>
       \A k \in DOMAIN Batch : k >= next => answer[Batch[k]] = None

(* What is flushed was flushed for a job of the batch, in an open session, and
   tasks write for requests. *)
Flushed ==
  /\ \A log \in pending : log.of \in JobSet
  /\ \A log \in tasks : log.of \in Requests
  /\ pending # {} => session = "open"
  /\ session = "broken" => failures # 0

Rows == logs \cup pending
Held == Rows \cup tasks

(* The logs due for v are written, will be, or have an excuse. *)
Kept(v) ==
  \A log \in LogDue(v, asked[v], answer[v]) :
    log \in Held \/ ~Storable(log) \/ RolledBack(v)

LogInv ==
  /\ \A log \in Held : Backed(log)
  /\ Unanswered /\ Flushed
  /\ Cardinality(Contradicted) <= failures
  /\ failures = 0 => \A v \in Verifications : answer[v] # None => Kept(v)

LEMMA DueIs ==
  ASSUME NEW v, NEW case, NEW reply, NEW log \in LogDue(v, case, reply)
  PROVE  /\ LogDue(v, case, reply) = {log} /\ log.of = v
         /\ reply.status # "retry" /\ case.features.status \notin {"raised", "failed"}
         /\ log.success <=> reply.status = "match"
<1>1. /\ LogDue(v, case, reply) = {LogOf(v, case, reply)}
      /\ reply.status # "retry" /\ case.features.status \notin {"raised", "failed"}
  BY DEF LogDue
<1>2. log = LogOf(v, case, reply)
  BY <1>1
<1>3. CASE reply.status \in {"match", "low_confidence", "no_match"}
  <2>1. log = Log(v, TopUser(case.top), reply.status = "match", Genuine(case))
    BY <1>2, <1>3 DEF LogOf
  <2>2. log.of = v /\ log.success = (reply.status = "match")
    BY <2>1 DEF Log
  <2> QED BY <1>1, <1>2, <2>2
<1>4. CASE reply.status \notin {"match", "low_confidence", "no_match"}
  <2>1. log = Log(v, NumericClaim(case), FALSE, GenuineOfRefused(v))
    BY <1>2, <1>4 DEF LogOf
  <2>2. log.of = v /\ log.success = FALSE
    BY <2>1 DEF Log
  <2> QED BY <1>1, <1>2, <1>4, <2>2
<1> QED BY <1>3, <1>4

(* No verdict is an error. *)
LEMMA ResultIsNoError == \A v : Result(v) # Error
<1> SUFFICES ASSUME NEW v PROVE Result(v).status # "error"
  BY DEF Error, Answer
<1>1. Unsearched(v, asked[v], replay[v]).status # "error"
        \/ Unsearched(v, asked[v], replay[v]) = None
  BY DEF Unsearched, Answer
<1>2. Decided(v, asked[v], replay[v]).status # "error"
  BY DEF Decided, Decide, Answer
<1> QED BY <1>1, <1>2 DEF Result

(* What a step must keep so that the logs held before it are backed still,
   and the excuses of their absence hold. *)
Continues ==
  /\ asked' = asked /\ next' >= next /\ next \in Nat /\ next' \in Nat
  /\ \A v \in Verifications :
       answer[v] # None => answer'[v] = answer[v] /\ replay'[v] = replay[v]

LEMMA BackedKept ==
  ASSUME Continues, NEW log, Backed(log) PROVE Backed(log)'
<1>1. /\ asked' = asked /\ answer'[log.of] = answer[log.of] /\ answer[log.of] # None
      /\ replay'[log.of] = replay[log.of]
  BY DEF Continues, Backed
<1>2. Result(log.of)' = Result(log.of)
  BY <1>1 DEF Result
<1>3. log \in LogDue(log.of, asked'[log.of], Result(log.of)')
  BY <1>1, <1>2 DEF Backed
<1> QED BY <1>1, <1>2, <1>3 DEF Backed

LEMMA RolledBackKept ==
  ASSUME Continues, NEW v, RolledBack(v) PROVE RolledBack(v)'
<1>1. PICK i \in DOMAIN Batch, k \in DOMAIN Batch :
        /\ Batch[i] = v /\ i <= k /\ k < next
        /\ answer[Batch[k]] # None
        /\ \E log \in LogDue(Batch[k], asked[Batch[k]], answer[Batch[k]]) :
             ~Storable(log)
  BY DEF RolledBack
<1>2. Batch[k] \in Verifications /\ k \in Nat
  BY CasesAssumption DEF JobSet, Verifications
<1>3. answer'[Batch[k]] = answer[Batch[k]] /\ k < next' /\ asked' = asked
  BY <1>1, <1>2 DEF Continues
<1> QED BY <1>1, <1>3 DEF RolledBack

LEMMA KeptStill ==
  ASSUME Continues, NEW v \in Verifications, answer[v] # None, Kept(v),
         \A log \in Held : log \in Held' \/ ~Storable(log) \/ RolledBack(log.of)'
  PROVE  Kept(v)'
<1>1. asked' = asked /\ answer'[v] = answer[v]
  BY DEF Continues
<1>2. ASSUME NEW log \in LogDue(v, asked[v], answer[v])
      PROVE  log \in Held' \/ ~Storable(log) \/ RolledBack(v)'
  <2>1. log.of = v
    BY DueIs
  <2>2. log \in Held \/ ~Storable(log) \/ RolledBack(v)
    BY DEF Kept
  <2> QED BY <2>1, <2>2, RolledBackKept
<1> QED BY <1>1, <1>2 DEF Kept

(* A step that gives a row to no job but w: only w may come to be told of an
   error in spite of its row, and at the price of a failure. *)
LEMMA ContradictedBound ==
  ASSUME LogInv, Continues, failures \in Nat, failures' \in {failures, failures + 1},
         NEW w,
         \A log \in Rows' :
           \/ log \in Rows \/ log.of \notin JobSet
           \/ log.of = w /\ (answer'[w] # Error \/ failures' = failures + 1)
  PROVE  Cardinality(Contradicted') <= failures'
<1>1. IsFiniteSet(Contradicted) /\ Cardinality(Contradicted) \in Nat
  <2>1. Contradicted \subseteq Verifications
    BY DEF Contradicted, Verifications
  <2> QED BY <2>1, FS_Subset, FS_CardinalityType, CasesAssumption
<1>2. Cardinality(Contradicted) <= failures
  BY DEF LogInv
<1>3. ASSUME NEW j \in Contradicted'
      PROVE  j \in Contradicted \/ (j = w /\ failures' = failures + 1)
  <2>1. PICK log \in Rows' : log.of = j
    BY <1>3 DEF Contradicted, Rows
  <2>2. j \in JobSet /\ answer'[j] = Error
    BY <1>3 DEF Contradicted
  <2>3. CASE log \in Rows
    <3>1. j \in Verifications /\ answer[j] # None
      BY <2>1, <2>3 DEF LogInv, Backed, Held
    <3>2. answer[j] = Error
      BY <2>2, <3>1 DEF Continues
    <3> QED BY <2>1, <2>2, <2>3, <3>2 DEF Contradicted, Rows
  <2> QED BY <2>1, <2>2, <2>3
<1>4. CASE failures' = failures + 1
  <2>1. Contradicted' \subseteq Contradicted \cup {w}
    BY <1>3
  <2>2. /\ IsFiniteSet(Contradicted \cup {w})
        /\ Cardinality(Contradicted \cup {w}) \in Nat
        /\ Cardinality(Contradicted \cup {w}) <= Cardinality(Contradicted) + 1
    BY <1>1, FS_AddElement, FS_CardinalityType
  <2>3. /\ Cardinality(Contradicted') \in Nat
        /\ Cardinality(Contradicted') <= Cardinality(Contradicted \cup {w})
    BY <2>1, <2>2, FS_Subset, FS_CardinalityType
  <2> QED BY <1>1, <1>2, <1>4, <2>2, <2>3
<1>5. CASE failures' = failures
  <2>1. Contradicted' \subseteq Contradicted
    BY <1>3, <1>5
  <2>2. /\ Cardinality(Contradicted') \in Nat
        /\ Cardinality(Contradicted') <= Cardinality(Contradicted)
    BY <1>1, <2>1, FS_Subset, FS_CardinalityType
  <2> QED BY <1>1, <1>2, <1>5, <2>2
<1> QED BY <1>4, <1>5

(* A step that answers at most w, keeps what is held or has an excuse, and
   holds only new logs that are due. *)
LEMMA LogsCarried ==
  ASSUME LogInv, Continues, Unanswered', Flushed',
         failures \in Nat, failures' \in {failures, failures + 1}, NEW w,
         \A log \in Held' : log \in Held \/ Backed(log)',
         \A log \in Rows' :
           \/ log \in Rows \/ log.of \notin JobSet
           \/ log.of = w /\ (answer'[w] # Error \/ failures' = failures + 1),
         failures' = 0 =>
           /\ \A log \in Held :
                log \in Held' \/ ~Storable(log) \/ RolledBack(log.of)'
           /\ \A v \in Verifications \ {w} : answer'[v] = answer[v]
           /\ w \in Verifications /\ answer'[w] # answer[w] => Kept(w)'
  PROVE  LogInv'
<1>1. \A log \in Held' : Backed(log)'
  BY BackedKept DEF LogInv
<1>2. Cardinality(Contradicted') <= failures'
  BY ContradictedBound
<1>3. ASSUME failures' = 0, NEW v \in Verifications, answer'[v] # None
      PROVE  Kept(v)'
  <2>0. failures = 0
    BY <1>3
  <2>1. CASE answer'[v] = answer[v]
    <3>1. answer[v] # None /\ Kept(v)
      BY <1>3, <2>0, <2>1 DEF LogInv
    <3> QED BY <1>3, <3>1, KeptStill
  <2>2. CASE answer'[v] # answer[v]
    BY <1>3, <2>2
  <2> QED BY <2>1, <2>2
<1> QED BY <1>1, <1>2, <1>3 DEF LogInv

LEMMA LogInitInv == VerifyInit => LogInv
<1> SUFFICES ASSUME VerifyInit PROVE LogInv
  OBVIOUS
<1>1. \A v \in Verifications : answer[v] = None
  BY DEF VerifyInit
<1>2. \A r \in Requests : stage[r] = "new"
  BY DEF VerifyInit
<1>3. Unanswered
  BY <1>1, <1>2 DEF Unanswered, Verifications, JobSet
<1>4. Held = {} /\ Contradicted = {}
  BY DEF VerifyInit, Held, Rows, Contradicted
<1>5. Cardinality(Contradicted) = 0 /\ failures = 0
  BY <1>4, FS_EmptySet DEF VerifyInit
<1> QED BY <1>1, <1>3, <1>4, <1>5 DEF VerifyInit, LogInv, Flushed

LEMMA ExtractLogs ==
  ASSUME TypeInv, LogInv, NEW r \in Requests, Extract(r) PROVE LogInv'
<1> DEFINE features == asked[r].features
<1>1. /\ stage[r] = "extracting"
      /\ UNCHANGED <<asked, replay, tasks, logs, failures, next, session, pending>>
      /\ \/ /\ features.status \in {"raised", "failed"}
            /\ answer' = [answer EXCEPT ![r] = ExtractionError(features)]
            /\ stage' = [stage EXCEPT ![r] = "answered"]
         \/ UNCHANGED answer /\ stage' = [stage EXCEPT ![r] = "extracted"]
  BY DEF Extract, UNCHANGEDBatch
<1>2. /\ r \in Verifications /\ answer[r] = None
      /\ stage \in [Requests -> Stages]
      /\ answer \in [Verifications -> Answers \cup {None}]
      /\ next \in Nat /\ failures \in Nat
  BY <1>1, CasesAssumption
     DEF Verifications, LogInv, Unanswered, TypeInv, VerifyTypeOK
<1>3. \A v \in Verifications \ {r} : answer'[v] = answer[v]
  BY <1>1, <1>2
<1>4. Continues
  BY <1>1, <1>2, <1>3 DEF Continues
<1>5. Held' = Held /\ Rows' = Rows
  BY <1>1 DEF Held, Rows
<1>6. Unanswered' /\ Flushed'
  <2>1. \A q \in Requests :
          /\ stage'[q] # "answered" => answer'[q] = None
          /\ stage'[q] = "searching" => stage[q] = "searching"
    BY <1>1, <1>2 DEF LogInv, Unanswered, Verifications
  <2>2. \A k \in DOMAIN Batch : Batch[k] \in Verifications \ {r}
    BY CasesAssumption DEF JobSet, Verifications
  <2> QED BY <1>1, <1>3, <2>1, <2>2 DEF LogInv, Unanswered, Flushed
<1>7. ASSUME answer'[r] # answer[r] PROVE Kept(r)'
  <2>1. asked'[r].features.status \in {"raised", "failed"}
    BY <1>1, <1>7
  <2>2. LogDue(r, asked'[r], answer'[r]) = {}
    BY <2>1 DEF LogDue
  <2> QED BY <2>2 DEF Kept
<1> QED BY <1>1, <1>2, <1>3, <1>4, <1>5, <1>6, <1>7, LogsCarried

(* A request is answered with its verdict, and the log that is due left to a
   task. *)
LEMMA RequestLogs ==
  ASSUME TypeInv, LogInv, NEW r \in Requests, Result(r)' # None,
         stage[r] # "answered", stage' = [stage EXCEPT ![r] = "answered"],
         answer' = [answer EXCEPT ![r] = Result(r)'],
         tasks' = tasks \cup LogDue(r, asked[r], Result(r)'),
         UNCHANGED <<asked, logs, next, session, pending>>,
         replay'[r] \in BOOLEAN,
         \A v \in Verifications \ {r} : replay'[v] = replay[v],
         failures' \in {failures, failures + 1}
  PROVE  LogInv'
<1>1. /\ r \in Verifications /\ answer[r] = None
      /\ stage \in [Requests -> Stages]
      /\ answer \in [Verifications -> Answers \cup {None}]
      /\ next \in Nat /\ failures \in Nat
  BY CasesAssumption DEF Verifications, LogInv, Unanswered, TypeInv, VerifyTypeOK
<1>2. /\ answer'[r] = Result(r)'
      /\ \A v \in Verifications \ {r} : answer'[v] = answer[v]
  BY <1>1
<1>3. Continues
  BY <1>1, <1>2 DEF Continues
<1>4. Held' = Held \cup LogDue(r, asked[r], Result(r)') /\ Rows' = Rows
  BY DEF Held, Rows
<1>5. ASSUME NEW log \in LogDue(r, asked[r], Result(r)') PROVE Backed(log)'
  <2>1. log.of = r
    BY <1>5, DueIs
  <2>2. answer'[r] = Result(r)' /\ asked'[r] = asked[r] /\ answer'[r] # None
    BY <1>2
  <2>3. log \in LogDue(r, asked'[r], Result(r)')
    BY <1>5, <2>2
  <2> QED BY <1>1, <2>1, <2>2, <2>3 DEF Backed
<1>6. Unanswered'
  <2>1. \A q \in Requests :
          /\ stage'[q] # "answered" => answer'[q] = None
          /\ stage'[q] = "searching" => stage[q] = "searching" /\ q # r
    BY <1>1 DEF LogInv, Unanswered, Verifications
  <2>2. \A q \in Requests \ {r} : replay'[q] = replay[q]
    BY DEF Verifications
  <2>3. \A k \in DOMAIN Batch : Batch[k] \in Verifications \ {r}
    BY CasesAssumption DEF JobSet, Verifications
  <2> QED BY <1>2, <2>1, <2>2, <2>3 DEF LogInv, Unanswered
<1>7. Flushed'
  <2>1. \A log \in LogDue(r, asked[r], Result(r)') : log.of \in Requests
    BY DueIs
  <2>2. failures' # 0 \/ failures' = failures
    BY <1>1
  <2> QED BY <1>1, <2>1, <2>2 DEF LogInv, Flushed
<1>8. Kept(r)'
  <2>1. LogDue(r, asked'[r], answer'[r]) \subseteq Held'
    BY <1>2, <1>4
  <2> QED BY <2>1 DEF Kept
<1> QED BY <1>1, <1>2, <1>3, <1>4, <1>5, <1>6, <1>7, <1>8, LogsCarried

LEMMA CheckLogs ==
  ASSUME TypeInv, LogInv, NEW r \in Requests, Check(r) PROVE LogInv'
<1> DEFINE reply == Unsearched(r, asked[r], replay'[r])
<1>1. /\ stage[r] = "extracted" /\ CheckReplay(r)
      /\ UNCHANGED <<asked, logs, next, session, pending>>
  BY DEF Check, UNCHANGEDBatch
<1>2. /\ r \in Verifications /\ replay'[r] \in BOOLEAN
      /\ \A v \in Verifications \ {r} : replay'[v] = replay[v]
  <2>1. r \in Verifications
    BY DEF Verifications
  <2> QED BY <1>1, <2>1, CheckedType, OtherKept DEF TypeInv
<1>3. failures \in Nat /\ failures' \in {failures, failures + 1}
  BY <1>1 DEF CheckReplay, Setback, TypeInv, VerifyTypeOK
<1>4. CASE reply # None
  <2>1. /\ stage' = [stage EXCEPT ![r] = "answered"]
        /\ answer' = [answer EXCEPT ![r] = reply]
        /\ tasks' = tasks \cup LogDue(r, asked[r], reply)
    BY <1>4 DEF Check
  <2>2. Result(r)' = reply
    BY <1>1, <1>4 DEF Result
  <2> QED BY <1>1, <1>2, <1>3, <1>4, <2>1, <2>2, RequestLogs
<1>5. CASE reply = None
  <2>1. /\ stage' = [stage EXCEPT ![r] = "searching"]
        /\ UNCHANGED <<answer, tasks>>
    BY <1>5 DEF Check
  <2>2. stage \in [Requests -> Stages] /\ next \in Nat /\ answer[r] = None
    BY <1>1, CasesAssumption DEF TypeInv, VerifyTypeOK, LogInv, Unanswered
  <2>3. Continues /\ Held' = Held /\ Rows' = Rows
    BY <1>1, <1>2, <2>1, <2>2 DEF Continues, Held, Rows
  <2>4. Flushed'
    BY <1>1, <1>3, <2>1 DEF LogInv, Flushed
  <2>5. Unanswered'
    <3>1. \A q \in Requests \ {r} : replay'[q] = replay[q]
      BY <1>2 DEF Verifications
    <3> QED BY <1>1, <1>5, <2>1, <2>2, <3>1 DEF LogInv, Unanswered
  <2> QED BY <1>2, <1>3, <2>1, <2>3, <2>4, <2>5, LogsCarried
<1> QED BY <1>4, <1>5

LEMMA SearchLogs ==
  ASSUME TypeInv, LogInv, NEW r \in Requests, Search(r) PROVE LogInv'
<1> DEFINE reply == Decided(r, asked[r], replay[r])
<1>1. /\ stage[r] = "searching" /\ stage' = [stage EXCEPT ![r] = "answered"]
      /\ answer' = [answer EXCEPT ![r] = reply]
      /\ tasks' = tasks \cup LogDue(r, asked[r], reply)
      /\ UNCHANGED <<asked, replay, logs, failures, next, session, pending>>
  BY DEF Search, UNCHANGEDBatch
<1>2. asked[r] \in Cases /\ replay[r] \in BOOLEAN
  BY <1>1 DEF TypeInv, VerifyTypeOK, Checked, Verifications
<1>3. reply # None
  BY <1>2, DecidedType, CasesAssumption
<1>4. Result(r)' = reply
  BY <1>1 DEF Result, LogInv, Unanswered
<1> QED BY <1>1, <1>2, <1>3, <1>4, RequestLogs

(* The image of the job at hand is checked. *)
LEMMA CheckJobLogs ==
  ASSUME TypeInv, LogInv, CheckJob PROVE LogInv'
<1>1. /\ AtHand /\ CheckReplay(Current)
      /\ UNCHANGED <<asked, stage, answer, next, session, logs, pending, tasks>>
  BY DEF CheckJob, UNCHANGEDRequests
<1>2. /\ next \in DOMAIN Batch /\ next \in Nat
      /\ Current \in Verifications \ Requests
  BY <1>1, JobAtHand DEF TypeInv
<1>3. answer[Current] = None
  BY <1>1, <1>2 DEF LogInv, Unanswered, AtHand, Current
<1>4. \A v \in Verifications \ {Current} : replay'[v] = replay[v]
  BY <1>1, <1>2, OtherKept DEF TypeInv
<1>5. failures \in Nat /\ failures' \in {failures, failures + 1}
  BY <1>1 DEF CheckReplay, Setback, TypeInv, VerifyTypeOK
<1>6. Continues /\ Held' = Held /\ Rows' = Rows
  BY <1>1, <1>2, <1>3, <1>4 DEF Continues, Held, Rows
<1>7. Unanswered'
  <2>1. \A r \in Requests : replay'[r] = replay[r]
    BY <1>2, <1>4 DEF Verifications
  <2> QED BY <1>1, <2>1 DEF LogInv, Unanswered
<1>8. Flushed'
  BY <1>1, <1>5 DEF LogInv, Flushed
<1> QED BY <1>1, <1>5, <1>6, <1>7, <1>8, LogsCarried

(* At most the job at hand is answered: with its verdict or with an error.
   What this changes of the logs is told apart below. *)
LEMMA JudgedContinues ==
  ASSUME TypeInv, LogInv, InJudgement, NEW reply,
         answer' = [answer EXCEPT ![Current] = reply], reply # None,
         UNCHANGED <<asked, stage, replay, tasks>>,
         \/ next' = next + 1 /\ session' \in {session, "broken"}
         \/ next' = next /\ session' = "lost"
  PROVE  /\ Continues /\ Unanswered'
         /\ next \in DOMAIN Batch /\ next \in Nat
         /\ Current \in JobSet /\ Current \in Verifications \ Requests
         /\ answer[Current] = None /\ answer'[Current] = reply
         /\ \A v \in Verifications \ {Current} : answer'[v] = answer[v]
<1>1. /\ next \in DOMAIN Batch /\ next \in Nat
      /\ Current \in JobSet /\ Current \in Verifications \ Requests
      /\ session \in {"open", "broken"}
  BY JobAtHand DEF TypeInv, InJudgement, AtHand
<1>2. answer[Current] = None
  BY <1>1 DEF LogInv, Unanswered, Current
<1>3. /\ answer'[Current] = reply
      /\ \A v \in Verifications \ {Current} : answer'[v] = answer[v]
  BY <1>1 DEF TypeInv, VerifyTypeOK
<1>4. Continues
  BY <1>1, <1>2, <1>3 DEF Continues
<1>5. \A r \in Requests : answer'[r] = answer[r]
  BY <1>1, <1>3 DEF Verifications
<1>6. ASSUME next' = next + 1, NEW k \in DOMAIN Batch, k >= next'
      PROVE  answer'[Batch[k]] = None
  <2>1. k \in Nat /\ k # next /\ k >= next
    BY <1>1, <1>6, CasesAssumption
  <2>2. Batch[k] \in Verifications \ {Current}
    BY <1>1, <2>1, CasesAssumption DEF Current, JobSet, Verifications
  <2> QED BY <1>1, <1>3, <2>1, <2>2 DEF LogInv, Unanswered
<1>7. Unanswered'
  BY <1>5, <1>6 DEF LogInv, Unanswered
<1> QED BY <1>1, <1>2, <1>3, <1>4, <1>7

(* The verdict of the job at hand is flushed: its log joins those flushed
   before it, or takes them along. *)
LEMMA JudgeJobLogs ==
  ASSUME TypeInv, LogInv, JudgeJob PROVE LogInv'
<1>0. PICK j : j = Current
  OBVIOUS
<1> DEFINE due == LogDue(j, asked[j], Result(j))
<1>1. /\ InJudgement /\ next' = next + 1
      /\ session = "open" \/ due = {}
      /\ pending' = Flush(due)
      /\ UNCHANGED <<asked, stage, replay, tasks, session, logs>>
  BY <1>0 DEF JudgeJob, Judgeable, UsesDatabase, UNCHANGEDRequests
<1>2. PICK reply \in {Result(j), Error} :
        /\ answer' = [answer EXCEPT ![j] = reply]
        /\ failures \in Nat /\ failures' \in {failures, failures + 1}
        /\ reply # Result(j) => failures' = failures + 1
  BY <1>0 DEF JudgeJob, Setback, TypeInv, VerifyTypeOK
<1>3. /\ Result(j) # None /\ Error # None /\ replay[j] \in BOOLEAN
      /\ asked' = asked /\ Result(j)' = Result(j)
  <2>1. Result(j)' = Result(j)
    BY <1>1 DEF Result
  <2> QED BY <1>0, <1>1, <2>1, JudgedType, JobErrorType, CasesAssumption DEF TypeInv
<1>4. /\ Continues /\ Unanswered'
      /\ next \in DOMAIN Batch /\ next \in Nat
      /\ j \in JobSet /\ j \in Verifications \ Requests
      /\ answer[j] = None /\ answer'[j] = reply
      /\ \A v \in Verifications \ {j} : answer'[v] = answer[v]
  BY <1>0, <1>1, <1>2, <1>3, JudgedContinues
<1>5. \A log \in due : log.of = j /\ due = {log}
  BY DueIs
<1>6. pending' \subseteq pending \cup due
  BY <1>1 DEF Flush
<1>7. Flushed'
  BY <1>1, <1>2, <1>4, <1>5, <1>6 DEF LogInv, Flushed
<1>8. \A log \in Held' : log \in Held \/ Backed(log)'
  <2>1. ASSUME NEW log \in due PROVE Backed(log)'
    <3>1. log.of = j /\ answer'[j] = reply /\ reply # None
      BY <1>2, <1>3, <1>4, <1>5
    <3>2. log \in LogDue(j, asked'[j], Result(j)')
      BY <1>3
    <3> QED BY <1>1, <1>2, <1>3, <1>4, <3>1, <3>2 DEF Backed
  <2> QED BY <1>1, <1>6, <2>1 DEF Held, Rows
<1>9. \A log \in Rows' :
        \/ log \in Rows \/ log.of \notin JobSet
        \/ log.of = j /\ (answer'[j] # Error \/ failures' = failures + 1)
  <2>1. answer'[j] # Error \/ failures' = failures + 1
    BY <1>2, <1>4, ResultIsNoError
  <2> QED BY <1>1, <1>5, <1>6, <2>1 DEF Rows
<1>10. ASSUME failures' = 0
       PROVE  /\ \A log \in Held :
                   log \in Held' \/ ~Storable(log) \/ RolledBack(log.of)'
              /\ Kept(j)'
  <2>0. reply = Result(j) /\ LogDue(j, asked'[j], answer'[j]) = due
    BY <1>2, <1>3, <1>4, <1>10
  <2>1. CASE \A log \in due : Storable(log)
    <3>1. pending' = pending \cup due
      BY <1>1, <2>1 DEF Flush
    <3>2. Held' = Held \cup due
      BY <1>1, <3>1 DEF Held, Rows
    <3> HIDE DEF due
    <3> QED BY <2>0, <3>2 DEF Kept
  <2>2. CASE \E log \in due : ~Storable(log)
    <3>1. PICK lost \in due : ~Storable(lost)
      BY <2>2
    <3>2. Kept(j)'
      <4>1. \A log \in due : ~Storable(log)
        BY <1>5, <3>1
      <4> HIDE DEF due
      <4> QED BY <2>0, <4>1 DEF Kept, Storable
    <3>3. ASSUME NEW log \in pending PROVE RolledBack(log.of)'
      <4>1. Backed(log) /\ log.of \in JobSet
        BY <3>3 DEF LogInv, Flushed, Held, Rows
      <4>2. PICK i \in DOMAIN Batch : Batch[i] = log.of
        BY <4>1 DEF JobSet
      <4>3. i \in Nat /\ i <= next
        <5>1. answer[Batch[i]] # None
          BY <4>1, <4>2 DEF Backed
        <5>2. i \in Nat
          BY CasesAssumption
        <5>3. session \in {"open", "broken"}
          BY <1>1 DEF InJudgement, AtHand
        <5> QED BY <1>4, <5>1, <5>2, <5>3 DEF LogInv, Unanswered
      <4>4. /\ answer'[j] # None /\ lost \in LogDue(j, asked'[j], answer'[j])
            /\ next < next' /\ Batch[next] = j
        BY <1>0, <1>1, <1>3, <1>4, <2>0, <3>1 DEF Current
      <4> QED BY <1>4, <3>1, <4>2, <4>3, <4>4 DEF RolledBack, Storable
    <3>4. \A log \in Held : log \in Held' \/ RolledBack(log.of)'
      BY <1>1, <3>3 DEF Held, Rows
    <3> QED BY <3>2, <3>4
  <2> QED BY <2>1, <2>2
<1> HIDE DEF due
<1> QED BY <1>2, <1>4, <1>7, <1>8, <1>9, <1>10, LogsCarried

(* The job at hand ends with an error of the database, and the session is
   broken. *)
LEMMA DatabaseFailsLogs ==
  ASSUME TypeInv, LogInv, DatabaseFails PROVE LogInv'
<1>1. /\ InJudgement /\ next' = next + 1 /\ pending' = {}
      /\ answer' = [answer EXCEPT ![Current] = Error]
      /\ session' \in {session, "broken"}
      /\ UNCHANGED <<asked, stage, replay, tasks, logs>>
  BY DEF DatabaseFails, UNCHANGEDRequests
<1>2. /\ failures \in Nat /\ failures' \in {failures, failures + 1} /\ failures' # 0
  <2>1. failures \in Nat
    BY DEF TypeInv, VerifyTypeOK
  <2>2. session = "broken" => failures # 0
    BY DEF LogInv, Flushed
  <2> QED BY <2>1, <2>2 DEF DatabaseFails, Setback
<1>3. Error # None
  BY JobErrorType, CasesAssumption
<1>4. Continues /\ Unanswered'
  BY <1>1, <1>3, JudgedContinues
<1>5. Flushed'
  BY <1>1, <1>2 DEF LogInv, Flushed
<1>6. Rows' \subseteq Rows /\ Held' \subseteq Held
  BY <1>1 DEF Rows, Held
<1> QED BY <1>2, <1>4, <1>5, <1>6, LogsCarried

(* A step that answers nobody and writes no row for a job. *)
LEMMA AsideLogs ==
  ASSUME TypeInv, LogInv,
         UNCHANGED <<asked, answer, replay>>, next' \in {next, next + 1},
         \A r \in Requests :
           /\ stage[r] = "answered" => stage'[r] = "answered"
           /\ stage'[r] = "searching" => stage[r] = "searching",
         tasks' \subseteq tasks, pending' \in {pending, {}},
         \A log \in logs' : log \in logs \cup pending \cup tasks,
         session' \in {session, "committed", "lost"},
         pending' # {} => session' = session,
         failures' \in {failures, failures + 1},
         failures' = 0 => \A log \in Held : log \in Held' \/ ~Storable(log)
  PROVE  LogInv'
<1>1. next \in Nat /\ next' \in Nat /\ next' >= next /\ failures \in Nat
  BY CasesAssumption DEF TypeInv, VerifyTypeOK
<1>2. Continues
  BY <1>1 DEF Continues
<1>3. Unanswered'
  <2>1. \A k \in DOMAIN Batch : k >= next' => k >= next
    BY <1>1, CasesAssumption
  <2>2. session' \in {"open", "broken"} => session' = session
    OBVIOUS
  <2> QED BY <2>1, <2>2 DEF LogInv, Unanswered
<1>4. Flushed'
  BY <1>1 DEF LogInv, Flushed
<1>5. Held' \subseteq Held
  BY DEF Held, Rows
<1>6. \A log \in Rows' : log \in Rows \/ log.of \notin JobSet
  BY CasesAssumption DEF Rows, LogInv, Flushed
<1>7. \A v : answer'[v] = answer[v]
  OBVIOUS
<1> QED BY <1>1, <1>2, <1>3, <1>4, <1>5, <1>6, <1>7, LogsCarried

(* The session ends without a commit, or with one that was reported to fail;
   the job at hand may have been answered. *)
LEMMA SessionLostLogs ==
  ASSUME TypeInv, LogInv, SessionLost PROVE LogInv'
<1>1. /\ session' = "lost" /\ pending' = {} /\ failures' = failures + 1
      /\ UNCHANGED <<asked, stage, replay, tasks, next>>
      /\ logs \subseteq logs' /\ logs' \subseteq logs \cup pending
  BY DEF SessionLost, Setback, UNCHANGEDRequests
<1>2. failures \in Nat /\ failures' # 0
  BY <1>1 DEF TypeInv, VerifyTypeOK
<1>3. Rows' \subseteq Rows /\ Held' \subseteq Held /\ Flushed'
  BY <1>1 DEF Rows, Held, LogInv, Flushed
<1>4. Continues /\ Unanswered'
  <2>1. CASE UNCHANGED answer
    <3>1. next \in Nat
      BY CasesAssumption DEF TypeInv, VerifyTypeOK
    <3> QED BY <1>1, <2>1, <3>1 DEF Continues, LogInv, Unanswered
  <2>2. CASE InJudgement /\ \E reply \in {Result(Current), Error} :
               answer' = [answer EXCEPT ![Current] = reply]
    <3>1. PICK reply \in {Result(Current), Error} :
            answer' = [answer EXCEPT ![Current] = reply]
      BY <2>2
    <3>2. reply # None
      BY <2>2, JudgedType, JobErrorType, CasesAssumption DEF TypeInv
    <3> QED BY <1>1, <2>2, <3>1, <3>2, JudgedContinues
  <2> QED BY <2>1, <2>2 DEF SessionLost, Judgeable
<1> QED BY <1>1, <1>2, <1>3, <1>4, LogsCarried

LEMMA LogStep == TypeInv /\ LogInv /\ [VerifyNext]_verifyVars => LogInv'
<1> SUFFICES ASSUME TypeInv, LogInv, [VerifyNext]_verifyVars PROVE LogInv'
  OBVIOUS
<1> USE DEF UNCHANGEDBatch, UNCHANGEDRequests
<1>0. stage \in [Requests -> Stages] /\ failures \in Nat
  BY DEF TypeInv, VerifyTypeOK
<1>1. ASSUME NEW r \in Requests, Start(r) \/ SearchFails(r) PROVE LogInv'
  <2>1. /\ UNCHANGED <<asked, answer, replay, next, logs, tasks, pending, session>>
        /\ failures' \in {failures, failures + 1}
        /\ stage[r] # "answered"
        /\ \E to \in {"extracting", "lost"} : stage' = [stage EXCEPT ![r] = to]
    BY <1>1 DEF Start, SearchFails, Setback
  <2>2. \A q \in Requests :
          /\ stage[q] = "answered" => stage'[q] = "answered"
          /\ stage'[q] = "searching" => stage[q] = "searching"
    BY <1>0, <2>1
  <2> QED BY <2>1, <2>2, AsideLogs DEF Held, Rows
<1>2. ASSUME NEW log \in tasks, WriteLog(log) PROVE LogInv'
  <2>1. /\ UNCHANGED <<asked, answer, replay, next, stage, pending, session>>
        /\ tasks' = tasks \ {log} /\ failures' \in {failures, failures + 1}
        /\ logs \subseteq logs' /\ logs' \subseteq logs \cup {log}
        /\ failures' = failures =>
             logs' = IF Storable(log) THEN logs \cup {log} ELSE logs
    BY <1>0, <1>2 DEF WriteLog, Setback
  <2>2. failures' = 0 => \A other \in Held : other \in Held' \/ ~Storable(other)
    BY <1>0, <2>1 DEF Held, Rows
  <2> QED BY <2>1, <2>2, AsideLogs
<1>3. CASE SkipJob
  <2>1. /\ UNCHANGED <<asked, answer, replay, stage, tasks, logs, pending, session, failures>>
        /\ next' = next + 1
    BY <1>3 DEF SkipJob
  <2> QED BY <2>1, AsideLogs DEF Held, Rows
<1>4. CASE CommitBatch
  <2>1. /\ UNCHANGED <<asked, answer, replay, next, stage, tasks, failures>>
        /\ session' \in {"committed", "lost"}
        /\ logs' = logs \cup pending /\ pending' = {}
    BY <1>4 DEF CommitBatch, LogInv, Flushed
  <2> QED BY <2>1, AsideLogs DEF Held, Rows
<1>5. CASE Restart
  <2>1. /\ UNCHANGED <<asked, answer, replay, next, pending, session, logs>>
        /\ failures' = failures + 1 /\ tasks' = {}
        /\ stage' = [r \in Requests |->
                       IF stage[r] \in {"new", "answered"} THEN stage[r] ELSE "lost"]
    BY <1>5 DEF Restart, Setback
  <2> QED BY <1>0, <2>1, AsideLogs
<1>6. CASE (\E image \in Images : LapseKey(image)) \/ UNCHANGED verifyVars
  <2>1. UNCHANGED <<asked, answer, replay, next, stage, tasks, logs, pending, session,
                    failures>>
    BY <1>6 DEF LapseKey, verifyVars
  <2> QED BY <2>1, AsideLogs DEF Held, Rows
<1> QED BY <1>1, <1>2, <1>3, <1>4, <1>5, <1>6, ExtractLogs, CheckLogs, SearchLogs,
           CheckJobLogs, JudgeJobLogs, DatabaseFailsLogs, SessionLostLogs
        DEF VerifyNext

(* A row of verification_logs tells the verdict of its verification, and so
   does the answer its client got, but for a job that was told of an error by
   the except branch of the worker's loop after its row was flushed: and there
   are no more of these than failures.  While nothing fails no row that is due
   gets lost but by a rollback that a later job of its batch, or its own,
   brought about.  For any number of requests, any batch and any cases. *)
THEOREM LogsAgree == VerifySpec => []LogsAccounted
<1>1. LogInv => LogsAccounted
  <2> SUFFICES ASSUME LogInv PROVE LogsAccounted
    OBVIOUS
  <2>1. ASSUME NEW log \in logs
        PROVE  /\ Result(log.of).status # "retry"
               /\ log.success <=> Result(log.of).status = "match"
               /\ answer[log.of] = Result(log.of) \/ log.of \in Contradicted
    <3>1. Backed(log)
      BY DEF LogInv, Held, Rows
    <3>2. log \in LogDue(log.of, asked[log.of], Result(log.of))
      BY <3>1 DEF Backed
    <3>3. log.of \in JobSet /\ answer[log.of] = Error => log.of \in Contradicted
      BY DEF Contradicted
    <3> QED BY <3>1, <3>2, <3>3, DueIs DEF Backed
  <2> QED BY <2>1 DEF LogsAccounted, LogInv, Kept, Held, Rows
<1>2. VerifySpec => [](TypeInv /\ LogInv)
  BY VerifyInitTypes, TypeStep, LogInitInv, LogStep, PTL DEF VerifySpec
<1> QED BY <1>1, <1>2, PTL
=============================================================================
