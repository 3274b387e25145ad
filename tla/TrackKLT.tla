------------------------------ MODULE TrackKLT ------------------------------
(***************************************************************************)
(* Sparse optical flow (ov_core/src/track/TrackKLT.cpp): the last image is *)
(* topped up with new features, all are tracked into the new image, and    *)
(* those that arrive are measured there.                                   *)
(***************************************************************************)
EXTENDS TrackBase

LeftCam  == 0
RightCam == 1

\* min(20, half of num_features): fewer missing features are not worth a detection.
Enough == Min({20, num_features \div 2})

\* What a detection keeps of P: away from edge and mask, one point for each cell.
Keeps(P, mask) ==
  LET good == {p \in P : p.at \in Cells \ mask}
  IN  {K \in SUBSET good : At(K) = At(good) /\ \A p, q \in K : p.at = q.at => p = q}

\* Grid locations with enough points, or whose sampled pixel is masked, are not valid_locs.
Extractable(P, mask) ==
  LET req == Max({1, ((num_features \div Cardinality(Grid)) + 1) \div 2})
  IN  UNION {g \in Grid : Cardinality({p \in P : p.at \in g}) < req /\ Min(g) \notin mask}

\* Cells where a feature may be found that is not close to a point of P: extraction
\* skips the cells of the mask it is given.
Free(P, mask, extraction) == Extractable(P, mask) \ (At(P) \cup extraction)

\* perform_matching: where it finds the points, of those it finds.
perform_matching(P) ==
  IF Cardinality(P) < MinRansac THEN {<<>>} ELSE UNION {[S -> Places] : S \in SUBSET P}

\* The points of m at their new places.
Moved(m) == {[id |-> p.id, at |-> m[p]] : p \in DOMAIN m}

-----------------------------------------------------------------------------
(***************************************************************************)
(* feed_monocular, each camera in a thread.                                *)
(***************************************************************************)

FeedMonocular(C) ==
  /\ Monocular(C) /\ Arrives(C)
  /\ job' = [c \in Cams |-> IF c \in C THEN "begin" ELSE "idle"]
  /\ UNCHANGED <<config, num_features, currid, last, db, work>>

\* Points of the last image (of the new one if there is none) are dropped or kept.
DropPoints(c) ==
  /\ job[c] = "begin"
  /\ \E K \in Keeps(last[c], masks[c]) :
       /\ work' = [work EXCEPT ![c] = [kept |-> K, new |-> {}]]
       /\ job' = [job EXCEPT ![c] = IF num_features - Cardinality(K) < Enough THEN "track" ELSE "detect"]
  /\ UNCHANGED <<config, num_features, currid, last, db, now, images>>

Detect(c) ==
  /\ job[c] = "detect"
  /\ \E x \in Free(work[c].kept, masks[c], masks[c]) :
       (\A p \in work[c].new : p.at < x) /\ AddDetected(c, x)

\* The first image's points wait there; else those are measured that are found inside
\* the image and not in the mask.
Track(c) ==
  /\ job[c] = "track"
  /\ LET P == work[c].kept \cup work[c].new
     IN  IF last[c] = {} THEN MoveForward(c, P, {})
         ELSE \E m \in perform_matching(P) :
                LET good == {p \in Moved(m) : InImage(p.at) /\ p.at \notin masks[c]}
                IN  MoveForward(c, good, good)

-----------------------------------------------------------------------------
(***************************************************************************)
(* feed_stereo.                                                            *)
(***************************************************************************)

\* Features found in cells N, with ids in their order.
Numbered(N, from) == {[id |-> from + Cardinality({y \in N : y <= x}), at |-> x] : x \in N}

\* Left: points are kept, and features are added if many are missing.
DetectLeft ==
  LET mask == masks[LeftCam]
  IN  UNION {{[kept |-> K, new |-> Numbered(N, currid)] :
                N \in IF num_features - Cardinality(K) > Enough
                      THEN SUBSET Free(K, mask, mask) ELSE {{}}} : K \in Keeps(last[LeftCam], mask)}

\* New left features are tracked into the right image, some of them.
TrackRight(new) == UNION {[S -> {x \in Places : InImage(x)}] : S \in SUBSET new}

\* What the right detection keeps of P: stereo points also where they are close to another.
KeepsRight(P, stereo) ==
  LET good == {p \in P : p.at \in Cells \ masks[RightCam]}
      both == {p \in good : p.id \in stereo}
  IN  {K \in SUBSET good :
         /\ both \subseteq K /\ At(K) = At(good)
         /\ \A p, q \in K \ both : p.at = q.at => p = q}

\* The mask of the right extraction starts as a copy of mask0.
mask1_updated == masks[LeftCam]

\* perform_detection_stereo: the points of both sides and the last id given out.
perform_detection_stereo ==
  UNION {UNION {
    LET left == d.kept \cup d.new
        from == currid + Cardinality(d.new)
    IN  UNION {{[left |-> left, right |-> K \cup Numbered(N, from), currid |-> from + Cardinality(N)] :
                  N \in IF num_features - Cardinality(K) > Enough
                        THEN SUBSET Free(K, masks[RightCam], mask1_updated) ELSE {{}}} :
                K \in KeepsRight(last[RightCam] \cup Moved(r), Ids(left))} :
    r \in TrackRight(d.new)} : d \in DetectLeft}

\* One pixel more on the left than on the right.
InLeftBounds(x) == InImage(x) \/ x = Border

\* Left points l in bounds and right points r found: those found on both sides, and on the
\* left alone; one whose right point leaves the image is dropped.
StereoLeft(l, r) == {p \in l : \E q \in r : q.id = p.id /\ InImage(q.at)}
MonoLeft(l, r)   == {p \in l : p.id \notin Ids(r)}

StereoRight(l, r) == {q \in r : q.id \in Ids(StereoLeft(l, r))}

\* Mistake: the right points already added are added again.
MonoRightAll(l, r) == {q \in r : InImage(q.at)}

\* Right points that were not added already.
MonoRight(l, r) == {q \in r : InImage(q.at) /\ q.id \notin Ids(StereoRight(l, r))}

\* What is found of detection d in the new images: the two loops over the points.
GoodTracks(d) ==
  {[left |-> StereoLeft(f[1], f[2]) \cup MonoLeft(f[1], f[2]),
    stereo |-> StereoRight(f[1], f[2]), mono |-> MonoRight(f[1], f[2]), currid |-> d.currid] :
     f \in {{p \in Moved(m) : InLeftBounds(p.at)} : m \in perform_matching(d.left)}
             \X {Moved(m) : m \in perform_matching(d.right)}}

SetLast(left, right) == last' = [c \in Cams |-> IF c = LeftCam THEN left ELSE right]

\* Without points in both last images, the new images' points wait there.
FeedStereo ==
  /\ use_stereo /\ Cardinality(cams) = 2 /\ Arrives(cams)
  /\ IF last[LeftCam] = {} /\ last[RightCam] = {}
     THEN \E d \in perform_detection_stereo :
            currid' = d.currid /\ SetLast(d.left, d.right) /\ UNCHANGED db
     ELSE \E good \in UNION {GoodTracks(d) : d \in perform_detection_stereo} :
            /\ currid' = good.currid
            /\ SetLast(good.left, good.stereo \cup good.mono)
            /\ db' = Record(Record(Record(db, LeftCam, good.left), RightCam, good.stereo),
                            RightCam, good.mono)
  /\ UNCHANGED <<config, num_features, job, work>>

Next ==
  \/ \E C \in SUBSET Cams : FeedMonocular(C)
  \/ \E c \in Cams : DropPoints(c) \/ Detect(c) \/ DetectionDone(c) \/ Track(c)
  \/ FeedStereo
  \/ set_num_features
=============================================================================
