-------------------------- MODULE TrackDescriptor --------------------------
(***************************************************************************)
(* Descriptor matching (ov_core/src/track/TrackDescriptor.cpp): every      *)
(* image is detected anew, and points that match one of the last image     *)
(* take over its id.  All are measured, but those of a first image.        *)
(***************************************************************************)
EXTENDS TrackBase

LeftCam  == 0
RightCam == 1

\* Mistake: two new points may match the same old one.
OneWay(A, B) ==
  IF Min({Cardinality(A), Cardinality(B)}) < MinRansac THEN {<<>>}
  ELSE UNION {[S -> A] : S \in SUBSET B}

\* robust_match: the points of B that match, each with the one of A it matches.  Matches
\* are symmetric, and there are none without enough of them for RANSAC.
robust_match(A, B) ==
  IF Min({Cardinality(A), Cardinality(B)}) < MinRansac THEN {<<>>}
  ELSE UNION {{m \in [S -> A] : IsInjective(m)} : S \in SUBSET B}

-----------------------------------------------------------------------------
(***************************************************************************)
(* feed_monocular, each camera in a thread.                                *)
(***************************************************************************)

FeedMonocular(C) ==
  /\ Monocular(C) /\ Arrives(C)
  /\ job' = [c \in Cams |-> IF c \in C THEN "detect" ELSE "idle"]
  /\ UNCHANGED <<config, num_features, currid, last, db, work>>

\* One feature for each cell, outside of the mask.
Detect(c) ==
  /\ job[c] = "detect"
  /\ \E x \in Cells \ masks[c] : (\A p \in work[c].new : p.at < x) /\ AddDetected(c, x)

\* New points with the ids of those they match.
WithOldIds(new, m) == {IF p \in DOMAIN m THEN [p EXCEPT !.id = m[p].id] ELSE p : p \in new}

Track(c) ==
  /\ job[c] = "track"
  /\ IF last[c] = {} THEN MoveForward(c, work[c].new, {})
     ELSE \E m \in robust_match(last[c], work[c].new) :
            LET good == WithOldIds(work[c].new, m) IN MoveForward(c, good, good)

-----------------------------------------------------------------------------
(***************************************************************************)
(* feed_stereo.                                                            *)
(***************************************************************************)

\* perform_detection_stereo: features matched between the images, outside of the masks,
\* with ids in order; RANSAC, with enough to begin with, may leave any number of them.  The
\* grid is never marked: they may be close to one another.
perform_detection_stereo ==
  LET Pairs(n) == [1..n -> (Cells \ masks[LeftCam]) \X (Cells \ masks[RightCam])]
  IN  UNION {{[left  |-> {[id |-> currid + i, at |-> f[i][1]] : i \in 1..n},
               right |-> {[id |-> currid + i, at |-> f[i][2]] : i \in 1..n}] : f \in Pairs(n)} :
             n \in IF num_features < MinRansac THEN {0} ELSE 0..num_features}

\* The id that new pair i takes over: both sides match the same old feature.
OldId(i, ml, mr) ==
  {m.id : m \in {ml[p] : p \in {q \in DOMAIN ml : q.id = i}}}
    \cap {m.id : m \in {mr[p] : p \in {q \in DOMAIN mr : q.id = i}}}

WithOldPair(new, ml, mr) ==
  {[p EXCEPT !.id = IF OldId(p.id, ml, mr) = {} THEN @ ELSE Min(OldId(p.id, ml, mr))] : p \in new}

FeedStereo ==
  /\ use_stereo /\ Cardinality(cams) = 2 /\ Arrives(cams)
  /\ \E d \in perform_detection_stereo :
       /\ currid' = currid + Cardinality(d.left)
       /\ IF last[LeftCam] = {} \/ last[RightCam] = {}
          THEN last' = [c \in Cams |-> IF c = LeftCam THEN d.left ELSE d.right] /\ UNCHANGED db
          ELSE \E ml \in robust_match(last[LeftCam], d.left),
                  mr \in robust_match(last[RightCam], d.right) :
                 LET left  == WithOldPair(d.left, ml, mr)
                     right == WithOldPair(d.right, ml, mr)
                 IN  /\ last' = [c \in Cams |-> IF c = LeftCam THEN left ELSE right]
                     /\ db' = Record(Record(db, LeftCam, left), RightCam, right)
  /\ UNCHANGED <<config, num_features, job, work>>

Next ==
  \/ \E C \in SUBSET Cams : FeedMonocular(C)
  \/ \E c \in Cams : Detect(c) \/ DetectionDone(c) \/ Track(c)
  \/ FeedStereo
  \/ set_num_features
=============================================================================
