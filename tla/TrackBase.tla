----------------------------- MODULE TrackBase -----------------------------
(***************************************************************************)
(* What the feature trackers share (ov_core/src/track/TrackBase.h): the    *)
(* counter of ids, the points of each camera's last image, the database of *)
(* their tracks, and the images of one message handled in parallel.        *)
(*                                                                         *)
(* An image is the cells that its close points grid divides it into, in    *)
(* the order features are extracted; a point has an id and a place.  Which *)
(* corners an image has and where the tracked points go is arbitrary.      *)
(***************************************************************************)
EXTENDS FeatureDatabase

CONSTANTS
  Rigs,            \* sets of cameras; in stereo 0 is the left one, 1 the right one
  Grid,            \* the extraction grid: disjoint sets of cells
  NumFeatures,     \* feature counts before and after initialization
  MinRansac,       \* the 10 points that RANSAC needs
  NumAruco,        \* max_aruco_features
  MaxImages,       \* messages fed: of one camera, of two, and of stereo pairs
  Masks,           \* the cells that the cameras' masks may cover
  Places           \* where points may go: Cells and the three below

Cams    == UNION Rigs
Cells   == UNION Grid
Edge    == 0       \* in the image, too near to its edge for a detection
Border  == -1      \* one pixel past the last column or row
Outside == -2

ASSUME TrackAssumption ==
  /\ Rigs \subseteq {{0}, {0, 1}}
  /\ IsFiniteSet(Cells) /\ Cells \subseteq Nat \ {0}
  /\ \A g, h \in Grid : g # {} /\ (g # h => g \cap h = {})
  /\ Masks \subseteq [Cams -> SUBSET Cells]
  /\ NumFeatures \subseteq Nat \ {0}
  /\ MinRansac \in Nat \ {0} /\ NumAruco \in Nat /\ MaxImages \in [1..3 -> Nat]
  /\ Cells \subseteq Places /\ Places \subseteq Cells \cup {Edge, Border, Outside}

VARIABLES
  cams, use_stereo, masks, \* configuration: cameras, stereo tracking, masked cells
  num_features,
  currid,
  last,            \* pts_last and ids_last: each camera's points, as [id, at]
  db,              \* the database's measurements
  now,             \* the message being tracked, or tracked last
  images,          \* each camera's images so far
  job, work        \* each camera's thread, and the points it has detected

config   == <<cams, use_stereo, masks>>
baseVars == <<config, num_features, currid, last, db, now, images, job, work>>

NoWork == [kept |-> {}, new |-> {}]

\* Mistake: room for one id for each tag.
OneIdEach == NumAruco + 1

\* The counter starts past the corners of all tags.
FirstId == 4 * NumAruco + 1

Init ==
  /\ cams \in Rigs
  /\ use_stereo \in BOOLEAN
  /\ masks \in Masks
  /\ num_features \in NumFeatures
  /\ currid = FirstId
  /\ last = [c \in Cams |-> {}]
  /\ db = EmptyDatabase
  /\ now = 0 /\ images = [c \in Cams |-> <<>>]
  /\ job = [c \in Cams |-> "idle"] /\ work = [c \in Cams |-> NoWork]

-----------------------------------------------------------------------------
Ids(P)     == {p.id : p \in P}
At(P)      == {p.at : p \in P}
InImage(x) == x \in Cells \cup {Edge}

\* set_num_features: VioManager's initialization thread raises it whenever it succeeds.
set_num_features ==
  /\ num_features' \in NumFeatures /\ num_features' > num_features
  /\ UNCHANGED <<config, currid, last, db, now, images, job, work>>

\* update_feature for each of camera c's points P: it measures a feature as often as P has it.
Record(d, c, P) ==
  LET Old(f) == IF f \in DOMAIN d THEN d[f] ELSE <<>>
      Stamps(f) == IF c \in DOMAIN Old(f) THEN Old(f)[c] ELSE <<>>
      Again(f) == [i \in 1..Cardinality({p \in P : p.id = f}) |-> now']
  IN  [f \in DOMAIN d \cup Ids(P) |->
         IF f \notin Ids(P) THEN d[f]
         ELSE [k \in DOMAIN Old(f) \cup {c} |->
                 IF k = c THEN Stamps(f) \o Again(f) ELSE Old(f)[k]]]

-----------------------------------------------------------------------------
\* feed_new_camera with the images of cameras C starts.
Arrives(C) ==
  /\ \A c \in Cams : job[c] = "idle"
  /\ now < MaxImages[IF use_stereo /\ cams = Cams THEN 3 ELSE Cardinality(cams)]
  /\ now' = now + 1
  /\ images' = [c \in Cams |-> IF c \in C THEN Append(images[c], now') ELSE images[c]]

\* Each image is tracked by a thread of its own, unless two come as a stereo pair (one of
\* two cameras' images never comes alone then: see DatasetRunner).
Monocular(C) == C # {} /\ C \subseteq cams /\ (use_stereo => Cardinality(cams) = 1)

\* Mistake: points that were not found stay.
StayOn(c, P) == last' = [last EXCEPT ![c] = P \cup {p \in @ : p.id \notin Ids(P)}]

\* pts_last and ids_last are those of the new image.
Replace(c, P) == last' = [last EXCEPT ![c] = P]

\* Camera c's thread is done: its points and what it has measured of them.
MoveForward(c, P, measured) ==
  /\ Replace(c, P)
  /\ UNCHANGED now /\ db' = Record(db, c, measured)
  /\ job' = [job EXCEPT ![c] = "idle"]
  /\ work' = [work EXCEPT ![c] = NoWork]
  /\ UNCHANGED <<config, num_features, currid, images>>

\* Mistake: two threads that detect at the same time read the same counter.
TakeIdTogether(c) ==
  currid' = IF \E d \in Cams \ {c} : job[d] = "detect" THEN currid ELSE currid + 1

\* ++currid
TakeId(c) == currid' = currid + 1

\* A point at cell x is new in the image that camera c's thread detects features in.
AddDetected(c, x) ==
  /\ TakeId(c)
  /\ work' = [work EXCEPT ![c].new = @ \cup {[id |-> currid + 1, at |-> x]}]
  /\ UNCHANGED <<config, num_features, last, db, now, images, job>>

DetectionDone(c) ==
  /\ job[c] = "detect"
  /\ job' = [job EXCEPT ![c] = "track"]
  /\ UNCHANGED <<config, num_features, currid, last, db, now, images, work>>
=============================================================================
