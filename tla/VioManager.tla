----------------------------- MODULE VioManager -----------------------------
(***************************************************************************)
(* What VioManager does with an image (ov_msckf/src/core/VioManager.cpp):  *)
(* tracking feeds the feature database, a zero velocity update may end the *)
(* image there, else the state is propagated and a clone added, features   *)
(* are divided between the MSCKF and the SLAM updates, and database,       *)
(* anchors and window are cleaned up.  The steps of one image are actions  *)
(* of their own, in the order pc gives; all run on the caller's thread.    *)
(*                                                                         *)
(* Images come from several cameras, alone or together, with stamps that   *)
(* may repeat between cameras and, unless ordered, arrive late.  What the  *)
(* trackers see and which chi2 and triangulation tests pass is arbitrary.  *)
(* Aruco tags are left out (trackARUCO = nullptr, the default).            *)
(***************************************************************************)
EXTENDS FeatureDatabase

CONSTANTS
  Stamps, Cams, Feats,
  Settings,            \* images come in order; params.try_zupt; bounds: the cameras, the
                       \* features they may see, and the last stamp
  max_clone_size, max_slam_features, max_msckf_in_update,
  MinClones,           \* the 5 of do_feature_propagate_update
  RequiredMeas,        \* measurements a SLAM update needs: 2 if single depth
  InitWindow,          \* init_window_time, in stamps
  SlamFrom,            \* startup_time + dt_slam_delay
  zupt_only_at_beginning

ASSUME VioAssumption ==
  /\ Stamps \subseteq Nat \ {0}
  /\ IsFiniteSet(Feats) /\ IsFiniteSet(Cams)    \* ids are size_t
  /\ Settings \subseteq [ordered : BOOLEAN, try_zupt : BOOLEAN,
                         cams : SUBSET Cams, feats : SUBSET Feats, last : Nat]
  /\ zupt_only_at_beginning \in BOOLEAN
  /\ max_clone_size \in Nat \ {0} /\ MinClones \in Nat \ {0}
  /\ max_slam_features \in Nat /\ max_msckf_in_update \in Nat
  /\ RequiredMeas \in {1, 2}
  /\ InitWindow \in Nat \ {0} /\ SlamFrom \in Nat

VARIABLES
  setting,             \* one of Settings, throughout
  is_initialized_vio,
  timestamp, clones,   \* state->_timestamp, the keys of state->_clones_IMU
  landmarks,           \* state->_features_SLAM
  db, to_delete,       \* the tracker's database, features marked in it
  did_zupt_update, last_zupt_state_timestamp, last_zupt_count,
  has_moved_since_zupt,
  msg,                 \* the image being processed: cameras, stamp, what they see
  feats,               \* featsup_MSCKF, feats_slam_UPDATE, feats_slam_DELAYED
  pc,
  sent,                \* the <<camera, stamp>> delivered so far
  used, reused         \* measurements an update has consumed, those it had before

state    == <<timestamp, clones, landmarks>>
database == <<db, to_delete>>
zupt     == <<did_zupt_update, last_zupt_state_timestamp, last_zupt_count, has_moved_since_zupt>>
history  == <<used, reused>>
vars     == <<setting, is_initialized_vio, state, database, zupt, msg, feats, pc, sent, history>>

NoStamp   == 0     \* last_zupt_state_timestamp = 0.0
ZuptBound == 2     \* last_zupt_count is only compared with 2

Landmarks   == DOMAIN landmarks
NoFeats     == [msckf |-> {}, update |-> {}, delayed |-> {}]
NoMessage   == [cams |-> {}, stamp |-> NoStamp, seen |-> [c \in {} |-> {}]]
MinToUpdate == Min({max_clone_size, MinClones})

margtimestep == Min(clones)

Finish == pc' = "idle" /\ msg' = NoMessage /\ feats' = NoFeats

Init ==
  /\ setting \in Settings
  /\ is_initialized_vio = FALSE
  /\ timestamp = -1 /\ clones = {} /\ landmarks = EmptyDatabase
  /\ db = EmptyDatabase /\ to_delete = {}
  /\ did_zupt_update = FALSE /\ has_moved_since_zupt = FALSE
  /\ last_zupt_state_timestamp = NoStamp /\ last_zupt_count = 0
  /\ msg = NoMessage /\ feats = NoFeats /\ pc = "idle"
  /\ sent = {} /\ used = {} /\ reused = {}

-----------------------------------------------------------------------------
(***************************************************************************)
(* Tracking, initialization and zero velocity.                             *)
(***************************************************************************)

\* The trackers add a measurement for every feature each camera sees.
FeedImage(C, t) ==
  /\ pc = "idle" /\ C \subseteq setting.cams /\ t <= setting.last
  /\ \A c \in C : <<c, t>> \notin sent
  /\ setting.ordered => \A s \in sent : s[2] <= t
  /\ \E seen \in [C -> SUBSET Feats] :
       /\ UNION Range(seen) \subseteq setting.feats
       /\ msg' = [cams |-> C, stamp |-> t, seen |-> seen]
       /\ db' = Observed(db, seen, t)
  /\ sent' = sent \cup (C \X {t})
  /\ pc' = "tracked"
  /\ UNCHANGED <<setting, is_initialized_vio, state, to_delete, zupt, feats, history>>

NewestCamTime == Max({m[3] : m \in UNION {Measurements(db, f) : f \in DOMAIN db}})

\* try_to_initialize: measurements that left the initialization window are removed.
\* The image is dropped, also when initialization succeeds; that gives an instant s
\* of the window, at most one IMU reading past the image.
TryToInitialize ==
  /\ pc = "tracked" /\ ~is_initialized_vio /\ timestamp = -1
  /\ \/ DOMAIN db = {} /\ UNCHANGED <<timestamp, db, has_moved_since_zupt>>
     \/ /\ DOMAIN db # {}
        /\ db' = CleanupMeasurements(db, NewestCamTime - InitWindow)
        /\ UNCHANGED <<timestamp, has_moved_since_zupt>>
     \/ /\ DOMAIN db # {}
        /\ \E s \in Stamps \cap (NewestCamTime - InitWindow + 1)..(NewestCamTime + 1) :
             timestamp' = s /\ db' = CleanupMeasurements(db, s)
        /\ has_moved_since_zupt' \in {has_moved_since_zupt, TRUE}
  /\ Finish
  /\ UNCHANGED <<setting, is_initialized_vio, clones, landmarks, to_delete, did_zupt_update,
                 last_zupt_state_timestamp, last_zupt_count, sent, history>>

\* The image after that finds thread_init_success, and is not offered to the zero
\* velocity updater.
InitializationDone ==
  /\ pc = "tracked" /\ ~is_initialized_vio /\ timestamp # -1
  /\ is_initialized_vio' = TRUE
  /\ pc' = "moving"
  /\ UNCHANGED <<setting, state, database, zupt, msg, feats, sent, history>>

ZuptEnabled ==
  is_initialized_vio /\ setting.try_zupt /\ (zupt_only_at_beginning => ~has_moved_since_zupt)

\* Mistake: the tracks keep every still image.
KeepStillImages == db

\* From the third still image in a row on, the one before is dropped from the tracks.
DropStillImages ==
  IF last_zupt_count >= 2 THEN CleanupMeasurementsExact(db, last_zupt_state_timestamp) ELSE db

\* try_update accepts: the state's time moves without a clone.
AcceptZupt ==
  /\ pc = "tracked" /\ ZuptEnabled
  /\ timestamp # msg.stamp
  /\ timestamp' = msg.stamp
  /\ did_zupt_update' = TRUE
  /\ db' = DropStillImages
  /\ last_zupt_state_timestamp' = msg.stamp
  /\ last_zupt_count' = Min({last_zupt_count + 1, ZuptBound})
  /\ Finish
  /\ UNCHANGED <<setting, is_initialized_vio, clones, landmarks, to_delete, has_moved_since_zupt,
                 sent, history>>

\* It rejects, for moving or (with the count kept) for want of IMU readings.
RejectZupt ==
  /\ pc = "tracked" /\ ZuptEnabled
  /\ timestamp # msg.stamp
  /\ did_zupt_update' = FALSE
  /\ last_zupt_state_timestamp' = NoStamp
  /\ last_zupt_count' \in {0, last_zupt_count}
  /\ pc' = "moving"
  /\ UNCHANGED <<setting, is_initialized_vio, state, database, has_moved_since_zupt, msg, feats,
                 sent, history>>

\* Mistake: the decision is not remembered.
ForgottenDecision == FALSE

SharedDecision == did_zupt_update

\* Another camera's image of the state's time shares its decision.
RepeatZupt ==
  /\ pc = "tracked" /\ ZuptEnabled
  /\ timestamp = msg.stamp
  /\ IF SharedDecision THEN Finish ELSE pc' = "moving" /\ UNCHANGED <<msg, feats>>
  /\ UNCHANGED <<setting, is_initialized_vio, state, database, zupt, sent, history>>

SkipZupt ==
  /\ pc = "tracked" /\ is_initialized_vio /\ ~ZuptEnabled
  /\ pc' = "moving"
  /\ UNCHANGED <<setting, is_initialized_vio, state, database, zupt, msg, feats, sent, history>>

-----------------------------------------------------------------------------
(***************************************************************************)
(* do_feature_propagate_update.                                            *)
(***************************************************************************)
\* Mistake: no such check.
NoOrderCheck == FALSE

OutOfOrder == timestamp > msg.stamp

DropOutOfOrder ==
  /\ pc = "moving" /\ OutOfOrder
  /\ Finish
  /\ UNCHANGED <<setting, is_initialized_vio, state, database, zupt, sent, history>>

\* Mistake: propagate even if the state is at the image already.
CloneAlways == TRUE

NeedsClone == timestamp # msg.stamp

\* propagate_and_clone, if it is needed; augment_clone exits if the clone exists.
Propagate ==
  /\ pc = "moving" /\ ~OutOfOrder
  /\ timestamp' = msg.stamp
  /\ clones' = IF NeedsClone THEN clones \cup {msg.stamp} ELSE clones
  /\ IF NeedsClone /\ msg.stamp \in clones
     THEN pc' = "exit" /\ UNCHANGED <<msg, feats, has_moved_since_zupt>>
     ELSE IF Cardinality(clones') < MinToUpdate
     THEN Finish /\ UNCHANGED has_moved_since_zupt
     ELSE pc' = "select" /\ has_moved_since_zupt' = TRUE /\ UNCHANGED <<msg, feats>>
  /\ UNCHANGED <<setting, is_initialized_vio, landmarks, database, did_zupt_update,
                 last_zupt_state_timestamp, last_zupt_count, sent, history>>

FeatsMarg ==
  IF Cardinality(clones) > max_clone_size \/ Cardinality(clones) > MinClones
  THEN FeaturesContaining(db, margtimestep) ELSE {}

\* Lost ones of the message's cameras that are not among those at margtimestep.
FeatsLost ==
  {f \in FeaturesNotContainingNewer(db, timestamp) \ FeatsMarg :
     DOMAIN db[f] \cap msg.cams # {}}

ReachedMaxTrack(f) == \E c \in DOMAIN db[f] : Len(db[f][c]) > max_clone_size

FeatsMaxtracks == {f \in FeatsMarg : ReachedMaxTrack(f)}

\* Mistake: features set apart to become landmarks go to the MSCKF update, too.
ForMsckfAndSlam(new) == FeatsLost \cup FeatsMarg

FeatsupMsckf(new) == FeatsLost \cup (FeatsMarg \ new)

\* Mistake: no limit.
NoBudget == Cardinality(FeatsMaxtracks)

\* How many of them become SLAM features.
ValidAmount ==
  IF msg.stamp >= SlamFrom /\ Cardinality(Landmarks) < max_slam_features
  THEN Min({max_slam_features - Cardinality(Landmarks), Cardinality(FeatsMaxtracks)})
  ELSE 0

\* Mistake: only failures count.
FailedOnly(f) == landmarks[f].update_fail_count > 1

\* A landmark is given up when its own camera's image is here and it has no
\* measurement, or when its update failed more than once.
ShouldMarg(f) ==
  \/ f \notin DOMAIN db /\ landmarks[f].cam \in msg.cams
  \/ landmarks[f].update_fail_count > 1

\* The longest tracks, at most max_msckf_in_update of them; ties are arbitrary.
LongestTracks(F) ==
  {S \in SUBSET F : /\ Cardinality(S) = Min({Cardinality(F), max_msckf_in_update})
                    /\ \A f \in S, g \in F \ S : NumMeasurements(db[f]) >= NumMeasurements(db[g])}

\* Division of the features, and marginalize_slam.  A feature that is both in new
\* and tracked by a landmark is in feats_slam twice, and consumed twice.
SelectFeatures ==
  /\ pc = "select"
  /\ \E new \in SUBSET FeatsMaxtracks :
       /\ Cardinality(new) = ValidAmount
       /\ LET slam == new \cup (Landmarks \cap DOMAIN db)
              kept == {f \in Landmarks : ~ShouldMarg(f)}
          IN  /\ landmarks' = Restrict(landmarks, kept)
              /\ reused' = reused \cup UNION {Measurements(db, f) : f \in new \cap Landmarks}
              /\ \E S \in LongestTracks(FeatsupMsckf(new)) :
                   feats' = [msckf |-> S, update |-> slam \cap kept, delayed |-> slam \ kept]
  /\ pc' = "msckf"
  /\ UNCHANGED <<setting, is_initialized_vio, timestamp, clones, database, zupt, msg, sent, used>>

\* What an update that consumes the measurements of features F does to the history.
Consume(d, F) ==
  LET m == UNION {Measurements(d, f) : f \in F}
  IN  used' = used \cup m /\ reused' = reused \cup (used \cap m)

\* An updater's first step, on its own features.
OnlyClones(F) ==
  [f \in DOMAIN db |-> IF f \in F THEN CleanOldMeasurements(db[f], clones) ELSE db[f]]

\* UpdaterMSCKF::update: every feature passed to it is done with, used or not.
UpdateMSCKF ==
  /\ pc = "msckf"
  /\ db' = OnlyClones(feats.msckf)
  /\ \E ok \in SUBSET {f \in feats.msckf : NumMeasurements(db'[f]) >= 2} : Consume(db', ok)
  /\ to_delete' = to_delete \cup feats.msckf
  /\ pc' = "slam"
  /\ UNCHANGED <<setting, is_initialized_vio, state, zupt, msg, feats, sent>>

\* UpdaterSLAM::update, its batches of max_slam_in_update taken together.  row counts
\* the failures since the last success; the code has no such field.
UpdateSLAM ==
  /\ pc = "slam"
  /\ db' = OnlyClones(feats.update)
  /\ LET Enough == {f \in feats.update : NumMeasurements(db'[f]) >= RequiredMeas}
         Empty  == {f \in feats.update : NumMeasurements(db'[f]) < 1}
     IN  \E ok \in SUBSET Enough :
           /\ Consume(db', ok)
           /\ landmarks' = [f \in Landmarks |->
                IF f \in Enough \ ok
                THEN [landmarks[f] EXCEPT !.update_fail_count = @ + 1, !.row = @ + 1]
                ELSE IF f \in ok THEN [landmarks[f] EXCEPT !.row = 0] ELSE landmarks[f]]
           /\ to_delete' = to_delete \cup Enough \cup Empty
  /\ pc' = "delayed"
  /\ UNCHANGED <<setting, is_initialized_vio, timestamp, clones, zupt, msg, feats, sent>>

\* FeatureInitializer anchors a feature in the camera with most measurements, at the
\* last of them.
Anchors(d) ==
  {[anchor |-> Last(d[c]), cam |-> c, update_fail_count |-> 0, row |-> 0] :
     c \in {k \in DOMAIN d : \A j \in DOMAIN d : Len(d[k]) >= Len(d[j])}}

\* UpdaterSLAM::delayed_init: every feature passed to it is done with.
DelayedInit ==
  /\ pc = "delayed"
  /\ db' = OnlyClones(feats.delayed)
  /\ \E ok \in SUBSET {f \in feats.delayed : NumMeasurements(db'[f]) >= 2} :
       /\ Consume(db', ok)
       /\ \E a \in [ok -> UNION {Anchors(db'[f]) : f \in ok}] :
            /\ \A f \in ok : a[f] \in Anchors(db'[f])
            /\ landmarks' = [f \in Landmarks \cup ok |-> IF f \in ok THEN a[f] ELSE landmarks[f]]
  /\ to_delete' = to_delete \cup feats.delayed
  /\ pc' = "cleanup"
  /\ UNCHANGED <<setting, is_initialized_vio, timestamp, clones, zupt, msg, feats, sent>>

\* retriangulate_active_tracks needs the clone of the image when camera 0 is first
\* in the message.
RetriangulateAsserts == 0 \in msg.cams => msg.stamp \in clones

\* change_anchors: none before margtimestep; those at it move to the newest clone.
ChangeAnchorsAsserts ==
  \A f \in Landmarks : /\ margtimestep <= landmarks[f].anchor
                       /\ landmarks[f].anchor = margtimestep => timestamp \in clones

WindowExceeded == Cardinality(clones) > max_clone_size

Oldest == {f \in Landmarks : landmarks[f].anchor = margtimestep}

\* Retriangulation, cleanup and change_anchors; a failed assertion ends the program.
CleanupAndChangeAnchors ==
  /\ pc = "cleanup"
  /\ db' = Cleanup(db, to_delete) /\ to_delete' = {}
  /\ landmarks' = [f \in Landmarks |->
       IF WindowExceeded /\ f \in Oldest
       THEN [landmarks[f] EXCEPT !.anchor = timestamp] ELSE landmarks[f]]
  /\ pc' = IF ~RetriangulateAsserts THEN "assert"
           ELSE IF WindowExceeded /\ ~ChangeAnchorsAsserts THEN "anchor assert"
           ELSE "marginalize"
  /\ UNCHANGED <<setting, is_initialized_vio, timestamp, clones, zupt, msg, feats, sent, history>>

\* cleanup_measurements and marginalize_old_clone.  The history keeps what is still
\* stored.
MarginalizeOldClone ==
  /\ pc = "marginalize"
  /\ db' = IF WindowExceeded THEN CleanupMeasurements(db, margtimestep) ELSE db
  /\ clones' = IF WindowExceeded THEN clones \ {margtimestep} ELSE clones
  /\ used' = used \cap UNION {Measurements(db', f) : f \in DOMAIN db'}
  /\ Finish
  /\ UNCHANGED <<setting, is_initialized_vio, timestamp, landmarks, to_delete, zupt, sent, reused>>

Next ==
  \/ \E C \in (SUBSET Cams) \ {{}}, t \in Stamps : FeedImage(C, t)
  \/ TryToInitialize \/ InitializationDone
  \/ AcceptZupt \/ RejectZupt \/ RepeatZupt \/ SkipZupt
  \/ DropOutOfOrder \/ Propagate \/ SelectFeatures
  \/ UpdateMSCKF \/ UpdateSLAM \/ DelayedInit
  \/ CleanupAndChangeAnchors \/ MarginalizeOldClone

Spec == Init /\ [][Next]_vars
-----------------------------------------------------------------------------
(***************************************************************************)
(* Properties.                                                             *)
(***************************************************************************)
\* A measurement enters at most one EKF update: a feature is either given to the MSCKF
\* update or to a SLAM update, and what was used is out of the database before the
\* next image can find it again ("delete it so we do not reuse information").
MeasurementsUsedOnce == reused = {}

\* The clone that retriangulation, change_anchors and the updaters look up is there,
\* and augment_clone never meets a clone of the image's stamp.
NeverStops == pc \notin {"assert", "anchor assert", "exit"}

\* "assert(state->_clones_IMU.find(message.timestamp) != end())": the clone of camera
\* 0's image exists when the tracks are triangulated with it.
CloneOfImageExists == pc # "assert"

\* Features given up after failed updates are initialized anew at once, yet together
\* with the new landmarks they stay within max_slam_features.
SlamBudget == Cardinality(Landmarks) <= max_slam_features

\* A landmark survives marginalize_slam on an image of its own camera only if some
\* camera of the image still sees it: no measurement of an earlier image is left to keep
\* it, as long as every image was used (none late, none still).
LostLandmarksMarginalized ==
  setting.ordered /\ ~setting.try_zupt /\ pc \in {"msckf", "slam", "delayed"} =>
    \A f \in Landmarks : landmarks[f].cam \in msg.cams =>
                          \E c \in msg.cams : f \in msg.seen[c]

\* Tracks do not grow while the filter stands still: of the stamps that came after the
\* newest clone at most the first and the last of a row of still images remain.
UnclonedBounded ==
  pc = "idle" /\ clones # {} => \A f \in DOMAIN db : \A c \in DOMAIN db[f] :
    Len(Kept(db[f][c], Nat \ 0..Max(clones))) <= 2

\* The manager's own containers go through the steps of a sliding window.
SW == INSTANCE SlidingWindow
        WITH now <- timestamp, window <- clones,
             frame <- [f \in Landmarks |-> landmarks[f].anchor]

ImplementsSlidingWindow == SW!Spec

\* "we will also marginalize SLAM features if they have failed their update a couple
\* times in a row": one that is given up while tracked failed twice in a row.
GivenUpOnlyAfterFailuresInARow ==
  [][\A f \in Landmarks \ Landmarks' : f \in DOMAIN db => landmarks[f].row > 1]_vars
=============================================================================
