------------------------- MODULE DynamicInitializer -------------------------
(***************************************************************************)
(* DynamicInitializer::initialize (ov_init/src/dynamic/): which images of  *)
(* the window become poses, the linear system of the tracks' observations, *)
(* the readings between the poses, and the graph that is optimized.        *)
(*                                                                         *)
(* The values of the system are left out: whether it turns enough, has a   *)
(* solution, which features end up behind a camera, and whether the        *)
(* optimization converges is arbitrary.                                    *)
(***************************************************************************)
EXTENDS ImuSelect, FeatureDatabase, FiniteSets

CONSTANTS
  init_window_time,
  init_max_features,
  init_dyn_num_pose,
  min_num_meas,      \* (int)init_window_time, in seconds
  min_valid_features,
  calib_camimu_dt,
  MaxUncovered       \* the 0.01 s that a preintegration may fall short of

ASSUME DynamicAssumption ==
  /\ {init_window_time, init_max_features, init_dyn_num_pose, min_num_meas, min_valid_features,
      MaxUncovered} \subseteq Nat
  /\ calib_camimu_dt \in Int

\* The unknowns of a feature.
size_feature == 3

\* The features', then velocity and gravity.
system_size(num_features) == size_feature * num_features + 3 + 3

Abs(x) == IF x < 0 THEN -x ELSE x

-----------------------------------------------------------------------------
(***************************************************************************)
(* The poses.  Features, and the cameras of one, are visited in the order  *)
(* of a hash map.                                                          *)
(***************************************************************************)

\* They are apart by pose_dt_avg.
IsApart(t, u) == Abs(t - u) * (init_dyn_num_pose + 1) >= init_window_time

\* Mistake: only the feature's own times keep a new one away.
IsUsableHere(t, known, times) == t \in times \/ \A u \in times : IsApart(t, u)

\* A new pose at the desired frequency, or one there is already: time_dt is at least
\* pose_dt_avg, or 0.
IsUsable(t, known, times) == t \in known \cup times \/ \A u \in known \cup times : IsApart(t, u)

\* The observations of track d as [cam, time], its cameras in that order.
Observations(d, cams) ==
  FlattenSeq([i \in DOMAIN cams |->
    IF cams[i] \in DOMAIN d THEN [j \in DOMAIN d[cams[i]] |-> [cam |-> cams[i], time |-> d[cams[i]][j]]]
    ELSE <<>>])

Times(obs) == {obs[i].time : i \in DOMAIN obs}
Cameras(obs) == {obs[i].cam : i \in DOMAIN obs}

\* The next of them is used or not.
Use(used, o, known) == IF IsUsable(o.time, known, Times(used)) THEN Append(used, o) ELSE used

\* Those of them used, with poses known already.
Used(obs, known) ==
  LET used[j \in 0..Len(obs)] == IF j = 0 THEN <<>> ELSE Use(used[j - 1], obs[j], known)
  IN  used[Len(obs)]

\* Mistake: a feature with too few measurements leaves its poses.
VisitAlways(s, f, obs) ==
  LET used == Used(obs, s.poses)
  IN  [s EXCEPT !.poses = @ \cup Times(used),
                !.oldest = Min({@} \cup Times(used)),
                !.valid = IF Len(used) < min_num_meas THEN @ ELSE @ \cup {f},
                !.num_measurements = IF Len(used) < min_num_meas THEN @ ELSE @ + 2 * Len(used),
                !.cams = @ \cup Cameras(used)]

\* Feature f's observations add poses, cameras and rows, if enough of them are used.
Visit(s, f, obs) ==
  LET used == Used(obs, s.poses)
  IN  IF Len(used) < min_num_meas THEN s
      ELSE [s EXCEPT !.poses = @ \cup Times(used),
                     !.oldest = Min({@} \cup Times(used)),
                     !.valid = @ \cup {f},
                     !.num_measurements = @ + 2 * Len(used),
                     !.cams = @ \cup Cameras(used)]

\* map_camera_times (with the newest image always), oldest_camera_time, the valid
\* features, num_measurements and map_camera_ids.
SelectPoses(db, newest, feats, cams) ==
  LET selected[i \in 0..Len(feats)] ==
        IF i = 0
        THEN [poses |-> {newest}, oldest |-> newest, valid |-> {}, num_measurements |-> 0, cams |-> {}]
        ELSE Visit(selected[i - 1], feats[i], Observations(db[feats[i]], cams[feats[i]]))
  IN  selected[Len(feats)]

-----------------------------------------------------------------------------
(***************************************************************************)
(* The initialization.                                                     *)
(***************************************************************************)

\* The stamps in the database.
Stamps(db) == UNION {UNION {ToSet(db[f][c]) : c \in DOMAIN db[f]} : f \in DOMAIN db}

\* The newest measurement in it.
NewestCamTime(db) == Max({-1} \cup Stamps(db))

\* The readings kept: those not older than the window.
Recent(imu, oldest) == Kept(imu, {t \in Nat : t >= oldest + calib_camimu_dt})

\* The readings between two poses.
Readings(imu, t0, t1) == select_within(imu, t0 + calib_camimu_dt, t1 + calib_camimu_dt)

\* Preintegration from the oldest pose, and from the one before, finds its readings.
Preintegrable(imu, t0, t1) ==
  /\ Len(Readings(imu, t0, t1)) >= 2
  /\ Abs(TimeCovered(Readings(imu, t0, t1)) - (t1 - t0)) <= MaxUncovered

AllPreintegrable(imu, s) ==
  \A t \in s.poses \ {s.oldest} :
    /\ Preintegrable(imu, s.oldest, t)
    /\ Preintegrable(imu, Max({p \in s.poses : p < t}), t)

\* The observations of feature f that have a pose: two rows of the system each, and
\* later a factor of the graph.
WithPose(db, s, cams, f) ==
  Kept(Observations(db[f], cams[f]), [cam : DOMAIN db[f], time : s.poses])

RowsAppended(db, s, feats, cams) ==
  LET rows[i \in 0..Len(feats)] ==
        IF i = 0 THEN 0
        ELSE IF feats[i] \in s.valid THEN rows[i - 1] + 2 * Len(WithPose(db, s, cams, feats[i]))
        ELSE rows[i - 1]
  IN  rows[Len(feats)]

\* The cameras of the factors, for the features in front of them.
FactorCameras(db, s, cams, inFront) ==
  UNION {Cameras(WithPose(db, s, cams, f)) : f \in inFront}

\* How far initialize gets with the window's measurements, up to the newest image, the
\* readings, and older ones or none; one of the outcomes after which the values decide.
Progress(db, newest, imu, older, s) ==
  IF 4 * Cardinality(DOMAIN db) < 3 * init_max_features THEN "few features"
  ELSE IF Len(imu) < 2 \/ ~older THEN "no readings"
  ELSE IF Cardinality(s.poses) < init_dyn_num_pose THEN "few poses"
  ELSE IF Cardinality(s.valid) < min_valid_features THEN "few features"
  ELSE IF Len(Readings(imu, s.oldest, newest)) <= 2 \/ s.oldest >= newest THEN "assertion"
  ELSE IF s.num_measurements < system_size(Cardinality(s.valid)) THEN "few rows"
  ELSE IF ~AllPreintegrable(imu, s) THEN "not preintegrated"
  ELSE "system"

\* Where initialize may end: it turned too little, the system has no solution, too many
\* features are behind a camera, or the optimization does not converge; or it is done,
\* but for the covariance, which may not be recovered either.
Ends(progress) ==
  IF progress # "system" THEN {progress}
  ELSE {"no solution", "not converged", "no covariance", "dynamic"}
=============================================================================
