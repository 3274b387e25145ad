---------------------------- MODULE Initializer ----------------------------
(***************************************************************************)
(* Looking for an initial state: VioManager::feed_measurement_imu before   *)
(* the filter runs and InertialInitializer (ov_init/src/init/), which asks *)
(* the static or the dynamic initializer after every image.  All three     *)
(* prune the readings and the feature database by rules of their own, on   *)
(* two clocks.                                                             *)
(*                                                                         *)
(* A reading comes at every instant; the instants are the IMU's clock, and *)
(* the image of stamp s is taken at s + calib_camimu_dt.  What the tracker *)
(* does is any set of unbroken tracks.  Initialize runs to its end before  *)
(* the next call, as without a thread of its own (VioInit has the thread). *)
(***************************************************************************)
EXTENDS DynamicInitializer, StaticInitializer, Factors

CONSTANTS
  Views,            \* the cameras there may be, with the features each can see
  FirstReading, LastReading,   \* the first reading fed, the last one
  MaxDelay,           \* readings from an image's instant until it is fed
  Reserve,          \* 0.10 s
  feat_thresh,      \* disparities of either half of the window: 15
  init_disparity,   \* init_max_disparity > 0
  init_static,      \* init_imu_thresh > 0
  init_dyn_use,
  wait_for_jerk     \* the filter has no zero velocity updates

ASSUME InitializerAssumption ==
  /\ FirstReading \in Nat /\ LastReading \in Nat /\ MaxDelay \in Nat \ {0} /\ Reserve \in Nat
  /\ feat_thresh \in Nat
  /\ \A v \in Views : IsFiniteSet(DOMAIN v) /\ IsFiniteSet(UNION Range(v))
  /\ calib_camimu_dt <= FirstReading /\ calib_camimu_dt <= init_window_time
  /\ {init_disparity, init_static, init_dyn_use, wait_for_jerk} \subseteq BOOLEAN

VARIABLES
  view,       \* the one of Views
  imu_data,   \* the readings of the initializers
  db,         \* the feature database
  last,       \* the stamp of every camera's last image
  attempt     \* what an initialize in this instant came to

initializerVars == <<view, imu_data, db, last, attempt>>

Cams == DOMAIN view

Tried(method, outcome) ==
  [method |-> method, outcome |-> outcome, newest |-> -1,
   poses |-> {}, seen |-> {}, rows |-> 0, counted |-> 0, cams |-> {}, factors |-> {},
   fresh |-> FALSE, timestamp |-> -1]

NotTried == Tried("none", "none")

Initialized == attempt.outcome \in {"static", "dynamic"}

InitializerInit ==
  /\ view \in Views
  /\ imu_data = <<FirstReading>> /\ db = EmptyDatabase
  /\ last = [c \in Cams |-> FirstReading - calib_camimu_dt - 1]
  /\ attempt = NotTried

-----------------------------------------------------------------------------
\* Mistake: exactly the window is kept.
ReadingsFromWindow(t) == t - init_window_time + calib_camimu_dt

\* oldest_time: readings of the window and the reserve are kept.
ReadingsFrom(t) == t - init_window_time + calib_camimu_dt - Reserve

FeedReading ==
  /\ ~Initialized /\ Last(imu_data) < LastReading
  /\ LET t == Last(imu_data) + 1
     IN  imu_data' = Kept(Append(imu_data, t), {s \in Nat : s >= ReadingsFrom(t)})
  /\ attempt' = NotTried
  /\ UNCHANGED <<view, db, last>>

\* Mistake: exactly the window is kept.
OldestOfWindow(newest) == newest - init_window_time

OldestTime(newest) == newest - init_window_time - Reserve

\* compute_disparity: the tracks with an observation newer than the first time (if it is
\* one) and a later one older than the second.
CountDisparities(d, oldest, newest) ==
  LET Found(ts) == \E i \in DOMAIN ts :
        /\ oldest < ts[i] /\ \A j \in 1..(i - 1) : ts[j] <= oldest
        /\ \E j \in (i + 1)..Len(ts) : ts[j] < newest
  IN  Cardinality({fc \in (DOMAIN d) \X Cams : fc[2] \in DOMAIN d[fc[1]] /\ Found(d[fc[1]][fc[2]])})

\* Not both halves of the window have enough tracks (times are doubled for the half).
FewDisparities(d, newest) ==
  LET twice == [f \in DOMAIN d |-> [c \in DOMAIN d[f] |-> [i \in DOMAIN d[f][c] |-> 2 * d[f][c][i]]]]
      half  == 2 * newest - init_window_time
  IN  \/ CountDisparities(twice, -1, half) < feat_thresh
      \/ CountDisparities(twice, half, 2 * newest) < feat_thresh

\* The dynamic initializer's attempt with these poses and features in the order of feats.
WithPoses(d, newest, s, feats, cams, end) ==
  [Tried("dynamic", end)
     EXCEPT !.newest = newest, !.fresh = NewestCamTime(db) < newest,
            !.poses = s.poses, !.counted = s.num_measurements,
            !.seen = UNION {Times(WithPose(d, s, cams, f)) : f \in s.valid},
            !.rows = RowsAppended(d, s, feats, cams), !.cams = s.cams,
            !.factors = FactorCameras(d, s, cams, s.valid),
            !.timestamp = IF end = "dynamic" THEN newest ELSE -1]

Outcomes(d, newest, imu, older, feats, cams) ==
  LET s == SelectPoses(d, newest, feats, cams)
  IN  {WithPoses(d, newest, s, feats, cams, end) : end \in Ends(Progress(d, newest, imu, older, s))}

\* What it may come to.
Dynamic(d, imu, newest) ==
  LET kept == Recent(imu, newest - init_window_time)
  IN  UNION {Outcomes(d, newest, kept, kept # imu, feats, cams) :
               feats \in SetToSeqs(DOMAIN d), cams \in [DOMAIN d -> SetToSeqs(Cams)]}

\* And the static one, whose readings vary or do not.
Static(imu, newest) ==
  IF ~HasWindow(imu, init_window_time) THEN {[Tried("static", "no readings") EXCEPT !.newest = newest]}
  ELSE {[Tried("static", "excited") EXCEPT !.newest = newest],
        [Tried("static", "static")
           EXCEPT !.newest = newest, !.timestamp = static_timestamp(imu, init_window_time)]}

\* initialize; the disparities of the older half of the window and of the newer one show
\* whether the platform moved.
Attempts(d, imu, newest, movedBefore, moved) ==
  LET has_jerk == ~movedBefore /\ moved
      is_still == ~movedBefore /\ ~moved
  IN  IF init_disparity /\ FewDisparities(d, newest) THEN {Tried("none", "few disparities")}
      ELSE IF init_static /\ ((has_jerk /\ wait_for_jerk) \/ (is_still /\ ~wait_for_jerk))
           THEN Static(imu, newest)
      ELSE IF init_dyn_use /\ ~is_still
           THEN Dynamic(CleanupMeasurements(d, newest - init_window_time), imu, newest)
      ELSE {Tried("none", "moving")}

Initialize(d) ==
  LET newest == NewestCamTime(d)
      oldest == OldestTime(newest)
      kept   == Recent(imu_data, oldest)
  IN  IF newest < 0 \/ oldest < 0
      THEN db' = d /\ attempt' = Tried("none", "no window") /\ UNCHANGED imu_data
      ELSE \E movedBefore, moved \in IF init_disparity THEN BOOLEAN ELSE {FALSE} :
             /\ attempt' \in Attempts(CleanupMeasurements(d, oldest), kept, newest, movedBefore, moved)
             /\ IF attempt'.method = "dynamic"
                THEN /\ db' = CleanupMeasurements(d, newest - init_window_time)
                     /\ imu_data' = Recent(kept, newest - init_window_time)
                ELSE db' = CleanupMeasurements(d, oldest) /\ imu_data' = kept

\* Tracks are unbroken: a camera sees what it saw in its image before, and new features.
MayTrack(c) ==
  {f \in view[c] : f \in DOMAIN db => /\ c \in DOMAIN db[f] /\ db[f][c] # <<>>
                                       /\ Last(db[f][c]) = last[c]}

\* The cameras' next image is tracked, and an initial state is looked for.
FeedTracks ==
  /\ ~Initialized
  /\ \E C \in (SUBSET Cams) \ {{}}, lag \in 1..MaxDelay :
       LET s == Last(imu_data) - calib_camimu_dt - lag
       IN  /\ \A c \in C : last[c] < s
           /\ last' = [c \in Cams |-> IF c \in C THEN s ELSE last[c]]
           /\ \E seen \in [C -> SUBSET UNION Range(view)] :
                /\ \A c \in C : seen[c] \subseteq MayTrack(c)
                /\ Initialize(Observed(db, seen, s))
  /\ UNCHANGED view

InitializerNext == FeedReading \/ FeedTracks

InitializerSpec == InitializerInit /\ [][InitializerNext]_initializerVars

-----------------------------------------------------------------------------
(***************************************************************************)
(* Properties.                                                             *)
(***************************************************************************)

\* When the linear system is built, its rows are exactly those counted when the poses were
\* chosen (A has that many rows), whatever the order of the hash maps: no observation of a
\* valid feature gets a pose later.  Every pose but the newest image's has an observation,
\* they are apart by the desired period, and the factors' cameras have calibration states
\* (map_calib_cam2imu.at).
SystemComplete ==
  attempt.method = "dynamic" =>
    /\ attempt.rows = attempt.counted
    /\ attempt.poses \subseteq attempt.seen \cup {attempt.newest}
    /\ attempt.factors \subseteq attempt.cams
    /\ \A t, u \in attempt.poses :
         t # u => Abs(t - u) * (init_dyn_num_pose + 1) >= init_window_time

\* The rules that prune the readings, on the IMU's clock when fed and on the camera's when
\* looking, leave enough of them: an initializer lacks readings only while too few were fed,
\* or, for the dynamic one, after an image that brought no newer measurement; and those
\* between the poses that its assertions want are there.
ReadingsReachBack ==
  /\ attempt.outcome \notin {"assertion", "not preintegrated"}
  /\ attempt.method = "dynamic" /\ attempt.outcome = "no readings" /\ attempt.fresh =>
       FirstReading >= attempt.newest - init_window_time + calib_camimu_dt
  /\ attempt.method = "static" /\ attempt.outcome = "no readings" =>
       Last(imu_data) - FirstReading < init_window_time

\* The optimization, once it is reached, is given what it takes: every factor reads its
\* variables, sizes and covariance as the initializer and the preintegration lay them out,
\* and its Jacobians are those of its residual.
FactorsReadAsWritten == attempt.outcome \in {"not converged", "no covariance", "dynamic"} => FactorsAgree
=============================================================================
