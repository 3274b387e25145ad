----------------------------- MODULE Simulation -----------------------------
(***************************************************************************)
(* The simulator and the programs that feed from it: readings and images   *)
(* of a trajectory's spline go to the filter (ov_msckf/src/sim/            *)
(* Simulator.cpp, run_simulation.cpp) or to the dynamic initializer        *)
(* (ov_init/src/sim/SimulatorInit.cpp, test_dynamic_init.cpp).             *)
(*                                                                         *)
(* Time is in ticks of the IMU's clock.  Poses, noise and the places of    *)
(* map features are left out: which features a camera sees is arbitrary.   *)
(***************************************************************************)
EXTENDS Bspline, SequencesExt

CONSTANTS
  Programs,        \* of "run_simulation" and "test_dynamic_init"
  Trajectories,
  Rates,           \* ticks between readings and between images, as [imu, cam]
  MaxStill,        \* images after which the trajectory has moved
  MapStep,         \* the 0.25 s from one view that gets map features to the next
  num_cameras, num_pts,
  calib_camimu_dt, \* an image's stamp is this much behind the IMU's clock
  Perturbed        \* what the filter may take it to be

ASSUME SimulationAssumption ==
  /\ \A traj \in Trajectories : traj \subseteq Nat /\ IsFiniteSet(traj) /\ Cardinality(traj) > 1
  /\ \A r \in Rates : r.imu \in Nat \ {0} /\ r.cam \in Nat /\ r.cam >= r.imu
  /\ MaxStill \in Nat /\ MapStep \in Nat \ {0} /\ MinDt \in Nat \ {0}
  /\ num_cameras \in Nat \ {0} /\ num_pts \in Nat /\ calib_camimu_dt \in Nat
  /\ Perturbed \subseteq Nat

Cameras == 0..(num_cameras - 1)

VARIABLES
  program, use_stereo, rate, offset, \* configuration
  timestamp_start, control_points,   \* the trajectory's spline
  map_cam, time_synth,       \* the view that is being given map features
  featmap,                   \* how many features the map has; their ids are 0..featmap-1
  timestamp_last_imu, timestamp_last_cam,
  hist_true_bias_time,
  has_skipped_first_bias,
  is_running,
  turn,                      \* "map", "init", the main loop's "imu" and "cam", or "exit"
  state_time,                \* the filter's, -1 before it is initialized
  readings,                  \* fed
  buffer,                    \* the image held back, NoImage at first
  images                     \* stamps of the images fed

config == <<program, use_stereo, rate, offset, timestamp_start, control_points>>
mapVars  == <<map_cam, time_synth, featmap>>
clock    == <<timestamp_last_imu, timestamp_last_cam, hist_true_bias_time, has_skipped_first_bias,
              is_running>>
consumer == <<state_time, readings, buffer, images>>
simulationVars == <<config, mapVars, clock, turn, consumer>>

NoImage == [timestamp |-> -1, feats |-> [c \in Cameras |-> {}]]

\* The first instant at which the simulation may be found to have moved; up to there it
\* goes in steps of images, all of which must have a pose (or the program exits).
Starts ==
  {timestamp_start + k * rate.cam : k \in
     {n \in 0..MaxStill : \A i \in 0..n : HasPose(control_points, timestamp_start + i * rate.cam)}}

\* The biases known from the start.  The initializer's simulator adds one with each reading;
\* the other has that of the first reading from the start.
SeedBiases(start) ==
  IF program = "run_simulation" THEN <<start - rate.imu, start, start + rate.imu>>
                                ELSE <<start - rate.imu, start>>

\* perturb_parameters: the filter starts from other parameters; here its clock difference.
Offsets == IF program = "run_simulation" THEN Perturbed ELSE {calib_camimu_dt}

SimulationInit ==
  /\ program \in Programs /\ use_stereo \in BOOLEAN
  /\ rate \in Rates
  /\ \E traj \in Trajectories :
       timestamp_start = SplineStart(traj) /\ control_points = ControlPoints(traj)
  /\ offset \in Offsets
  /\ map_cam = 0 /\ time_synth = timestamp_start /\ featmap = 0
  /\ \E start \in Starts :
       /\ timestamp_last_imu = start /\ timestamp_last_cam = start
       /\ hist_true_bias_time = SeedBiases(start)
  /\ has_skipped_first_bias = FALSE
  /\ is_running = TRUE /\ turn = "map"
  /\ state_time = -1 /\ readings = <<>> /\ buffer = NoImage
  /\ images = <<>>

-----------------------------------------------------------------------------
\* project_pointcloud: which of the map's features a camera sees, whatever camera they were
\* generated for; of an image at most num_pts are kept.
Seen == UNION {kSubset(n, 0..(featmap - 1)) : n \in 0..Min({num_pts, featmap})}

\* generate_points: as many as the view is short of.
NewPoints(uvs) == num_pts - uvs

\* The next view of camera map_cam that sees too few features gets new ones; after the
\* last view of the trajectory it is the next camera's turn.
GenerateMap ==
  /\ turn = "map"
  /\ IF HasPose(control_points, time_synth)
     THEN /\ \E uvs \in 0..Min({featmap, num_pts}) : featmap' = featmap + NewPoints(uvs)
          /\ time_synth' = time_synth + MapStep
          /\ UNCHANGED <<map_cam, turn>>
     ELSE /\ map_cam' = map_cam + 1
          /\ time_synth' = timestamp_start
          /\ turn' = IF map_cam' \in Cameras THEN "map"
                     ELSE IF program = "run_simulation" THEN "init" ELSE "imu"
          /\ UNCHANGED featmap
  /\ UNCHANGED <<config, clock, consumer>>

\* get_state returns true: t has a pose, and a bias before and one at it or after.
HasState(t) ==
  /\ HasPose(control_points, t)
  /\ \E i \in 1..(Len(hist_true_bias_time) - 1) :
       hist_true_bias_time[i] < t /\ t <= hist_true_bias_time[i + 1]

\* Mistake: the filter starts at the instant the simulation is at.
FirstInstantNow == timestamp_last_cam

\* "we are getting it at the *next* timestep so we get the first IMU message"
FirstInstant == timestamp_last_cam + rate.imu

\* initialize_with_gt, or the program exits.
InitializeWithGt ==
  /\ turn = "init"
  /\ IF HasState(FirstInstant)
     THEN turn' = "imu" /\ state_time' = FirstInstant - calib_camimu_dt
     ELSE turn' = "exit" /\ UNCHANGED state_time
  /\ UNCHANGED <<config, mapVars, clock, readings, buffer, images>>

-----------------------------------------------------------------------------
(***************************************************************************)
(* The main loop asks for a reading and for an image in turns.             *)
(***************************************************************************)

\* Mistake: equal times go before each other.
EarlierOrWith(a, b) == a <= b

Earlier(a, b) == a < b

NextImuTime == timestamp_last_imu + rate.imu
NextCamTime == timestamp_last_cam + rate.cam

\* The first reading's bias is there already.
WithBiasOfReading ==
  IF program = "run_simulation" /\ ~has_skipped_first_bias THEN hist_true_bias_time
  ELSE Append(hist_true_bias_time, NextImuTime)

get_next_imu ==
  /\ turn = "imu" /\ is_running
  /\ turn' = "cam"
  /\ \/ /\ Earlier(NextCamTime, NextImuTime)
        /\ UNCHANGED <<clock, readings>>
     \/ /\ ~Earlier(NextCamTime, NextImuTime)
        /\ timestamp_last_imu' = NextImuTime
        /\ IF HasPose(control_points, NextImuTime)
           THEN /\ hist_true_bias_time' = WithBiasOfReading
                /\ has_skipped_first_bias' = TRUE
                /\ readings' = Append(readings, NextImuTime)
                /\ UNCHANGED is_running
           ELSE /\ is_running' = FALSE
                /\ UNCHANGED <<hist_true_bias_time, has_skipped_first_bias, readings>>
        /\ UNCHANGED timestamp_last_cam
  /\ UNCHANGED <<config, mapVars, state_time, buffer, images>>

\* Mistake: the ids of the next camera start after the points of an image.
OffsetByPoints(c, f) == IF use_stereo THEN f ELSE f + c * num_pts

\* "all cameras have unique features in them (but the same map)"
FeatureId(c, f) == IF use_stereo THEN f ELSE f + c * featmap

\* The points of an image at t: of each camera some map features, at most num_pts.
Image(t) ==
  {[timestamp |-> t, feats |-> [c \in Cameras |-> {[of |-> f, id |-> FeatureId(c, f)] : f \in seen[c]}]] :
     seen \in [Cameras -> Seen]}

\* What the filter's time is after the image: it drops older ones.
TimeAfter(t) == IF state_time # -1 /\ t > state_time THEN t ELSE state_time

\* The filter or the tracker is fed image m (the filter's tracker becomes a TrackSIM with
\* its first image).
FeedSimulation(m) ==
  /\ images' = Append(images, m.timestamp)
  /\ state_time' = TimeAfter(m.timestamp)

\* Mistake: the image is fed at once.
FeedNewest(m) == FeedSimulation(m) /\ buffer' = m

\* The image before it is fed, the new one held back.
FeedBuffered(m) ==
  /\ buffer' = m
  /\ IF buffer.timestamp # -1 THEN FeedSimulation(buffer) ELSE UNCHANGED <<images, state_time>>

get_next_cam ==
  /\ turn = "cam"
  /\ turn' = "imu"
  /\ \/ /\ Earlier(NextImuTime, NextCamTime)
        /\ UNCHANGED <<timestamp_last_cam, is_running, buffer, images, state_time>>
     \/ /\ ~Earlier(NextImuTime, NextCamTime)
        /\ timestamp_last_cam' = NextCamTime
        /\ IF HasPose(control_points, NextCamTime)
           THEN /\ \E m \in Image(NextCamTime - calib_camimu_dt) : FeedBuffered(m)
                /\ UNCHANGED is_running
           ELSE /\ is_running' = FALSE
                /\ UNCHANGED <<buffer, images, state_time>>
  /\ UNCHANGED <<config, mapVars, timestamp_last_imu, hist_true_bias_time, has_skipped_first_bias,
                 readings>>

SimulationNext == GenerateMap \/ InitializeWithGt \/ get_next_imu \/ get_next_cam

SimulationSpec == SimulationInit /\ [][SimulationNext]_simulationVars

\* One thread, which is not suspended for ever.
FairSimulationSpec == SimulationSpec /\ WF_simulationVars(SimulationNext)
-----------------------------------------------------------------------------
\* The main loop has ended, or the spline ends before the first reading.
Done ==
  \/ turn = "imu" /\ ~is_running
  \/ turn = "exit" /\ ~HasPose(control_points, FirstInstant)

\* Whenever an image is fed, the true state at the image is known (test_dynamic_init.cpp
\* asserts it).  The readings fed reach to the image in the filter's clock, unless its clock
\* difference is too large by more than an image's period exceeds a reading's, and back to
\* where the filter integrates from, unless its clock difference is too small.
ImagesWithinReadings ==
  [][images' # images =>
       LET t == Last(images')
           error == offset - calib_camimu_dt
       IN  /\ HasState(t + calib_camimu_dt)
           /\ error <= rate.cam - rate.imu => t + offset <= Last(readings)
           /\ program = "run_simulation" =>
                state_time <= t /\ (error >= 0 => Head(readings) <= state_time + offset)]_simulationVars

\* Without stereo constraints an id names one map feature seen by one camera: the filter
\* never takes two cameras' points for one feature.
IdsOfOneCamera ==
  ~use_stereo =>
    \A c, d \in Cameras : \A p \in buffer.feats[c], q \in buffer.feats[d] :
      p.id = q.id => c = d /\ p.of = q.of

\* The loop ends: readings and images of the same time do not wait for each other, the
\* first state is found, and each turn that is taken comes closer to the spline's end.
SimulationEnds == <>Done
=============================================================================
