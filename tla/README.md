# OpenVINS (ROS-free) in TLA+

A model of the control of the visual-inertial filter in this repository, from the recording or
the simulator to the averages of its evaluation: how messages are read, queued, paired and
ordered, how points get their ids and tracks, how the filter is initialized beside the stream of
messages, which features enter which update, how the sliding window and the covariance behind it
are kept, which inertial readings go into every step, and in which rows and columns the
derivatives of all this are written and read.

The numbers of the filter (means, gains, image processing) are left out; what they decide - a chi2
test, a track lost, a feature too far - is an arbitrary choice.  Of the Jacobians the model keeps
which block is written for what, and some arithmetic is checked exactly: rotations and
quaternions, the triangulations, and the Jacobians of the updaters over a finite field; the
distortion of `CamRadtan` and preintegration without rotation as the polynomials they are.

    tlc   -workers 2 -config MCVioManager.cfg MCVioManager.tla      # one run
    tlapm StateHelperProofs.tla                                     # the proofs of one module

`PROJECT.json` lists the components, the runs, the lines that every definition models, the
mutants that show each property able to fail, the disagreements found, and the hazards.

## 1. The system

    recording (mcap)   McapReader        Simulator          Simulation, Bspline
        |  messages in file order            |
        v                                    v
    run_dataset.cpp    DatasetRunner     run_simulation.cpp, test_dynamic_init.cpp
        |                                    |
        +-- feed_measurement_imu / _camera --+-- feed_measurement_simulation
                            |
                            v
    VioManager ------------------------------------------------------- VioManager
      |  trackers                           TrackBase, TrackKLT, TrackDescriptor, TrackAruco
      |  FeatureDatabase                    FeatureDatabase
      |  InertialInitializer (own thread)   VioInit
      |    static, dynamic initializer      Initializer, StaticInitializer, DynamicInitializer
      |    factors for ceres                Factors
      |  UpdaterZeroVelocity                VioManager, Propagator, ErrorState
      |  Propagator (IMU buffer, cache)     Propagator, ImuSelect, FastPropagation, ErrorState
      |  UpdaterMSCKF, UpdaterSLAM          VioManager, UpdaterHelper, Jacobians
      |    FeatureInitializer               VioManager (anchor), FeatureInitializer
      v
    State + StateHelper (clones, landmarks, covariance)   StateHelper, SlidingWindow
      |
      v  trajectories in files
    error_dataset.cpp                       Evaluation

### Components

**State and StateHelper** (`ov_msckf/src/state`).  State: the variables being estimated,
each with an `id` (first row in the covariance) and a `size`; the maps of clones (by stamp)
and of SLAM landmarks (by feature, each with an anchor clone); the covariance.  Operations:
construction, `set_initial_covariance`, `EKFPropagation`, `clone`/`augment_clone`,
`initialize`, `marginalize`, `marginalize_old_clone`, `marginalize_slam`, anchor changes.
Hard: only index arithmetic keeps blocks and variables together while blocks are appended at
the end and cut from the middle; three containers must name the same variables; landmarks
point to clones by stamp.  Correct if every block is its variable's, no row is left over or
shared, anchors stay in the window, no guard exits the program, the window is bounded.

**VioManager** (`ov_msckf/src/core`).  State: the initialization flag, the zero velocity
decision, the trackers, the updaters.  Operations: feeding a reading, feeding an image -
track, zero velocity update, initialize, propagate, select features, MSCKF update, SLAM
update, delayed initialization, retriangulate, clean up, change anchors, marginalize.  All on
the caller's thread but for initialization.  Hard: images of several cameras with the same or
other stamps, late images, features shared by pointer and only marked as deleted, two
decisions (still or moving, which update gets a feature) that later steps rely on.  Correct
if no measurement is used twice, no assertion fails, the landmark budget holds, lost landmarks
go, tracks do not grow while the camera stands still, and the window slides as promised.

**Feature database** (`ov_core/src/feat`).  State: feature -> camera -> stamps of its
measurements.  Operations: add, query by "not newer than", "containing", prune by age, exact
stamp, deletion mark.  A mutex per call; the features themselves escape it.  `FeatureInitializer`
triangulates: it chooses an anchor, solves a linear system and refines the result in a loop.

**Updaters** (`ov_msckf/src/update`).  `UpdaterMSCKF` and `UpdaterSLAM` first cut the features
they get to the clones there are, then use some of them and mark what they are through with;
`UpdaterSLAM` counts failures of a landmark and moves anchors; `UpdaterZeroVelocity` has an
IMU buffer of its own and moves the state's time without a clone.  All three build matrices by
hand: columns in the order variables are met, one feature after another, by names in hash maps
and by plain offsets.  A landmark has six representations, and a derivative is taken at the current
estimate or at the first one, which must not be mixed.  Correct if every derivative arrives once in
the column `StateHelper` will read it from, and is the derivative of what it stands for there.

**Propagator** (`ov_msckf/src/state`).  State: the IMU buffer, the clock difference of the
last propagation, a cached copy of the state for poses between images.  Operations: feed and
clean, `select_imu_readings`, `propagate_and_clone`, `fast_state_propagate`,
`invalidate_cache`.  Hard: two clocks whose difference is itself estimated, boundaries of
periods, a buffer cut while others still need it, a cache filled and invalidated by different
callers, a transition whose layout depends on three options.

**Initializers** (`ov_init`).  Static and dynamic initialization over the newest window of
readings and tracks; run in a thread of their own that then takes the filter through the
images missed meanwhile.  Hard: two flags and one mutex are all that keeps two threads apart;
three pieces of code prune readings and features by three rules on two clocks; the dynamic
initializer allots a linear system in one pass over a hash map and fills it in another, and
hands parameters to its factors by position.

**Trackers** (`ov_core/src/track`): KLT, descriptor, aruco, simulated.  State: last points
and ids per camera, an atomic id counter; masks and grids.  They write the database.  Hard: ids
handed out to two cameras in parallel, right points that carry the ids of left ones, tags that
are recognized by their range of ids, what survives when an image has no points.

**Simulator** (`ov_msckf/src/sim`, `ov_core/src/sim`, `ov_init/src/sim`): interleaves IMU and
camera times along a spline; `run_simulation.cpp` feeds the filter one image behind.  Hard: two
clocks that wait for each other; ids of several cameras derived from one map; a spline with gaps
and an end.

**Dataset runner** (`ov_frontend/src/run_dataset.cpp`).  Reads messages in file order, pairs
two cameras' frames, holds images back until a newer reading came, flushes at the end.

**Recording reader** (`ov_frontend/thirdparty/mcap`).  Vendored, but every message passes it:
summary or scan, an interval tree of chunks, a queue of chunks and messages, slots for open
chunks.  Hard: chunks overlap in time; records may be broken or cut off.

**Evaluation** (`ov_eval`): loads trajectories, associates them with the truth by time,
averages errors over runs; alignment, relative errors, statistics, plots.

**Camera models, preintegration, types** (`ov_core`): numerics; types contribute `id`, `size`,
offsets and the update of an orientation, which multiplies from the left.  **Configuration, front-end I/O, tools, data**: options contribute constants.

### How they interact

* One thread feeds readings and images (`run_dataset`, `run_simulation`); the initializer runs
  in a second one, which the caller joins unless `use_multi_threading_subs` is set.  Trackers
  run a loop in parallel over the cameras of a message.
* `VioManager` calls the updaters in a fixed order and hands them features by pointer.
  Deletion is a mark, carried out by the database's `cleanup` near the end of an image.
* Readings are stamped by the IMU's clock, images, clones and the state's time by the
  camera's; `_calib_dt_CAMtoIMU`, part of the state, converts.
* Everything that must not happen ends in `std::exit` or `assert`: the models have these as
  states (`pc = "exit"`, `"assert"`, `"anchor assert"`, `halted`, `crashed`, `status = "exit"`)
  and show them unreachable, or how they are reached (section 3).

## 2. The modules

| module | models | state and steps |
|---|---|---|
| `SlidingWindow` | the promise, abstractly | the present, the window of poses, points given in them; time advances, points are learnt, forgotten and moved, the oldest pose goes |
| `StateHelper` | `State.cpp`, `StateHelper.cpp`, `change_anchors` | `id`, `_variables`, the labels of the covariance's rows; one action per operation, in the manager's order |
| `UpdaterHelper` | `UpdaterHelper.cpp`, the stacking of `UpdaterMSCKF` and `UpdaterSLAM`, `EKFUpdate` | operators: the entries of a feature's Jacobian, of the stacked one, and where they are read |
| `DualNumbers` | | numbers, vectors and matrices to check derivatives with |
| `QuatOps` | `quat_ops.h`, `JPLQuat`, `PoseJPL` | operators: rotations, quaternions, the update of a pose |
| `Jacobians` | `Landmark.cpp`, `get_feature_jacobian_*`, `perform_anchor_change` | operators: the blocks' numbers, the functions they linearize |
| `FeatureInitializer` | `FeatureInitializer.cpp` | operators: the linear systems, the refinement's Jacobian and its loop |
| `ErrorState` | `compute_F_and_G_*`, `predict_mean_*`, `UpdaterZeroVelocity`, initial covariances, `State::State` | operators: blocks of a matrix and the offsets of writer and reader |
| `FeatureDatabase` | `FeatureDatabase.cpp`, `Feature.cpp` | operators on a database as a value |
| `VioManager` | `VioManager.cpp`, `VioManagerHelper.cpp`, the updaters | one image from tracking to marginalization, step by step |
| `VioInit` | `try_to_initialize`, its thread | caller and thread as two processes, flags, queue, mutex |
| `ImuSelect` | `select_imu_readings`, `interpolate_data` | operators; a selected reading is its instant and what it is made from |
| `Propagator` | `feed_measurement_imu`, `propagate_and_clone`, the zero velocity updater's buffer | buffers and clock differences |
| `FastPropagation` | `fast_state_propagate`, `invalidate_cache` | the cache, copied field by field, beside the filter |
| `TrackBase` | `TrackBase.h`, `Grider_GRID.h` | last points, ids, the counter, the database; a detection per cell |
| `TrackKLT`, `TrackDescriptor` | the trackers of the same names | one camera or a stereo pair; cameras in parallel number their points in any order |
| `TrackAruco` | `TrackAruco.cpp`, `TrackSIM.cpp` | corners of tags; simulated features as they are given |
| `Trackers` | what `VioManager` constructs | one of the four over a few images; the properties |
| `Bspline` | `BsplineSE3.cpp` | operators: the control poses and those around an instant |
| `Simulation` | `Simulator.cpp`, `SimulatorInit.cpp`, `run_simulation.cpp`, `test_dynamic_init.cpp` | clocks, map, the image held back; one step per turn of the driver's loop |
| `StaticInitializer`, `DynamicInitializer` | the initializers | operators: when they decline, what they read, the system's rows and columns |
| `Initializer` | `InertialInitializer.cpp`, the calls of `VioManager` | readings, features; a reading or an image per step |
| `Factors` | `CpiV1`, `Factor_ImuCPIv1`, `Factor_ImageReprojCalib`, `Factor_GenericPrior`, camera models | operators: parameters and blocks by position; two polynomials |
| `McapReader` | `reader.inl`, `read_job_queue.hpp`, `intervaltree.hpp` | opening, summary, one message per step in either kind of reading |
| `DatasetRunner` | `run_dataset.cpp` | queue, pending pairs, drain, flush |
| `Evaluation` | `error_dataset.cpp`, `Loader.cpp`, `AlignUtils.cpp`, `ResultTrajectory.cpp` | the runs matched so far, their errors by time, the averages |
| `Filter` | loops that erase from a vector | an operator: what is left of a sequence |
| `DataFacts` | | lemmas: extrema, induction, sequences, `select_imu_readings` |
| `StateHelperProofs` | | invariants of `StateHelper`; it implements `SlidingWindow` |
| `VioManagerProofs` | | the invariants of `VioManager`; it implements `SlidingWindow` |
| `InitializationProofs` | | of `VioInit`: one owner of the state, catching up does not halt; of `Initializer`: the linear system, how far readings reach back |
| `PropagatorProofs` | | periods, buffer and selection |
| `FastPropagationProofs` | | the cache on one thread |
| `OfflineProofs` | | of `DatasetRunner`, `McapReader`, `Evaluation` and `Simulation`: order and completeness of what is read and fed, matches and averages, ids |
| `TrackersProofs` | | ids and tracks, of all four trackers |

`MC*` modules and configurations give constants; `MCOffline` runs `DatasetRunner` or `Evaluation`, the programs
before and after the filter, which meet in files only.  Definitions commented "Mistake" are not used:
each is a way the definition after it could have been got wrong, and makes a property fail.

**StateHelper.**  The covariance is symmetric, so one dimension of it is kept: `cov[r]` says
which component of which quantity row `r` describes.  `Cut`, `Copied`, `Augmented` and
`Rewritten` move these labels as the code moves blocks, so that a wrong shift shows.  An
anchor change is a rewrite of the landmark's rows.  What decides which feature is lost or
initialized is left open here, so that the theorems hold for any manager that keeps the order
of calls.

**UpdaterHelper, ErrorState.**  These are functions of the state, so they are looked at in every
reachable state of `StateHelper`: with the ids and the window of that state, every choice of up to
`MaxMeas` measurements is laid out, stacked and read back.  An entry is the set of derivatives
summed into it: one lost, doubled, overwritten (`=` where `+=` is meant) or in column 0 (a name the
hash map did not have) shows.  Block sizes of `ErrorState` are the real ones, and all combinations
of the three options and the three integrations are compared.  The reference for a derivative is
the function that was linearized: it belongs into a block exactly if the function uses the
variable.

**DualNumbers, QuatOps, Jacobians, FeatureInitializer.**  A Jacobian is right if it is the
derivative of the function it linearizes, whatever the numbers.  Both are computed exactly: numbers
are integers modulo 31, where every division has a result, with a second part that carries a
derivative (`x + y eps`, `eps^2 = 0`).  `Derivative` gives the function a change `eps` in each
component of the state, through the update the filter itself uses, and `Linearizes` compares.  A
formula of sums, products and quotients that holds for real numbers holds here as well; a wrong one
fails unless its two sides happen to agree for the sample.  Where the code takes roots, sines and
cosines, the samples are chosen so that they exist: quaternions and axes of norm 1, points with a
norm, an angle as the pair of its cosine and sine.  The Jacobians are checked for six representations,
first estimates used or not, and either camera and clone measuring, the anchor's included; the
anchor change for the representations with three components; triangulation for exact views.  The
refinement's loop is run for every outcome its comparisons may have, NaN among them, with
`max_runs` and `max_lamda` 2: it ends, no step is solved for with Jacobians of an earlier estimate,
and it never ends worse than it began.  These are facts of the code alone, conjuncts of
`LinearizationsReadAsWritten`.

**VioManager.**  `pc` goes through the steps of `track_image_and_update` and
`do_feature_propagate_update`.  The batches of `UpdaterSLAM::update` are one step: between
batches only the numbers of the state change.  `used` and `reused` are history: the
measurements consumed by an EKF update, and those consumed before.  `row` counts failures in a
row, which the code does not.  `setting` fixes whether images may be late and zero velocity
updates are enabled.  Time stamps are small numbers; several cameras may share one.

**VioInit.**  Every access to a flag, the queue and the state by either thread is a step.
Readings come at every instant, images are fed at most `MaxLag` readings late, and at most
`MaxInit` readings come while the thread runs.

**Propagator.**  `integrated` is how far, in the IMU's clock, the state has taken readings in;
`gap` is what a propagation leaves out or takes twice.  `t_off` changes by at most `MaxDrift`
with an update.

**FastPropagation.**  The cached estimate is told by the number of updates behind it and by the
instant (IMU clock) it is really for; `answer` has that of a pose beside the time asked for.  Which
clock that time is on depends on the call: the first one after an update takes it for the camera's,
later ones for the IMU's (`FirstPoseOnCameraClock`), where Propagator.h:120 promises the IMU's
(`PoseOfItsInstant`, the violation).  `Forward` asks for times further apart than the clocks: if they are
closer, the second call after an update already goes back.  `fast_state_propagate` has no caller in
the repository; it is the interface for poses at IMU rate.

**Trackers.**  A point is the physical thing that is seen and the cell of the image it lies in.
Optical flow and matching carry a point on or lose it; RANSAC drops any of them; detection takes
what the grid, the mask and the points already there what the grid, the mask and the points already there leave.  `IdsNameOnePoint` is about the points
the trackers hold, last ones and those at work: two with the same id are the same.

**Simulation.**  Which features a camera sees is arbitrary; whether an instant has a pose on the
spline is not: `Bspline` finds the control poses around it as the code does.

**Initializer, DynamicInitializer, Factors.**  A reading comes at every instant from
`FirstReading` to `LastReading`; an image is fed at most `MaxDelay` readings after its instant, and
tracks are any unbroken ones.  The orders in which features, and the cameras of each feature, come
out of hash maps are arbitrary and the same in both passes, as they are in the code.  The clock
difference is no larger than the first reading's stamp, so that an image has a stamp, nor than the window.
`Factors` does not depend on the run: its parts are evaluated for each system that is built.

**McapReader.**  A recording is a sequence of messages and chunks; offsets are their order.  The
state between two messages is the queue, the slots and the chunk that is being read.  Where a chunk ends at
a time that the next one also has a message of, the comparison of jobs against time is no order
(`Tangled`): of messages of such a time no order is promised when reading in reverse, but none comes
twice.  `DeliversAll` asks for a summary with the channels, or none that is used: one with chunks
alone reads as complete and delivers nothing.

**DatasetRunner.**  A message has a log time and a stamp, at most `MaxLatency` apart.  The clock
difference a drain reads from the state is any of `ClockOffsets`, another one with every drain.  With
`MaxLatency = 0`, as in the run and the theorems, log times are stamps; the converters under `tools/` write
recordings so, `mcap convert` (ov_frontend/README.md:26) keeps the log times of the bag.

**Evaluation.**  A pose is its line in a file, an error the time it is filed under.

## 3. The runs

| run | question | bounds |
|---|---|---|
| `state_helper` | do ids, rows, containers and anchors stay together; does the covariance alone implement `SlidingWindow`; are derivatives read as they were written, and are they derivatives | 6 stamps, 5 calibration variables, 2 features and a tag, window 2, blocks that differ in size; 2 cameras, 2 measurements per feature; one sample of two clones, two cameras and a point, modulo 31 |
| `vio_manager` | landmark budget, lost landmarks, tracks while still, measurements used once, no failed assertion, implements `SlidingWindow` | 1 camera, 2 features, 7 images, window 2, one landmark, one MSCKF feature; 2 cameras together or apart, 1 feature, 4 stamps |
| `vio_manager_no_clone` | *violation*: the clone of an image is missing | 2 cameras, 3 stamps, late images and zero velocity updates |
| `propagator` | whole periods, no gap without zero velocity updates, the readings against the piecewise linear signal | 9 instants, readings 1 or 2 apart, two clock differences, window 2 |
| `vio_init` | one owner of the state, catching up never halts, thread ends, feeding returns | window 6, lag 3, 3 readings during the thread, both threading modes |
| `fast_propagation` | fresh after an update, the first pose from a copy on the camera's clock and the others on the IMU's | 9 instants, 2 updates, two differences |
| `fast_propagation_clock` | *violation*: a pose is not of the instant asked for on the IMU's clock | the same |
| `trackers` | ids name one point, one measurement per image, unbroken tracks, tags known by their id | 4 trackers; 1 camera over 4 images, 2 apart over 2, a stereo pair over 3; 2 cells, 2 points in each image, masks |
| `simulation` | readings around every image, ids of one camera, the loop ends | 2 drivers, an even and an uneven trajectory, 3 pairs of rates, 2 cameras, a clock difference and the filter's, from 0 to 3 |
| `initializer` | the system is filled, readings reach back far enough, factors are read as written | a window of 6 readings in 12, 2 features of one camera or 1 of two |
| `mcap_reader` | order and completeness of what is delivered | every pair of units with up to 2 messages of 2 channels, with 4 kinds of summary; broken and cut-off ones; every triple of chunks with up to 2 messages of 3 times; 3 orders, several periods |
| `offline` | images in order, each once; nearest truth, averages over all runs | 2 or 3 cameras, 4 instants, two clock differences; 4 truths, 6 stamps of estimates of which each run has any, 2 runs on a dataset |

Why the bounds are enough.  The window is 2, and runs cover at least two images past a full
window: a clone is removed, and another after it while a landmark was moved.  Two features
are the smallest number that compete for one place; a third would only repeat the choice.  Two
cameras give every relation of stamps (same message, same stamp, earlier, later).  In
`state_helper` the blocks differ in size, so that a shift by the wrong one misplaces a label,
and the theorems remove the bounds.  `SelectsTheSignal` meets a reading before, at, between and
after either end.  `vio_init` has room for a failed and a second attempt, and queues three images.
`MinClones`, 5 in the code, is 2 (1 where the violation needs no more), as `max_clone_size` is.
A tracker's third image uses what its second left after losing and adding points.  Three chunks
are enough for one to start inside another and a third to come before both.  The trajectories of
`simulation` have a gap wider than the spline's step and an end that falls between a reading and an
image.

Checked by hand with other constants, with the same result: `state_helper` with single-depth
features (`FeatSize = 1`, `FullSize = 3`) and with global ones (`Relative = FALSE`).

Deadlock is not checked: stamps, readings, recordings and files end.  No symmetry is used.

**Fairness.**  `VioInit`: `WF` on the caller's steps inside a call and on the thread's steps.
Both are threads of the operating system that run when they can; the numeric work is finite.
There is none on messages: a caller may stop feeding.  `InitThreadEnds` and `FeedReturns`
therefore hold without any further message.  They allow for `halted`, which `CatchUpNeverHalts`
shows not to occur within the bounds, and section 4 under the condition that the bounds meet.  `Simulation`: `WF` on its only action, a turn of the
driver's loop, which nothing outside can stop; that the loop leaves is `SimulationEnds`.

### Disagreements found

*A clone that is not there* (`vio_manager_no_clone`).  An image of one camera at t ends in a
zero velocity update: the state is at t without a clone.  A late image is offered to the
zero velocity updater before the order check (VioManager.cpp:297, 329-334); it is rejected
and overwrites `did_zupt_update`.  The other camera's image at t is then taken as moving,
needs no propagation, gets no clone, and fails the assertion at VioManagerHelper.cpp:197.

*One argument on two clocks* (`fast_propagation_clock`).  Propagator.h:120 says of the argument of
`fast_state_propagate` "Time to propagate to (IMU clock frame)".  Propagator.cpp:154 adds the cached clock
difference to it, which line 242 sets to zero afterwards: the first call after the filter invalidated
the cache reads its argument on the camera's clock, every later one on the IMU's.  Poses asked for
at even steps are then not at even steps.

### Experiments

Conditions under which a property fails; each needs the constants, or the property, named.

| change | fails | why |
|---|---|---|
| `RequiredMeas = 2` (single inverse depth), `Settings` ordered images of one camera with two features | `MeasurementsUsedOnce` | a landmark's feature with one measurement leaves the update without its deletion mark (UpdaterSLAM.cpp:292); an image later it holds a measurement at the oldest clone, and goes to the MSCKF update and to the SLAM update |
| `Settings <- LateAndStill` with two cameras | `NeverStops`, `MeasurementsUsedOnce` | a late image that counts as still moves the state back |
| `GivenUpOnlyAfterFailuresInARow` in `VioManager` | itself | VioManager.cpp:459 speaks of failures in a row; `update_fail_count` (UpdaterSLAM.cpp:415) is never reset by a success |
| `NoGapBetweenPeriods` in `Propagator`, with `Slack = 3`, `Offsets <- OneStep` | itself | Propagator and zero velocity updater each keep the clock difference of their own last step (Propagator.cpp:63, against Propagator.h:101-102): after a zero velocity update the next propagation starts from a stale one and leaves readings out or takes them twice |
| `Buffered = FALSE` in `Propagator` | `IntegratesWholePeriod` | an image fed before the readings up to it |
| `Offsets <- FarAhead` | `IntegratesWholePeriod` | readings are cut with a stamp of the camera's clock; a difference beyond the 0.1 s in reserve loses them (VioManager.cpp:170) |
| `SharedStamps = TRUE` in `VioInit` | `CatchUpNeverHalts` | two cameras' images of one stamp are queued twice; the second `propagate_and_clone` exits (Propagator.cpp:37) |
| `MaxInit = 4` in `VioInit` | `CatchUpNeverHalts` | a slower initialization: readings it still needs were cut (VioManager.cpp:175) - the bound 3 is the largest that is safe |
| `Threads = TRUE` in `FastPropagation` | `FreshAfterUpdate`, `FirstPoseOnCameraClock` | the copy is made of fields of two states, and declared valid after the filter invalidated it |
| `Forward = FALSE` in `FastPropagation`, with `Offsets = {0}` | `PoseOfItsInstant` | the cache moves along with every pose (Propagator.cpp:241); asked for 2 and then for 1 the readings around 1 are integrated on top of the estimate at 2, and the call returns true (Propagator.h:123) with the pose of 3 |
| `MaxLatency = 1` in `DatasetRunner` | `PairsShareStamp` | run_dataset.cpp:262 says "pair stereo frames by exact timestamp", the key (263) is the log time |
| `DetectedOutsideMask` in `Trackers`, stereo | itself | TrackKLT.h:99-100 and Grider_GRID.h:62 promise points outside the mask; the right image's are not tested (TrackKLT.cpp:721) |

### Also seen while reading

*VioManager.*  Catching up clones every n-th missed image and may skip the last ones
(VioManagerHelper.cpp:159-160).  The queue is cleared before the flag is reset (166): an image pushed
in between is lost, harmlessly.  `retriangulate_active_tracks`: a second camera's observation of a
feature replaces the first's, cameras that are not synchronized drop each other's systems, and
`total_triangulated` stays 0.  UpdaterSLAM.cpp:161, 227, 232, 393, 409 tell tags by
`featid < max_aruco_features`, StateHelper.cpp:637 and VioManager.cpp:435 by
`<= 4 * max_aruco_features`.

*Updaters, propagator.*  A landmark seen once with a single inverse depth leaves no rows after
the nullspace projection, harmlessly; a camera whose measurements were all cleaned away keeps
calibration columns of zeros.  The discrete derivative of the rotation by Da
(Propagator.cpp, about 928) lacks the factor Dw that the derivative by the accelerometer's bias
and the analytic version have: a number, and those of the propagator are not modelled.  The zero velocity update
leaves out the IMU's intrinsics (a TODO there).  `feed_imu` does not reject equal stamps, which
would divide by zero in `interpolate_data`.  Propagator.h:187-200 gives the derivatives by Da for the two
IMU models the other way round than the code has them.  `Landmark::get_xyz(true)` returns the
current estimate for two representations (Landmark.cpp:49, 57), which Jacobians do not use.

*Trackers.*  On the first image parallel threads insert into an `unordered_map` without a lock
(TrackKLT.cpp:115, TrackDescriptor.cpp near 88, TrackAruco.cpp).  TrackKLT.cpp:310 tests left bounds
with `>`; 527 reads `mask_rsc[i]` without a check of its size.  Stereo detection of
`TrackDescriptor` never marks its grid.  TrackAruco.cpp:135 and 147 accept the tag id `numaruco`,
whose corners collide with the next range.  `Grider_GRID` shrinks its grid but not `valid_locs`.
`change_feat_id` has no caller.

*Simulator.*  The comment near Simulator.cpp:168 does not hold.  With a perturbed clock difference
smaller than the true one the first period starts before the first reading.

*Initializers.*  An image that brings no newer measurement makes the dynamic initializer decline
once.  VioManager.cpp:172 mixes clocks: right while difference, lag and period stay within the
reserve; a difference over 0.1 s starves the dynamic initializer.  The first period may start up to
one reading late (0.01 s are tolerated).  `compute_disparity` returns no value for fewer than two
disparities.  The static initializer's stamp is the IMU's, State.h:140 says the camera's.  `_imu` is
written before the recovery of the covariance may fail.  `init_max_disparity <= 0` keeps the
dynamic initializer from ever running.  "Few features" is never reached behind "few poses".
It reads features by shared pointer while the tracker may append.

*Reader.*  A summary without channels makes indexed reading deliver nothing, silently;
messages outside chunks are left out by indexed reading, and lie outside `byteRange` after
`readSummary`.  A broken chunk with a channel's record loses that channel's later messages in file
order.  A truncated recording ends silently.  `TypedRecordReader` hands out chunk and inner offset in
swapped roles (unused).  The reverse order is ambiguous where one chunk's indexes end at another's
start, harmlessly.  `run_dataset` reads in file order though its comment near 209 says log time.
`ReadMessageOptions::validate` is never called.

*Evaluation.*  A truth exactly `max_difference` before a pose, or two truths of one stamp, stop the
match.  `AlignUtils` tests `est_times.size() < 3` where the matched times are meant.
`Statistics::calculate` never resets `rmse`, and divides by zero for one value.
`load_timing_percent` reads a fourth column unchecked.  One bad file ends all of `error_dataset`.
`error_comparison` averages 0/0 for an algorithm without data.

## 4. The proofs

`StateHelperProofs` proves, for every set of stamps and features, any number and sizes of
calibration variables, any block sizes with the pose smaller than the IMU, and any window
length, under `StateAssumption` alone:

| theorem | property |
|---|---|
| `TypeCorrect` | `TypeOK` |
| `BlocksAlwaysDescribeVariables` | every variable's block is its own |
| `RowsAlwaysPartitioned` | every row belongs to exactly one variable |
| `ContainersAlwaysAgree` | `_variables` and the maps name the same variables |
| `AnchorsStayInWindow` | no landmark is anchored in a clone that is gone |
| `ExitIsUnreachable` | no operation meets the guard that exits |
| `WindowStaysBounded` | the window exceeds its length by the new clone only |

The invariant `IInv` is the conjunction of `TypeOK`, `LayoutInv` (the blocks tile the matrix
and say what their variables mean), `ContainersAgree`, `CalibrationChain` (calibration
variables follow the IMU in the constructor's order, so that the IMU intrinsics stay right
behind it), `Constructing`, `AnchorsInWindow`, `Processing` (what each `pc` knows of window,
anchors and time) and `NeverExits`.  `BlocksDescribeVariables` is not inductive: that cutting
one block leaves the others' labels in place needs the blocks to be disjoint and to reach no
further than the matrix, and for the rows to be all taken it needs the tiling.  Three lemmas
say this once, of any set of blocks: `LayoutAppend`, `LayoutCut`, `LayoutRewrite`.  Every action
is one of these on some variables, and has a lemma of its own; `StepKeepsInvariant` puts them
together.  That the window is not empty when a clone is looked up needs its cardinality, from
`FiniteSetTheorems`.

`CovarianceImplementsSlidingWindow` is in the same module: the window, the points and the frame
that `SlidingWindow` speaks of are read off the labels of the rows, never off the containers.  By
the invariant every row is some variable's and every variable has a first row (`RowOfVariable`,
`VariableHasRow`), so the covariance tells exactly what the containers hold (`Told`); then each
kind of step, on containers, is a step of `SlidingWindow` or stutters.

`DataFacts` has what the other proofs share.  Induction over data is stated there as a fact about
a set of numbers (`Inductive`), which can be cited for the property at hand; by it, what `Kept`
leaves of a sequence (`KeptIs`, `KeptAppend`, `KeptChained`), what flattening gives, and, for a
buffer of any length, what the loop of `select_imu_readings` collects and its last pass removes
(`IterationsAre`, `SelectIs`, `Covers`, `NoZeroDt`).

`VioManagerProofs`, under `VioAssumption`, for any cameras, features, stamps and options:

| theorem | property | holds if |
|---|---|---|
| `LandmarksWithinBudget` | `SlamBudget` | always |
| `ClonesOfOrderedImages` | `CloneOfImageExists`, no exit | images are ordered, or no zero velocity updates |
| `NeverStopsInOrder` | `NeverStops` | the same |
| `EachMeasurementOnce` | `MeasurementsUsedOnce` | ordered images, none used up as zero velocity, `RequiredMeas = 1` |
| `LostLandmarksGo` | `LostLandmarksMarginalized` | `RequiredMeas = 1` |
| `StillTracksBounded` | `UnclonedBounded` | ordered images |
| `ManagerSlidesWindow` | `ImplementsSlidingWindow` | time goes forward (`Forward`) |

* The landmarks alone are not inductive for the budget: features that were set apart become
  landmarks four steps later.  `BudgetInv` counts both.  When the features are divided, what is
  promised after is among the new ones and the landmarks before, and the new ones were counted
  against the latter; no other step adds to it.
* `CloneInv` says that the state leaves its clones behind only by a zero velocity update
  (`LeftByZupt`), that its decision is then still the last one, and that ordered images are never
  behind the state (`InOrder`).  That is the other half of the first disagreement above: it takes both,
  a late image and a zero velocity update.  `AnchorInv` adds that the assertions about anchors hold.
* `OnceInv` says, at each step of an image, what the tracks that are left may hold of the clones'
  stamps (`Divided`, `UsedOnce`): a feature whose measurements were used is marked until
  the cleanup.  With `RequiredMeas = 2` one measurement of two cameras that are not
  synchronized may be left over, as the experiment above shows; a landmark with one left is not
  given up either.
* `StillInv` follows the measurements of features while the platform stands still: each camera's
  first and last one are not cut.
* `Forward` asks for no zero velocity updates, or ordered images of at most two cameras.  With
  three, the first image after initialization may be followed by a still one of the third
  camera that is older, and the code has no check: time goes back, which `SlidingWindow` does not
  allow.  `FitsInv` says that window and landmarks fit what the abstract specification was
  given; the proof has one lemma for each kind of step.

`PropagatorProofs`, under `PropagatorAssumption`:

* `PeriodsJoinWithoutZupt` (`NoGapWithoutZupt`): without zero velocity updates `prop_offset` is the
  difference the last period ended with (`JoinInv`).
* `WholePeriods` (`IntegratesWholePeriod`), if `Buffered` and `ReserveSuffices`: the 0.1 s kept in
  reserve are worth a gap between two readings, on top of how far the clocks differ and how much
  the estimate of that varies.  `BufferInv` says that the buffer has no gap but at its end and
  reaches back to the start of the next period.  Both conditions are needed: see the experiments.
* `SelectionsAreTheSignal` (`SelectsTheSignal`): whatever is selected is the piecewise linear signal.
  It needs of the buffer only that it ascends (`SelectInv`); the rest is `DataFacts`.

`FastPropagationProofs`, on one thread: `FreshOnOneThread` (`FreshAfterUpdate`) by `CacheInv` (a copy
that is valid was made after the last update), and `PosesOfTheirClocks` (`FirstPoseOnCameraClock`), if
poses are asked for in the order of time (`Forward`), by `PoseInv`: the cache is then never past the
instant asked for, and the readings it still needs are in the buffer.  Neither holds with threads.
`PosesOfTheirInstants` follows if the clocks agree as well (`Offsets = {0}`): every pose is that of the
instant asked for, what Propagator.h promises.  The violation run and the experiment with
`Forward = FALSE` show that it takes both conditions.

`OfflineProofs` is about the programs around the filter.

| theorem | property | of | holds if |
|---|---|---|---|
| `OrderOfImages` | `FedInOrder` | `DatasetRunner` | messages are logged at their stamp (`MaxLatency = 0`) |
| `NoImageLeftBehind` | `EveryFrameFedOnce` | | the same |
| `ReadInOrder` | `DeliveredInOrder` | `McapReader` | always |
| `NothingAskedIsLeft` | `DeliversAll` | | always |
| `PosesMatchNearest` | `MatchesNearest` | `Evaluation` | no truth is `max_difference` before an estimate (`EvaluationAssumption`) |
| `AveragesAreOfAllRuns` | `AveragedOverAllRuns` | | the same |
| `ImagesAreFedWithinReadings` | `ImagesWithinReadings` | `Simulation` | always |
| `IdsAreOfOneCamera` | `IdsOfOneCamera` | | always |

* `RunnerInv` says that what was fed and what is queued is one ascending sequence, that pending
  halves wait for a partner not yet read, and that each frame is in exactly one of queue, pending
  halves and what was fed.  Any cameras and lengths; the table of experiments has messages logged late.
* Order alone is not inductive for the reader: a job that is taken must be behind all that was
  delivered.  `ReaderInv` says so of every job in the queue (`OutPrecedes`), that no message is
  queued twice or beside the chunk it is in (`OnceQueued`), and that a slot's count is the number of
  its messages in the queue (`SlotsCounted`), so that no chunk is read over one still needed.
  `CompleteInv` says what of the messages asked for is delivered, and where the rest is: behind the
  position in the file, or in the queue, itself or with its chunk.  For that the search of the
  interval tree has to find every chunk of the period (`Overlapping`), by induction over its depth.
* `PointerPast`, the invariant of the loop over poses: what the pointer has passed is too old for the
  poses to come, or not after a truth already taken.  From there the pass stops at the nearest, because
  the distance to an ascending sequence of stamps falls and then rises.  `EvaluationInv`: the errors
  filed are, run by run, those of its matches, so that a number of errors under a time is a number of runs.
* `SimulationInv` relates the two clocks, the reading last fed, the image held back and the filter's
  time; a reading without a pose is the last thing the loop asks for before an image.  That an
  image lies within the readings follows when it is fed.  The ids are those of points below
  the size of the map by which they were shifted, which does not change while an image is held.

`InitializationProofs`, for any window, delays, threading mode and, below, tracks:

* `StateAlwaysHasOneOwner` (`StateHasOneOwner`): the flag tells whether there is a thread, success is
  final, and from its look at the flag on the caller knows there is none.
* `CatchingUpIsSafe` (`CatchUpNeverHalts`), if no two images share a stamp and the readings kept
  last (`ReadingsLast`): those that come while the thread runs and until the image after it are no
  more than the buffer holds behind the earliest instant an initializer returns.  The run's
  constants meet it with equality, and with one reading more the property fails.  `CatchInv` says
  how old the readings are that are left at each step of either thread, that the queue is in
  order and newer than the clones, and that the state is as recent as what the initializer read.
* `SystemAlwaysComplete` (`SystemComplete`), under the assumptions on the constants alone.  A pose is
  chosen when an observation is apart from all poses before by the period.  No later one can then
  be within the period of an earlier pose, so that an observation without a pose when it is
  counted never gets one; what is counted are the observations with a pose at the end, in whatever
  order features and their cameras come, and that is what is appended.  `LookingInv` says what a
  database may hold, features the cameras can see at instants before the last reading, and that the
  readings have no gap.
* `ReadingsAlwaysReachBack` (`ReadingsReachBack`), if readings are dense in the window
  (`WindowOfReadings`: either half of it has two, and so has the period that keeps poses apart) and
  the reserve outlasts clock difference and delay (`ReserveSuffices`).  The code has hundreds of
  readings per second, windows of seconds with a handful of poses, and 0.10 s in reserve; a larger
  difference starves the dynamic initializer, as section 3 notes.  The first reading left is not tied
  to the last image, since the rules prune at different times.  `ReachesBack` has three cases: all
  there ever were, as far as `feed_measurement_imu` prunes behind the newest reading, or a window
  behind some image in the database.

`TrackersProofs`, under `TrackAssumption` and `GivenAssumption`, for any grid, masks, numbers of
features and images, and whatever is detected, found and matched in them:

| theorem | property | holds if |
|---|---|---|
| `IdsAreUnique` | `IdsNameOnePoint` | always |
| `LostStaysLost` | `TracksUnbroken` | always |
| `OneMeasurementPerImage` | `OncePerImage` | `CornersApart`, where tags are tracked |
| `TagsAreTold` | `TagsKnownByTheirId` | always |

* The last points alone are not inductive: between detection and tracking a thread holds points
  that no other thread may be given the ids of.  `IdsInv` is about what a camera holds, `Held`, its
  last points and the new ones; all ids are up to the counter, past those of tags, and of cameras
  that are tracked apart no two hold the same.
* `CameraTracks` says what makes tracks unbroken: what a camera may measure next was measured in its
  last image, or never.  While its thread works the last image is the one before the newest,
  so that the stamps in the database are behind `images` by one (`Newest`, `Until`).
* Each kind of step is reduced to the features it measures of each camera (`Measures`); one lemma for
  each says that the invariant is kept: `StartKeeps`, `WorkKeeps`, `ForwardKeeps`, `PairKeeps`.  What
  remains of a tracker is that the points it ends with have ids of their own, old ones of the same
  camera or new: `KltDetection`, `GoodTracksIs`, `WithOldIs`, `OldPairIs`.
* `CornersApart`: the dictionary does not hold both tag 0 and tag `max_aruco_features`.  TrackAruco.cpp:135
  lets both pass, and a corner of one then has the id of another of the other.  The code's
  dictionary ends at 999 and `num_aruco` is 1024 unless configured; set to at most 999 it need not be met.

Each of these invariants was first checked by TLC on the instance of its run.

Only model-checked:

* Liveness: `InitThreadEnds`, `FeedReturns`, `SimulationEnds`.
* `LinearizationsReadAsWritten`, `FactorsReadAsWritten`: comparisons of one layout of blocks with
  another, folds over sequences of blocks, in exact arithmetic over samples.

## 5. What is not modelled, and why

* Numerics: means, gains, chi2 tests, whether a triangulated point is accepted, integration and its
  derivatives, the logarithm and the Jacobians of rotations, the second preintegration (`CpiV2`),
  values of splines, undistortion, ceres.  No property here depends on them but through choices
  that are left open.  What is modelled exactly is so over a finite field: rounding, and angles that
  leave their range, are not.
* The pseudo-inverse of an anchor change with a single inverse depth: it is no derivative, the
  bearing being held.
* Aruco landmarks in `VioManager` (off by default; `StateHelper` has them, they are never
  removed), downsampling, histogram equalization, drawing; `feed_measurement_simulation` and
  `initialize_with_gt` beyond the order of calls.
* Data races proper (`set_num_features`, the initializer's buffer, `clean_old_imu_measurements`,
  VioManager.cpp:301, FeatureDatabase.cpp:29): the model has one caller, as the repository's
  programs do, and interleaves it with the thread at accesses to flags, queue and state.
* Of `ov_eval`: alignment, relative errors, 2-d errors, statistics, timing, plots (`ResultSimulation`
  reads files nothing in the repository writes).  Of mcap: the writer, which nothing uses, and
  decompression.
* I/O: parsing, configuration, visualization, conversion of recordings.

## 6. Plan

Done: the window and covariance with the layout of the updates, the manager, initialization beside
the stream, with proofs; the IMU side, the runner; trackers, simulator, initializers, the reader
and the evaluation, with proofs as well; the Jacobians of the updaters and the triangulation.  Left, in this order:

1. **Aruco landmarks** in `VioManager`, with the ranges of ids of `TrackAruco`.
2. **Composition** of `DatasetRunner` with `VioManager`: which of the manager's settings (late
   images, shared stamps) the runner can produce.
3. **The propagator's derivatives**, by means of `DualNumbers`: transition and noise against
   `predict_mean_discrete`, where the factor missing from the derivative by Da should show.
