---------------------------- MODULE StateHelper ----------------------------
(***************************************************************************)
(* The filter state and its covariance (ov_msckf/src/state/State.cpp and   *)
(* StateHelper.cpp).                                                       *)
(*                                                                         *)
(* Every estimated variable (a "Type") owns a block of rows and columns of *)
(* state->_Cov: size() rows starting at id().  Nothing but index           *)
(* arithmetic keeps blocks and variables together while clones and         *)
(* landmarks are appended at the end of the matrix and cut out of its      *)
(* middle.  The covariance is symmetric, so the model keeps one dimension  *)
(* of it: cov[r] says which error component row and column r describe, as  *)
(* <<quantity, component>>, and each operation moves those labels exactly  *)
(* as the code moves the blocks.                                           *)
(*                                                                         *)
(* The operations are called in the order VioManager calls them in, which  *)
(* pc keeps; which features are lost, tracked or triangulated is left to   *)
(* the environment here (module VioManager decides it).                    *)
(***************************************************************************)
EXTENDS Integers, FiniteSets

CONSTANTS
  Stamps,          \* camera time stamps the filter may be asked to move to
  Feats,           \* ids of the features that may become landmarks
  Aruco,           \* those with id <= 4 * max_aruco_features
  NumCalib,        \* calibration variables being estimated, in the order
                   \* of the constructor: dw, da, tg, GYROtoIMU, dt, cam ...
  NumIntrinsics,   \* how many of them, from the first, are IMU intrinsics
  CalibSize,       \* their sizes
  ImuSize,         \* 15 in the code
  PoseSize,        \* 6: the pose leads the IMU's error state
  FeatSize,        \* 3, or 1 for the single inverse depth representation
  max_clone_size,  \* length of the sliding window
  EnoughClones     \* min(max_clone_size, 5): no update with fewer clones

Calibs == 1..NumCalib

ASSUME StateAssumption ==
  /\ Stamps \subseteq Nat
  /\ Aruco \subseteq Feats
  /\ NumCalib \in Nat /\ NumIntrinsics \in 0..NumCalib
  /\ CalibSize \in [Calibs -> Nat \ {0}]
  /\ PoseSize \in Nat \ {0} /\ ImuSize \in Nat /\ PoseSize < ImuSize
  /\ FeatSize \in Nat \ {0}
  /\ max_clone_size \in Nat \ {0}
  /\ EnoughClones \in 1..max_clone_size

VARIABLES
  timestamp,       \* state->_timestamp, -1 until the filter is initialized
  variables,       \* state->_variables
  id,              \* id() of every variable, -1 outside the state
  cov,             \* what each row of state->_Cov describes
  dim,             \* state->_Cov.rows()
  clones,          \* the keys of state->_clones_IMU
  anchor,          \* state->_features_SLAM: landmark -> its anchor's stamp
  pc               \* how far VioManager is with the current image

vars == <<timestamp, variables, id, cov, dim, clones, anchor, pc>>

(***************************************************************************)
(* The estimated variables, and the quantities that rows describe: the IMU *)
(* at an instant, a calibration value, a point in its anchor's frame.      *)
(***************************************************************************)
Imu         == <<"imu", 0>>
Calib(c)    == <<"calib", c>>
Clone(t)    == <<"clone", t>>
Landmark(f) == <<"landmark", f>>

Type == {Imu} \cup {Calib(c) : c \in Calibs} \cup {Clone(t) : t \in Stamps}
              \cup {Landmark(f) : f \in Feats}

Size(v) == CASE v[1] = "imu"      -> ImuSize
             [] v[1] = "calib"    -> CalibSize[v[2]]
             [] v[1] = "clone"    -> PoseSize
             [] v[1] = "landmark" -> FeatSize

At(t)       == <<"at", t, 0>>
Value(c)    == <<"value", c, 0>>
Point(f, a) == <<"point", f, a>>

Landmarks == DOMAIN anchor

Rows(v) == id[v]..(id[v] + Size(v) - 1)

-----------------------------------------------------------------------------
(***************************************************************************)
(* Operations on the covariance.                                           *)
(***************************************************************************)

\* EKFPropagation rewrites the rows of order_NEW: s rows from i now describe q.
Rewritten(c, i, s, q) ==
  [r \in DOMAIN c |-> IF r \in i..(i + s - 1) THEN <<q, r - i>> ELSE c[r]]

\* Mistakes: the matrix is not made smaller; its last rows are cut instead of m's.
CutNothing(c, n, i, s) == c
CutLast(c, n, i, s) == [r \in 0..(n - s - 1) |-> c[r]]

\* marginalize: P_(x_1,x_1) stays, P_(x_2,x_2) moves up by the s rows cut at i.
Cut(c, n, i, s) ==
  [r \in 0..(n - s - 1) |-> IF r < i THEN c[r] ELSE c[r + s]]

\* clone: s rows from i are copied behind the last row.
Copied(c, n, i, s) ==
  [r \in 0..(n + s - 1) |-> IF r < n THEN c[r] ELSE c[i + (r - n)]]

\* initialize_invertible: s new rows behind the last one describe q.
Augmented(c, n, s, q) ==
  [r \in 0..(n + s - 1) |-> IF r < n THEN c[r] ELSE <<q, r - n>>]

\* EKFPropagation refuses an order_NEW that is not contiguous in memory: the
\* IMU must be followed by the IMU intrinsics.
OrderContiguous ==
  \A c \in 1..NumIntrinsics :
    id[Calib(c)] = IF c = 1 THEN id[Imu] + ImuSize
                            ELSE id[Calib(c - 1)] + CalibSize[c - 1]

\* Mistakes: the ids behind m are not shifted; m keeps its own.
MarginalizeNoShift(m) ==
  /\ variables' = variables \ {m} /\ id' = [id EXCEPT ![m] = -1]
  /\ cov' = Cut(cov, dim, id[m], Size(m)) /\ dim' = dim - Size(m)
MarginalizeKeepsId(m) ==
  /\ variables' = variables \ {m}
  /\ id' = [v \in Type |-> IF v \in variables /\ id[v] > id[m] THEN id[v] - Size(m) ELSE id[v]]
  /\ cov' = Cut(cov, dim, id[m], Size(m)) /\ dim' = dim - Size(m)

\* marginalize(state, m), less the removal from _clones_IMU / _features_SLAM.
Marginalize(m) ==
  /\ variables' = variables \ {m}
  /\ id' = [v \in Type |-> IF v = m THEN -1
                           ELSE IF v \in variables /\ id[v] > id[m]
                                THEN id[v] - Size(m) ELSE id[v]]
  /\ cov' = Cut(cov, dim, id[m], Size(m))
  /\ dim' = dim - Size(m)

\* EKFPropagation and then augment_clone: the IMU's rows describe instant t, and
\* the clone is a copy of its leading pose.
PropagateAndClone(t) ==
  /\ timestamp' = t
  /\ variables' = variables \cup {Clone(t)}
  /\ id' = [id EXCEPT ![Clone(t)] = dim]
  /\ cov' = Copied(Rewritten(cov, id[Imu], ImuSize, At(t)), dim, id[Imu], PoseSize)
  /\ dim' = dim + PoseSize
  /\ clones' = clones \cup {t}
  /\ UNCHANGED anchor

\* What makes propagate_and_clone, EKFPropagation or augment_clone exit.
PropagationExits(t) == t <= timestamp \/ t \in clones \/ ~OrderContiguous

-----------------------------------------------------------------------------
(***************************************************************************)
(* The constructor appends one calibration variable per iteration.         *)
(***************************************************************************)
Init ==
  /\ timestamp = -1
  /\ variables = {Imu}
  /\ id = [v \in Type |-> IF v = Imu THEN 0 ELSE -1]
  /\ cov = [r \in 0..(ImuSize - 1) |-> <<At(-1), r>>]
  /\ dim = ImuSize
  /\ clones = {}
  /\ anchor = [f \in {} |-> 0]
  /\ pc = "construct"

\* Mistake: the constructor appends them in another order.
AppendAnyCalibration(c) ==
  /\ pc = "construct" /\ Calib(c) \notin variables
  /\ variables' = variables \cup {Calib(c)}
  /\ id' = [id EXCEPT ![Calib(c)] = dim]
  /\ cov' = Augmented(cov, dim, CalibSize[c], Value(c))
  /\ dim' = dim + CalibSize[c]
  /\ UNCHANGED <<timestamp, clones, anchor, pc>>

AppendCalibration(c) ==
  /\ pc = "construct"
  /\ Calib(c) \notin variables
  /\ \A b \in 1..(c - 1) : Calib(b) \in variables
  /\ variables' = variables \cup {Calib(c)}
  /\ id' = [id EXCEPT ![Calib(c)] = dim]
  /\ cov' = Augmented(cov, dim, CalibSize[c], Value(c))
  /\ dim' = dim + CalibSize[c]
  /\ UNCHANGED <<timestamp, clones, anchor, pc>>

\* initialize_with_gt, or the initialization thread: set_initial_covariance
\* overwrites the IMU's block.
Initialize(t) ==
  /\ pc = "construct"
  /\ \A c \in Calibs : Calib(c) \in variables
  /\ timestamp' = t
  /\ cov' = Rewritten(cov, id[Imu], ImuSize, At(t))
  /\ pc' = "ready"
  /\ UNCHANGED <<variables, id, dim, clones, anchor>>

\* An image newer than the state; with too few clones nothing else happens.
NewImage(t) ==
  /\ pc = "ready"
  /\ t > timestamp
  /\ PropagateAndClone(t)
  /\ pc' = IF PropagationExits(t) THEN "exit"
           ELSE IF Cardinality(clones') < EnoughClones THEN "ready" ELSE "update"

\* An image of another camera with the stamp of the newest clone.
SameStampImage ==
  /\ pc = "ready"
  /\ timestamp \in clones
  /\ Cardinality(clones) >= EnoughClones
  /\ pc' = "update"
  /\ UNCHANGED <<timestamp, variables, id, cov, dim, clones, anchor>>

\* The initialization thread catches up with the images it missed; there is
\* no landmark yet, and each new clone is followed by marginalize_old_clone.
CatchUp(t) ==
  /\ pc = "ready"
  /\ Landmarks = {}
  /\ t > timestamp
  /\ PropagateAndClone(t)
  /\ pc' = IF PropagationExits(t) THEN "exit" ELSE "marginalize"

\* A zero velocity update moves the state's time without a clone.  Only the
\* biases are propagated, the IMU's pose is taken to be that of instant t.
ZeroVelocityUpdate(t) ==
  /\ pc = "ready"
  /\ t > timestamp
  /\ timestamp' = t
  /\ cov' = Rewritten(cov, id[Imu], ImuSize, At(t))
  /\ UNCHANGED <<variables, id, dim, clones, anchor, pc>>

\* One removal of marginalize_slam; aruco tags are never removed.
MarginalizeSlam(f) ==
  /\ pc = "update"
  /\ f \in Landmarks \ Aruco
  /\ Marginalize(Landmark(f))
  /\ anchor' = [g \in Landmarks \ {f} |-> anchor[g]]
  /\ UNCHANGED <<timestamp, clones, pc>>

MarginalizeSlamDone ==
  /\ pc = "update"
  /\ pc' = "delayed"
  /\ UNCHANGED <<timestamp, variables, id, cov, dim, clones, anchor>>

\* delayed_init of a feature anchored in clone a: initialize appends it.
DelayedInit(f, a) ==
  /\ pc = "delayed"
  /\ f \notin Landmarks
  /\ a \in clones
  /\ variables' = variables \cup {Landmark(f)}
  /\ id' = [id EXCEPT ![Landmark(f)] = dim]
  /\ cov' = Augmented(cov, dim, FeatSize, Point(f, a))
  /\ dim' = dim + FeatSize
  /\ anchor' = [g \in Landmarks \cup {f} |-> IF g = f THEN a ELSE anchor[g]]
  /\ UNCHANGED <<timestamp, clones, pc>>

DelayedInitDone ==
  /\ pc = "delayed"
  /\ pc' = "anchors"
  /\ UNCHANGED <<timestamp, variables, id, cov, dim, clones, anchor>>

\* Mistakes: the newest clone goes; the window is one too long; anchors stay.
IsNewest(m) == m \in clones /\ \A t \in clones : t <= m
WindowTooLong == Cardinality(clones) > max_clone_size + 1
AnchorsStay ==
  /\ pc = "anchors" /\ pc' = "marginalize"
  /\ UNCHANGED <<timestamp, variables, id, cov, dim, clones, anchor>>

\* margtimestep(): the oldest clone.
IsMargTimestep(m) == m \in clones /\ \A t \in clones : m <= t

WindowExceeded == Cardinality(clones) > max_clone_size

\* One anchor change: the landmark's rows now describe it in the newest clone.
PerformAnchorChange(f) ==
  /\ pc = "anchors"
  /\ f \in Landmarks
  /\ WindowExceeded
  /\ IsMargTimestep(anchor[f])
  /\ cov' = Rewritten(cov, id[Landmark(f)], FeatSize, Point(f, timestamp))
  /\ anchor' = [anchor EXCEPT ![f] = timestamp]
  /\ UNCHANGED <<timestamp, variables, id, dim, clones, pc>>

ChangeAnchorsDone ==
  /\ pc = "anchors"
  /\ ~ \E f \in Landmarks : WindowExceeded /\ IsMargTimestep(anchor[f])
  /\ pc' = "marginalize"
  /\ UNCHANGED <<timestamp, variables, id, cov, dim, clones, anchor>>

MarginalizeOldClone(m) ==
  /\ pc = "marginalize"
  /\ WindowExceeded
  /\ IsMargTimestep(m)
  /\ Marginalize(Clone(m))
  /\ clones' = clones \ {m}
  /\ pc' = IF Clone(m) \notin variables THEN "exit" ELSE "ready"
  /\ UNCHANGED <<timestamp, anchor>>

KeepClones ==
  /\ pc = "marginalize"
  /\ ~WindowExceeded
  /\ pc' = "ready"
  /\ UNCHANGED <<timestamp, variables, id, cov, dim, clones, anchor>>

Next ==
  \/ \E c \in Calibs : AppendCalibration(c)
  \/ \E t \in Stamps : \/ Initialize(t)
                       \/ NewImage(t)
                       \/ CatchUp(t)
                       \/ ZeroVelocityUpdate(t)
                       \/ MarginalizeOldClone(t)
  \/ SameStampImage
  \/ \E f \in Feats : \/ MarginalizeSlam(f)
                      \/ \E a \in Stamps : DelayedInit(f, a)
                      \/ PerformAnchorChange(f)
  \/ MarginalizeSlamDone
  \/ DelayedInitDone
  \/ ChangeAnchorsDone
  \/ KeepClones

Spec == Init /\ [][Next]_vars
-----------------------------------------------------------------------------
(***************************************************************************)
(* Properties.                                                             *)
(***************************************************************************)

Quantities == {At(t) : t \in Stamps \cup {-1}} \cup {Value(c) : c \in Calibs}
                 \cup {Point(f, a) : f \in Feats, a \in Stamps}

TypeOK ==
  /\ timestamp \in Stamps \cup {-1}
  /\ variables \subseteq Type /\ Imu \in variables
  /\ id \in [Type -> Int]
  /\ dim \in Nat
  /\ cov \in [0..(dim - 1) -> Quantities \X Nat]
  /\ clones \subseteq Stamps
  /\ Landmarks \subseteq Feats
  /\ anchor \in [Landmarks -> Stamps]
  /\ pc \in {"construct", "ready", "update", "delayed", "anchors", "marginalize", "exit"}

\* The quantity a variable stands for.
Meaning(v) == CASE v[1] = "imu"      -> At(timestamp)
                [] v[1] = "calib"    -> Value(v[2])
                [] v[1] = "clone"    -> At(v[2])
                [] v[1] = "landmark" -> Point(v[2], anchor[v[2]])

\* The block at id() of every variable of the state is that variable's: after any
\* sequence of appends, removals and anchor changes get_marginal_covariance and
\* EKFUpdate read and write the rows of the variable they name.
BlocksDescribeVariables ==
  \A v \in variables : \A k \in 0..(Size(v) - 1) :
    /\ id[v] + k \in DOMAIN cov
    /\ cov[id[v] + k] = <<Meaning(v), k>>

\* The matrix has no row left over from a variable marginalized out, and no row
\* shared by two variables.
RowsPartitioned ==
  \A r \in 0..(dim - 1) :
    \E v \in variables : r \in Rows(v) /\ \A w \in variables \ {v} : r \notin Rows(w)

\* _variables holds exactly what _clones_IMU, _features_SLAM and the options name:
\* a clone or landmark dropped from its container is also out of the covariance,
\* and a variable outside the state has id -1.
ContainersAgree ==
  /\ pc # "construct" =>
       variables = {Imu} \cup {Calib(c) : c \in Calibs}
                    \cup {Clone(t) : t \in clones} \cup {Landmark(f) : f \in Landmarks}
  /\ \A v \in Type \ variables : id[v] = -1

\* A landmark is always given relative to a clone that is still in the window, also
\* between change_anchors and marginalize_old_clone.
AnchorsInWindow == \A f \in Landmarks : anchor[f] \in clones

\* propagate_and_clone, EKFPropagation, augment_clone and marginalize never reach
\* std::exit: in particular the IMU intrinsics stay right behind the IMU.
NeverExits == pc # "exit"

\* One call of marginalize_old_clone per image is enough to keep the window at
\* max_clone_size, also when images are caught up with after initialization.
WindowBounded ==
  Cardinality(clones) <= max_clone_size + (IF pc \in {"construct", "ready"} THEN 0 ELSE 1)

(***************************************************************************)
(* The window as the covariance alone tells it: the stamps of the poses    *)
(* behind the IMU's rows, and for every point that has rows its anchor.    *)
(***************************************************************************)
CovNow    == cov[0][1][2]
CovWindow == {cov[r][1][2] : r \in {q \in DOMAIN cov : q >= ImuSize /\ cov[q][1][1] = "at"}}
CovPoints == {cov[r][1][2] : r \in {q \in DOMAIN cov : cov[q][1][1] = "point"}}
CovFrame  == [f \in CovPoints |->
                CHOOSE a \in Stamps : \E r \in DOMAIN cov : cov[r][1] = Point(f, a)]

SW == INSTANCE SlidingWindow WITH now <- CovNow, window <- CovWindow, frame <- CovFrame

\* The covariance, read without the containers, goes through the steps of a sliding
\* window: StateHelper's index arithmetic implements SlidingWindow.
CovarianceIsSlidingWindow == SW!Spec
=============================================================================
