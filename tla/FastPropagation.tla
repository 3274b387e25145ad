-------------------------- MODULE FastPropagation --------------------------
(***************************************************************************)
(* Propagator::fast_state_propagate: poses between two images, integrated  *)
(* from a cached copy of the state that the filter invalidates when it has *)
(* updated the state (VioManager.cpp).  The copy is taken field by field   *)
(* and declared valid afterwards; only that flag is atomic.                *)
(*                                                                         *)
(* Readings come at every other instant.  The IMU estimate is told by the  *)
(* number of updates behind it, the instant (IMU clock) it is for, and     *)
(* whether a pose was given from it.                                       *)
(***************************************************************************)
EXTENDS ImuSelect

CONSTANTS
  Horizon, MaxUpdates,
  Offsets,         \* values of the estimate calib_dt_CAMtoIMU
  Threads,         \* poses are asked for while the filter is updating
  Forward          \* each for an instant past the one before by more than the clocks differ

ASSUME FastAssumption ==
  /\ Horizon \in Nat /\ MaxUpdates \in Nat
  /\ Offsets \subseteq Nat /\ Offsets # {} /\ IsFiniteSet(Offsets)
  /\ Threads \in BOOLEAN /\ Forward \in BOOLEAN

VARIABLES
  newest,                   \* the last reading
  timestamp, t_off, updates,\* the state
  filter,                   \* where the filter is with an image
  cache_imu_valid,
  cache_state_time, cache_t_off, \* the cached copy: its time
  cache_est,                \* and its estimate, as [updates, at, given]
  asker, asked,             \* where the other caller is, the time it asks for
  answer                    \* its last pose: the time asked for, the instant it is really for,
                            \* whether it was the first from its copy, the state's t_off then

imuState == <<timestamp, t_off, updates>>
cache    == <<cache_imu_valid, cache_state_time, cache_t_off, cache_est>>
vars     == <<newest, imuState, filter, cache, asker, asked, answer>>

Init ==
  /\ newest = 2
  /\ timestamp = 0 /\ t_off \in Offsets /\ updates = 0
  /\ filter = "idle"
  /\ cache_imu_valid = FALSE /\ cache_state_time = 0 /\ cache_t_off = 0
  /\ cache_est = [updates |-> 0, at |-> 0, given |-> FALSE]
  /\ asker = "idle" /\ asked = 0 /\ answer = [for |-> 0, at |-> 0, first |-> FALSE, t_off |-> 0]

imu_data == [i \in 1..((newest \div 2) + 1) |-> 2 * (i - 1)]

-----------------------------------------------------------------------------
FeedImu ==
  /\ newest + 2 <= Horizon
  /\ newest' = newest + 2
  /\ UNCHANGED <<imuState, filter, cache, asker, asked, answer>>

\* Propagation alone adds nothing that the cached estimate lacks; with too few clones
\* it is all that happens.
NewImage(t) ==
  /\ filter = "idle" /\ (~Threads => asker = "idle")
  /\ timestamp < t /\ t + t_off < newest
  /\ timestamp' = t
  /\ filter' \in {"idle", "update"}
  /\ UNCHANGED <<newest, t_off, updates, cache, asker, asked, answer>>

\* The MSCKF update, a batch of the SLAM update, or a zero velocity update.
Update ==
  /\ filter = "update" /\ updates < MaxUpdates
  /\ updates' = updates + 1 /\ t_off' \in Offsets
  /\ filter' = "invalidate"
  /\ UNCHANGED <<newest, timestamp, cache, asker, asked, answer>>

\* Mistake: the cache stays valid.
ForgetToInvalidate ==
  /\ filter = "invalidate" /\ filter' \in {"update", "delayed", "idle"}
  /\ UNCHANGED <<newest, imuState, cache, asker, asked, answer>>

invalidate_cache ==
  /\ filter = "invalidate"
  /\ cache_imu_valid' = FALSE
  /\ filter' \in {"update", "delayed", "idle"}
  /\ UNCHANGED <<newest, imuState, cache_state_time, cache_t_off, cache_est, asker, asked, answer>>

\* delayed_init may update the state, too; the cache is not invalidated after it.
DelayedInit ==
  /\ filter = "delayed"
  /\ updates' \in {updates, Min({updates + 1, MaxUpdates})} /\ t_off' \in Offsets
  /\ filter' = "idle"
  /\ UNCHANGED <<newest, timestamp, cache, asker, asked, answer>>

-----------------------------------------------------------------------------
\* fast_state_propagate(ts).
Ask(ts) ==
  /\ asker = "idle" /\ (~Threads => filter = "idle")
  /\ timestamp < ts /\ ts <= newest
  /\ Forward => ts > asked + Max(Offsets)
  /\ asked' = ts
  /\ asker' = IF cache_imu_valid THEN "integrate" ELSE "copy time"
  /\ UNCHANGED <<newest, imuState, filter, cache, answer>>

CopyTime ==
  /\ asker = "copy time"
  /\ cache_state_time' = timestamp
  /\ asker' = "copy estimate"
  /\ UNCHANGED <<newest, imuState, filter, cache_imu_valid, cache_t_off, cache_est, asked, answer>>

CopyEstimate ==
  /\ asker = "copy estimate"
  /\ cache_est' = [updates |-> updates, at |-> timestamp + t_off, given |-> FALSE]
  /\ cache_t_off' = t_off
  /\ asker' = "validate"
  /\ UNCHANGED <<newest, imuState, filter, cache_imu_valid, cache_state_time, asked, answer>>

Validate ==
  /\ asker = "validate"
  /\ cache_imu_valid' = TRUE
  /\ asker' = "integrate"
  /\ UNCHANGED <<newest, imuState, filter, cache_state_time, cache_t_off, cache_est, asked, answer>>

\* Mistake: the offset stays.
OffsetStays == cache_t_off

\* "This time will now be in the IMU clock, so reset the toff to zero."
OffsetAfter == 0

Integrate ==
  /\ asker = "integrate"
  /\ LET time0 == cache_state_time + cache_t_off
         time1 == asked + cache_t_off
         data  == select_imu_readings(imu_data, time0, time1)
     IN  IF Len(data) < 2 THEN UNCHANGED <<cache, answer>>
         ELSE /\ cache_est' = [cache_est EXCEPT !.at = @ + TimeCovered(data), !.given = TRUE]
              /\ cache_state_time' = time1 /\ cache_t_off' = OffsetAfter
              /\ answer' = [for |-> asked, at |-> cache_est'.at,
                            first |-> ~cache_est.given, t_off |-> t_off]
              /\ UNCHANGED cache_imu_valid
  /\ asker' = "idle"
  /\ UNCHANGED <<newest, imuState, filter, asked>>

Next ==
  \/ FeedImu
  \/ \E t \in 0..Horizon : NewImage(t) \/ Ask(t)
  \/ Update \/ invalidate_cache \/ DelayedInit
  \/ CopyTime \/ CopyEstimate \/ Validate \/ Integrate

Spec == Init /\ [][Next]_vars
-----------------------------------------------------------------------------
\* "Will invalidate the cache used for fast propagation": while the filter is at rest a
\* pose is integrated from the state as its last update left it.
FreshAfterUpdate ==
  asker = "integrate" /\ filter = "idle" => cache_est.updates = updates

\* What the pose given is the pose of: the first from a copy takes the time for the
\* camera's, all later ones for the IMU's, to which the cache has moved (also where a call
\* without readings came between); and no reading before it is lost or taken twice.
FirstPoseOnCameraClock ==
  answer.at = answer.for + (IF answer.first THEN answer.t_off ELSE 0)

\* "timestamp Time to propagate to (IMU clock frame)": a pose is that of the instant asked
\* for, on the IMU's clock.
PoseOfItsInstant == answer.at = answer.for
=============================================================================
